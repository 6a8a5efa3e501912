----------------------------- MODULE ChainStore -----------------------------
(***************************************************************************)
(* The block store: io_save_block_raw (lib/src/io.c) with enchain_block    *)
(* and chain_clean (lib/src/chain.c), run by any number of processes on    *)
(* one ~/.freecoin directory.  The binaries of the repository all link the *)
(* library and none of it takes a lock, so a step of one process is one    *)
(* file operation and the processes interleave freely; a process may die   *)
(* between any two of them.                                                *)
(*                                                                         *)
(* A block is its hash.  Its header fields that the code reads are the     *)
(* constants Prev and Height.  Nothing validates a received block, so      *)
(* Height[b] may be any number; only a cycle of hashes is excluded.        *)
(*                                                                         *)
(* Head files are named by the hash they hold (io_head_load, _create and   *)
(* _delete take a hash): `heads' maps each head's hash to its height.      *)
(* The io_head_ functions are unfinished.  io_head_count reads the         *)
(* directory, counts in a variable that is declared nowhere and returns 0, *)
(* the body of io_head_load_all is empty, the others are only declared;    *)
(* block_compute_hash is a stub that ends the process.  A call runs in one *)
(* of the Builds: TRUE is one in which they do what their declarations and *)
(* their callers say, FALSE the library as it stands.                      *)
(***************************************************************************)
EXTENDS Naturals, FiniteSets

CONSTANTS
    Blocks,      \* block hashes
    Procs,       \* processes that use the data directory
    Prev,        \* Prev[b]: b's prev_hash, NoHash if it names no block
    Height,      \* Height[b]: the height field of b's header
    InitHeads,   \* the heads of a provisioned data directory
    NoHash,      \* a hash that is not a block's (GENESIS_PREV)
    Builds,      \* the builds in use: TRUE if the stubs are implemented
    MaxCrashes   \* how many processes may die between two file operations

VARIABLES
    file,   \* file[b]: the file blocks/<b>
    txidx,  \* txidx[b]: the file txindex/<b>
    heads,  \* the directory heads/: hash |-> head_t.height
    pc,     \* pc[p]: where p is in io_save_block_raw
    blk,    \* blk[p]: the block p is saving
    snap,   \* snap[p]: p's array heads[], filled by io_head_load_all
    todo,   \* todo[p]: the entries of snap[p] the for loop has still to visit
    cur,    \* cur[p]: heads[i].hash of the loop's current entry
    at,     \* at[p]: p's hash_buffer, NoHash between two walks
    crashes \* how many processes have died

vars == <<file, txidx, heads, pc, blk, snap, todo, cur, at, crashes>>

(***************************************************************************)
(* Ancestry.  Chain[h] is what a walk back from h along prev_hash meets    *)
(* when every block is on disk: the least set that holds h and follows     *)
(* every link, stopping at a header of height 0.                           *)
(***************************************************************************)
Linked(b) == Height[b] # 0 /\ Prev[b] \in Blocks

Closed(C) == \A x \in C : Linked(x) => Prev[x] \in C

Chain == [h \in Blocks |->
    {x \in Blocks : \A C \in SUBSET Blocks : h \in C /\ Closed(C) => x \in C}]

\* The blocks that a set of heads reaches, and those of the provisioned directory.
Reached(H) == UNION {Chain[h] : h \in H}
Base == Reached(InitHeads)

\* prev_hash is part of what block_raw_compute_hash hashes: no cycle of hashes.
Acyclic == \A S \in SUBSET Blocks : S # {} => \E b \in S : Prev[b] \notin S

ASSUME ConstantsAssumption ==
    /\ NoHash \notin Blocks
    /\ Prev \in [Blocks -> Blocks \cup {NoHash}]
    /\ Height \in [Blocks -> Nat]
    /\ InitHeads \subseteq Blocks
    /\ Builds \subseteq BOOLEAN
    /\ MaxCrashes \in Nat

ASSUME AcyclicAssumption == Acyclic

\* The provisioned chains reach all the way down to a block of height 0.
ASSUME BaseAssumption == \A b \in Base : Height[b] # 0 => Prev[b] \in Blocks

\* Its heads are tips: none of them is an ancestor of another.
ASSUME TipsAssumption == \A h, k \in InitHeads : k \in Chain[h] => k = h

FileStates == {"absent", "empty", "full"}

\* fopen(.., "rb") finds a file, be it one that is being rewritten.
Stored == {b \in Blocks : file[b] # "absent"}

NoneLoaded == [h \in {} |-> 0]

\* The data directory holds the provisioned chains, or no block yet.
Init ==
    /\ \E H \in {{}, InitHeads} :
        /\ file = [b \in Blocks |-> IF b \in Reached(H) THEN "full" ELSE "absent"]
        /\ txidx = [b \in Blocks |-> IF b \in Reached(H) THEN "full" ELSE "absent"]
        /\ heads = [h \in H |-> Height[h]]
    /\ pc = [p \in Procs |-> "idle"]
    /\ blk = [p \in Procs |-> NoHash]
    /\ snap = [p \in Procs |-> NoneLoaded]
    /\ todo = [p \in Procs |-> {}]
    /\ cur = [p \in Procs |-> NoHash]
    /\ at = [p \in Procs |-> NoHash]
    /\ crashes = 0

-----------------------------------------------------------------------------
(* io_save_block_raw: the block file, then the transaction index.           *)

\* Process p returns from io_save_block_raw, or exits.
Leave(p) ==
    /\ pc' = [pc EXCEPT ![p] = "idle"]
    /\ blk' = [blk EXCEPT ![p] = NoHash]
    /\ snap' = [snap EXCEPT ![p] = NoneLoaded]
    /\ todo' = [todo EXCEPT ![p] = {}]
    /\ cur' = [cur EXCEPT ![p] = NoHash]
    /\ at' = [at EXCEPT ![p] = NoHash]

Local == <<snap, todo, cur, at, crashes>>

\* fopen(block_file_name, "wb"), which also empties a file that was there.
OpenBlock(p, b) ==
    /\ pc[p] = "idle"
    /\ pc' = [pc EXCEPT ![p] = "opened"]
    /\ blk' = [blk EXCEPT ![p] = b]
    /\ file' = [file EXCEPT ![b] = "empty"]
    /\ UNCHANGED <<txidx, heads, Local>>

WriteBlock(p) ==
    /\ pc[p] = "opened"
    /\ pc' = [pc EXCEPT ![p] = "written"]
    /\ file' = [file EXCEPT ![blk[p]] = "full"]
    /\ UNCHANGED <<txidx, heads, blk, Local>>

\* (mutation) the index file is created and its contents are never written
OpenTxindexOnly(p) ==
    /\ pc[p] = "written"
    /\ pc' = [pc EXCEPT ![p] = "enchain"]
    /\ txidx' = [txidx EXCEPT ![blk[p]] = "empty"]
    /\ UNCHANGED <<file, heads, blk, Local>>

OpenTxindex(p) ==
    /\ pc[p] = "written"
    /\ pc' = [pc EXCEPT ![p] = "indexing"]
    /\ txidx' = [txidx EXCEPT ![blk[p]] = "empty"]
    /\ UNCHANGED <<file, heads, blk, Local>>

WriteTxindex(p) ==
    /\ pc[p] = "indexing"
    /\ pc' = [pc EXCEPT ![p] = "enchain"]
    /\ txidx' = [txidx EXCEPT ![blk[p]] = "full"]
    /\ UNCHANGED <<file, heads, blk, Local>>

-----------------------------------------------------------------------------
(* enchain_block.                                                           *)

\* io_head_count followed by io_head_load_all, in one step: between the two
\* reads of the directory a new head would make the second write past the
\* array the first has sized.
LoadHeads(p) ==
    /\ snap' = [snap EXCEPT ![p] = heads]
    /\ todo' = [todo EXCEPT ![p] = DOMAIN heads]
    /\ cur' = [cur EXCEPT ![p] = NoHash]
    /\ at' = [at EXCEPT ![p] = NoHash]

\* block_compute_hash is a stub that calls fatal(): the process dies.
ComputeHashFails(p) ==
    /\ pc[p] = "enchain"
    /\ FALSE \in Builds
    /\ crashes < MaxCrashes
    /\ crashes' = crashes + 1
    /\ Leave(p)
    /\ UNCHANGED <<file, txidx, heads>>

\* No head: enchain_block returns at once, without chain_clean.
NoHeads(p) ==
    /\ pc[p] = "enchain"
    /\ TRUE \in Builds
    /\ DOMAIN heads = {}
    /\ Leave(p)
    /\ UNCHANGED <<file, txidx, heads, crashes>>

\* The existence check cannot fail here: p has written the file itself and
\* no code removes one.
StartSearch(p) ==
    /\ pc[p] = "enchain"
    /\ TRUE \in Builds
    /\ DOMAIN heads # {}
    /\ LoadHeads(p)
    /\ pc' = [pc EXCEPT ![p] = "search"]
    /\ UNCHANGED <<file, txidx, heads, blk, crashes>>

\* The next iteration of a for loop over heads[]; the order in which
\* io_head_load_all fills the array is the directory's.
NextHead(p) ==
    /\ pc[p] \in {"search", "clean"}
    /\ at[p] = NoHash
    /\ \E h \in todo[p] :
        /\ todo' = [todo EXCEPT ![p] = @ \ {h}]
        /\ cur' = [cur EXCEPT ![p] = h]
        /\ at' = [at EXCEPT ![p] = h]
    /\ UNCHANGED <<file, txidx, heads, pc, blk, snap, crashes>>

\* (mutation) hash_buffer is not moved to prev_hash
StayPut(b) == IF file[b] = "full" /\ Linked(b) /\ Prev[b] \in Stored THEN b ELSE NoHash

\* The walk's next hash_buffer after a header was loaded and found not to
\* match.  A file being rewritten reads as zeros, hence height 0: nothing is
\* read into the buffer, and a malloc of MAX_BLOCK_SIZE, one GiB, gets pages
\* fresh from the system.  A prev_hash that names no file fails the next
\* io_load_block_header: the walk ends too.
StepBack(b) ==
    IF file[b] = "full" /\ Linked(b) /\ Prev[b] \in Stored THEN Prev[b] ELSE NoHash

\* "Check that the block isn't already enchained".
SearchStep(p) ==
    /\ pc[p] = "search"
    /\ at[p] # NoHash
    /\ at[p] # blk[p]
    /\ at' = [at EXCEPT ![p] = StepBack(at[p])]
    /\ UNCHANGED <<file, txidx, heads, pc, blk, snap, todo, cur, crashes>>

\* goto finalize
Finalize(p) ==
    /\ pc' = [pc EXCEPT ![p] = "finalize"]
    /\ UNCHANGED <<file, txidx, blk, Local>>

\* (mutation) return instead of goto finalize
AlreadyEnchainedReturns(p) ==
    /\ pc[p] = "search"
    /\ at[p] = blk[p]
    /\ Leave(p)
    /\ UNCHANGED <<file, txidx, heads, crashes>>

AlreadyEnchained(p) ==
    /\ pc[p] = "search"
    /\ at[p] = blk[p]
    /\ Finalize(p)
    /\ UNCHANGED heads

SearchFailed(p) == pc[p] = "search" /\ at[p] = NoHash /\ todo[p] = {}

\* (mutation) the height is counted down
FastForwardDown(p) ==
    /\ SearchFailed(p)
    /\ Prev[blk[p]] \in DOMAIN snap[p]
    /\ heads' = [h \in DOMAIN heads \cup {blk[p]} |->
                    IF h = blk[p] THEN snap[p][Prev[blk[p]]] - 1 ELSE heads[h]]
    /\ Finalize(p)

\* (mutation) the height is not counted up
FastForwardSameHeight(p) ==
    /\ SearchFailed(p)
    /\ Prev[blk[p]] \in DOMAIN snap[p]
    /\ heads' = [h \in DOMAIN heads \cup {blk[p]} |->
                    IF h = blk[p] THEN snap[p][Prev[blk[p]]] ELSE heads[h]]
    /\ Finalize(p)

\* (mutation) io_head_update is not called
FastForwardInMemory(p) ==
    /\ SearchFailed(p)
    /\ Prev[blk[p]] \in DOMAIN snap[p]
    /\ Finalize(p)
    /\ UNCHANGED heads

\* The head is fast forwarded: io_head_update writes the head file named by
\* the new hash; the file of the old hash is left to chain_clean.
FastForward(p) ==
    /\ SearchFailed(p)
    /\ Prev[blk[p]] \in DOMAIN snap[p]
    /\ heads' = [h \in DOMAIN heads \cup {blk[p]} |->
                    IF h = blk[p] THEN snap[p][Prev[blk[p]]] + 1 ELSE heads[h]]
    /\ Finalize(p)

\* (mutation) any stored block gets a head, its ancestors being there or not
NewHeadStored(p) ==
    /\ SearchFailed(p)
    /\ Prev[blk[p]] \notin DOMAIN snap[p]
    /\ heads' = [h \in DOMAIN heads \cup {blk[p]} |->
                    IF h = blk[p] THEN Height[h] ELSE heads[h]]
    /\ Finalize(p)

\* "Create a new head for this block": newhead is filled in and never stored.
NewHead(p) ==
    /\ SearchFailed(p)
    /\ Prev[blk[p]] \notin DOMAIN snap[p]
    /\ Finalize(p)
    /\ UNCHANGED heads

-----------------------------------------------------------------------------
(* chain_clean.                                                             *)

\* (mutation) chain_clean works on enchain_block's copy of the heads
StartCleanStale(p) ==
    /\ pc[p] = "finalize"
    /\ todo' = [todo EXCEPT ![p] = DOMAIN snap[p]]
    /\ at' = [at EXCEPT ![p] = NoHash]
    /\ pc' = [pc EXCEPT ![p] = "clean"]
    /\ UNCHANGED <<file, txidx, heads, blk, snap, cur, crashes>>

StartClean(p) ==
    /\ pc[p] = "finalize"
    /\ LoadHeads(p)
    /\ pc' = [pc EXCEPT ![p] = "clean"]
    /\ UNCHANGED <<file, txidx, heads, blk, crashes>>

\* io_head_delete(hash) for a head k # i that the walk from head i meets.
DeleteHead(h) == heads' = [k \in DOMAIN heads \ {h} |-> heads[k]]

\* (mutation) the head that reaches the other one is deleted
CleanStepUpper(p) ==
    /\ pc[p] = "clean"
    /\ at[p] # NoHash
    /\ IF at[p] \in DOMAIN snap[p] \ {cur[p]}
       THEN DeleteHead(cur[p])
       ELSE UNCHANGED heads
    /\ at' = [at EXCEPT ![p] = StepBack(at[p])]
    /\ UNCHANGED <<file, txidx, pc, blk, snap, todo, cur, crashes>>

CleanStep(p) ==
    /\ pc[p] = "clean"
    /\ at[p] # NoHash
    /\ IF at[p] \in DOMAIN snap[p] \ {cur[p]}
       THEN DeleteHead(at[p])
       ELSE UNCHANGED heads
    /\ at' = [at EXCEPT ![p] = StepBack(at[p])]
    /\ UNCHANGED <<file, txidx, pc, blk, snap, todo, cur, crashes>>

EndClean(p) ==
    /\ pc[p] = "clean"
    /\ at[p] = NoHash
    /\ todo[p] = {}
    /\ Leave(p)
    /\ UNCHANGED <<file, txidx, heads, crashes>>

-----------------------------------------------------------------------------
\* The process is killed, or fatal() ends it.  Its memory is gone; what it has
\* written stays.
Crash(p) ==
    /\ crashes < MaxCrashes
    /\ pc[p] # "idle"
    /\ crashes' = crashes + 1
    /\ Leave(p)
    /\ UNCHANGED <<file, txidx, heads>>

Step(p) ==
    \/ WriteBlock(p) \/ OpenTxindex(p) \/ WriteTxindex(p)
    \/ NoHeads(p) \/ StartSearch(p)
    \/ NextHead(p) \/ SearchStep(p) \/ AlreadyEnchained(p)
    \/ FastForward(p) \/ NewHead(p)
    \/ StartClean(p) \/ CleanStep(p) \/ EndClean(p)

Next ==
    \E p \in Procs :
        \/ \E b \in Blocks : OpenBlock(p, b)
        \/ Step(p)
        \/ ComputeHashFails(p) \/ Crash(p)

Spec == Init /\ [][Next]_vars

\* A process that is inside io_save_block_raw keeps running.
FairSpec == Spec /\ \A p \in Procs : WF_vars(Step(p))

-----------------------------------------------------------------------------
(* Properties.                                                              *)

PCs == {"idle", "opened", "written", "indexing", "enchain", "search",
        "finalize", "clean"}

\* Type invariant of the data directory and of the processes' locals.
TypeOK ==
    /\ file \in [Blocks -> FileStates]
    /\ txidx \in [Blocks -> FileStates]
    /\ DOMAIN heads \subseteq Blocks
    /\ heads \in [DOMAIN heads -> Nat]
    /\ pc \in [Procs -> PCs]
    /\ blk \in [Procs -> Blocks \cup {NoHash}]
    /\ DOMAIN snap = Procs
    /\ \A p \in Procs : /\ DOMAIN snap[p] \subseteq Blocks
                        /\ snap[p] \in [DOMAIN snap[p] -> Nat]
    /\ todo \in [Procs -> SUBSET Blocks]
    /\ cur \in [Procs -> Blocks \cup {NoHash}]
    /\ at \in [Procs -> Blocks \cup {NoHash}]
    /\ crashes \in 0 .. MaxCrashes

\* The enchained blocks: those the heads reach.
Enchained == Reached(DOMAIN heads)

\* No step of any process (a fast forward, a deletion decided on a stale copy
\* of heads[], a crash, the truncation of a file) takes a block out of the
\* chain: what some head reaches, some head always reaches.
NothingUnchained == [][Enchained \subseteq Enchained']_vars

\* The files implement the growing chain.
G == INSTANCE GrowingChain WITH enchained <- Enchained
ImplementsGrowth == G!Growth

\* k is a dead head: another head already reaches it.
Dead(k) == \E h \in DOMAIN heads \ {k} : k \in Chain[h]

Quiet == \A p \in Procs : pc[p] = "idle"

\* Whenever no process is saving a block there is no dead head, whatever the
\* interleaving of the chain_clean walks was (as long as no process has died).
NoDeadHeads == Quiet /\ crashes = 0 => \A k \in DOMAIN heads : ~Dead(k)

\* The death of a process leaves at most one dead head behind, wherever in
\* enchain_block and chain_clean it comes and whatever the walks of the others
\* miss because of it (an emptied file ends them).
DeadHeadsPerDeath == Quiet => Cardinality({k \in DOMAIN heads : Dead(k)}) <= crashes

\* A head's height, counted up by fast forwards, is its block's height,
\* provided that the blocks' own heights count up along prev_hash.
HeightsCountUp == \A b \in Blocks : Prev[b] \in Blocks => Height[b] = Height[Prev[b]] + 1
HeadHeights == HeightsCountUp => \A h \in DOMAIN heads : heads[h] = Height[h]

\* A block that is not being saved is complete on disk, and so is its
\* transaction index (as long as no process has died).
Saving(b) == \E p \in Procs : blk[p] = b
Complete(b) == file[b] = "full" /\ txidx[b] = "full"
BlocksComplete == crashes = 0 => \A b \in Stored : ~Saving(b) => Complete(b)

\* Every call of io_save_block_raw ends, however often other processes
\* rewrite the files it walks over.
SaveEnds == \A p \in Procs : pc[p] # "idle" ~> pc[p] = "idle"

\* The peers send every block again and again.
Reoffered == \A b \in Blocks : []<>Saving(b)

\* What the death of a process leaves behind (an emptied block file, a missing
\* index, a dead head) is repaired for good once the blocks are saved again.
Heals ==
    Reoffered => <>[](Quiet => /\ \A b \in Stored : Complete(b)
                              /\ \A k \in DOMAIN heads : ~Dead(k))

\* On a chain without forks, of which something was provisioned, every block
\* ends up enchained once it is saved again, in whatever order the blocks arrived
\* and whichever saves lost the race to their parent's.
Linear == \E t \in Blocks : Chain[t] = Blocks
LinearChainEnchained == Linear /\ DOMAIN heads # {} /\ Reoffered => <>[](Enchained = Blocks)

-----------------------------------------------------------------------------
(* What the documentation says and the code does not do.                    *)

\* docs/info/storage.md:22-24: a block that is saved was already pointed to, is
\* appended to a head or gets a head of its own.
SavedAreEnchained == Stored \subseteq Enchained

\* The blocks from h back along prev_hash, whatever their headers say of their
\* heights.
Ancestry(h) ==
    {x \in Blocks : \A C \in SUBSET Blocks :
        h \in C /\ (\A y \in C : Prev[y] \in Blocks => Prev[y] \in C) => x \in C}

\* docs/info/storage.md:19,26: a chain clean deletes the heads that point to
\* blocks which another head points to indirectly.
NoHeadBelowAnother == \A h, k \in DOMAIN heads : k \in Ancestry(h) => k = h

\* When nobody is saving and nobody has died both rules should hold; a state that
\* breaks the two of them at once shows that neither is kept.
OneHeadRuleKept == Quiet /\ crashes = 0 => SavedAreEnchained \/ NoHeadBelowAnother
=============================================================================
