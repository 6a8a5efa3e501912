-------------------------- MODULE ChainStoreProofs --------------------------
(***************************************************************************)
(* The block store loses nothing, for every set of blocks and processes,   *)
(* every header contents without a cycle of hashes, and any number of      *)
(* deaths of processes.                                                    *)
(***************************************************************************)
EXTENDS ChainStore, TLAPS

-----------------------------------------------------------------------------
(* Facts about ancestry.  Chain[h] is defined as a least closed set, so     *)
(* each of them is had by exhibiting a closed set.                          *)

\* A chain is made of blocks and starts with the block it belongs to.
LEMMA ChainType ==
  ASSUME NEW h \in Blocks
  PROVE  Chain[h] \subseteq Blocks /\ h \in Chain[h]
  BY DEF Chain

\* A closed set that holds h holds h's chain.
LEMMA ChainLeast ==
  ASSUME NEW h \in Blocks, NEW C \in SUBSET Blocks, h \in C, Closed(C)
  PROVE  Chain[h] \subseteq C
  BY DEF Chain

\* A chain follows every link.
LEMMA ChainClosed ==
  ASSUME NEW h \in Blocks
  PROVE  Closed(Chain[h])
<1> SUFFICES ASSUME NEW x \in Chain[h], Linked(x)
             PROVE  Prev[x] \in Chain[h]
  BY DEF Closed
<1>1. Prev[x] \in Blocks
  BY DEF Linked
<1>2. ASSUME NEW C \in SUBSET Blocks, h \in C, Closed(C)
      PROVE  Prev[x] \in C
  BY <1>2, ChainLeast DEF Closed
<1> QED
  BY <1>1, <1>2 DEF Chain

\* The chain of a block of a chain is a part of it.
LEMMA ChainTransitive ==
  ASSUME NEW h \in Blocks, NEW x \in Chain[h]
  PROVE  Chain[x] \subseteq Chain[h]
  BY ChainType, ChainClosed, ChainLeast

\* All but the first block of a chain are in the chain of its predecessor.
LEMMA ChainUnfold ==
  ASSUME NEW h \in Blocks, NEW x \in Chain[h], x # h
  PROVE  Linked(h) /\ x \in Chain[Prev[h]]
<1>1. CASE ~Linked(h)
  <2>1. Closed({h})
    BY <1>1 DEF Closed
  <2> QED
    BY <2>1, ChainLeast
<1>2. CASE Linked(h)
  <2> DEFINE C == {h} \cup Chain[Prev[h]]
  <2>1. Prev[h] \in Blocks
    BY <1>2 DEF Linked
  <2>2. C \in SUBSET Blocks
    BY <2>1, ChainType
  <2>3. Closed(C)
    BY <2>1, ChainType, ChainClosed DEF Closed
  <2>4. Chain[h] \subseteq C
    BY <2>2, <2>3, ChainLeast
  <2> QED
    BY <1>2, <2>4
<1> QED
  BY <1>1, <1>2

\* Two blocks are never on each other's chains.
LEMMA ChainAntisymmetric ==
  ASSUME NEW i \in Blocks, NEW k \in Chain[i], i \in Chain[k]
  PROVE  i = k
<1> SUFFICES ASSUME i # k
             PROVE  FALSE
  OBVIOUS
<1> DEFINE S == {x \in Chain[i] : i \in Chain[x]}
<1>1. S \subseteq Blocks /\ i \in S
  BY ChainType
<1>2. PICK x \in S : Prev[x] \notin S
  BY <1>1, AcyclicAssumption DEF Acyclic
<1>3. x \in Blocks
  BY <1>1
<1>4. Linked(x) /\ i \in Chain[Prev[x]]
  <2>1. CASE x # i
    BY <1>3, <2>1, ChainUnfold
  <2>2. CASE x = i
    <3>1. Linked(i) /\ k \in Chain[Prev[i]]
      BY ChainUnfold
    <3>2. Prev[i] \in Blocks
      BY <3>1 DEF Linked
    <3> QED
      BY <2>2, <3>1, <3>2, ChainTransitive
  <2> QED
    BY <2>1, <2>2
<1>5. Prev[x] \in Chain[i]
  BY <1>3, <1>4, ChainClosed DEF Closed
<1> QED
  BY <1>2, <1>4, <1>5

-----------------------------------------------------------------------------
(* The inductive invariant.                                                 *)

\* A copy of the heads may be stale, but all it names is still enchained, and
\* the loop over it visits nothing else.
SnapsEnchained ==
    \A p \in Procs : DOMAIN snap[p] \subseteq Enchained /\ todo[p] \subseteq DOMAIN snap[p]

\* A walk is on the chain of the head it started from.
WalksOnChain ==
    \A p \in Procs : at[p] # NoHash => cur[p] \in DOMAIN snap[p] /\ at[p] \in Chain[cur[p]]

\* The block that is being saved has a file.
SavingStored == \A p \in Procs : pc[p] # "idle" => blk[p] \in Stored

\* Every enchained block has a file, and a prev_hash that is enchained too
\* unless its height field says 0.
WalksComplete == \A x \in Enchained : x \in Stored /\ (Height[x] # 0 => Prev[x] \in Enchained)

Inv == TypeOK /\ SnapsEnchained /\ WalksOnChain /\ SavingStored /\ WalksComplete

\* The enchained blocks are blocks, and a closed set of them.
LEMMA EnchainedClosed ==
  ASSUME TypeOK
  PROVE  Enchained \subseteq Blocks /\ Closed(Enchained)
<1>1. \A h \in DOMAIN heads : h \in Blocks
  BY DEF TypeOK
<1> QED
  BY <1>1, ChainType, ChainClosed DEF Enchained, Closed, Reached

\* Deleting a head that is on the chain of another enchained block keeps what
\* is enchained: the head that reaches that block is not the deleted one.
LEMMA DeleteKeeps ==
  ASSUME TypeOK, NEW i \in Enchained, NEW k \in Chain[i], k # i
  PROVE  UNION {Chain[h] : h \in DOMAIN heads \ {k}} = Enchained
<1> DEFINE Rest == UNION {Chain[h] : h \in DOMAIN heads \ {k}}
<1>1. \A h \in DOMAIN heads : h \in Blocks
  BY DEF TypeOK
<1>2. PICK h \in DOMAIN heads : i \in Chain[h]
  BY DEF Enchained, Reached
<1>3. i \in Blocks /\ k \in Blocks /\ h \in Blocks
  BY <1>1, <1>2, ChainType
<1>4. k \in Chain[h]
  BY <1>2, <1>3, ChainTransitive
<1>5. h # k
  BY <1>2, <1>3, ChainAntisymmetric
<1>6. Chain[k] \subseteq Rest
  BY <1>3, <1>4, <1>5, ChainTransitive
<1>7. Enchained \subseteq Rest
  BY <1>6 DEF Enchained, Reached
<1>8. Rest \subseteq Enchained
  BY DEF Enchained, Reached
<1> QED
  BY <1>7, <1>8

\* Putting a head on a block whose predecessor is enchained adds that block
\* and nothing else.
LEMMA ExtendAdds ==
  ASSUME TypeOK, NEW b \in Blocks, Prev[b] \in Enchained
  PROVE  UNION {Chain[h] : h \in DOMAIN heads \cup {b}} = Enchained \cup {b}
<1> DEFINE C == Enchained \cup {b}
<1>1. C \in SUBSET Blocks /\ Closed(C)
  BY EnchainedClosed DEF Closed
<1>2. Chain[b] \subseteq C
  BY <1>1, ChainLeast
<1>3. b \in Chain[b]
  BY ChainType
<1> QED
  BY <1>2, <1>3 DEF Enchained, Reached

\* The initial state.
LEMMA InitInv == Init => Inv
<1> SUFFICES ASSUME Init
             PROVE  Inv
  OBVIOUS
<1> USE ConstantsAssumption DEF Init
<1>1. TypeOK
  BY DEF TypeOK, FileStates, PCs, NoneLoaded
<1>2. SnapsEnchained /\ WalksOnChain /\ SavingStored
  BY DEF SnapsEnchained, WalksOnChain, SavingStored, NoneLoaded
<1>3. PICK H \in {{}, InitHeads} :
        /\ file = [b \in Blocks |-> IF b \in Reached(H) THEN "full" ELSE "absent"]
        /\ heads = [h \in H |-> Height[h]]
  OBVIOUS
<1>4. Enchained = Reached(H) /\ Reached(H) \subseteq Base
  BY <1>3 DEF Enchained, Reached, Base
<1>5. WalksComplete
  <2> SUFFICES ASSUME NEW x \in Reached(H)
               PROVE  x \in Stored /\ (Height[x] # 0 => Prev[x] \in Reached(H))
    BY <1>4 DEF WalksComplete
  <2>1. x \in Blocks
    BY <1>1, <1>4, EnchainedClosed
  <2>2. x \in Stored
    BY <1>3, <2>1 DEF Stored
  <2>3. ASSUME Height[x] # 0
        PROVE  Prev[x] \in Reached(H)
    BY <1>1, <1>4, <2>1, <2>3, EnchainedClosed, BaseAssumption DEF Closed, Linked
  <2> QED
    BY <2>2, <2>3
<1> QED
  BY <1>1, <1>2, <1>5 DEF Inv

-----------------------------------------------------------------------------
(* One step.                                                                *)

\* Where a walk goes next is a block of the same chain, or nowhere.
LEMMA StepBackOnChain ==
  ASSUME NEW h \in Blocks, NEW x \in Chain[h]
  PROVE  StepBack(x) \in Chain[h] \cup {NoHash}
  BY ChainClosed DEF StepBack, Closed

\* Type correctness is preserved by every step.
LEMMA TypeStep == TypeOK /\ SavingStored /\ [Next]_vars => TypeOK'
<1> SUFFICES ASSUME TypeOK, SavingStored, [Next]_vars
             PROVE  TypeOK'
  OBVIOUS
<1> USE ConstantsAssumption DEF TypeOK, FileStates, PCs
<1>0. CASE UNCHANGED vars
  BY <1>0 DEF vars
<1>1. ASSUME NEW p \in Procs, NEW b \in Blocks, OpenBlock(p, b)
      PROVE  TypeOK'
  BY <1>1 DEF OpenBlock, Local
<1>2. ASSUME NEW p \in Procs, WriteBlock(p)
      PROVE  TypeOK'
  BY <1>2 DEF WriteBlock, Local
<1>3. ASSUME NEW p \in Procs, OpenTxindex(p)
      PROVE  TypeOK'
  BY <1>3 DEF OpenTxindex, Local
<1>4. ASSUME NEW p \in Procs, WriteTxindex(p)
      PROVE  TypeOK'
  BY <1>4 DEF WriteTxindex, Local
<1>5. ASSUME NEW p \in Procs, ComputeHashFails(p)
      PROVE  TypeOK'
  BY <1>5 DEF ComputeHashFails, Leave, NoneLoaded
<1>6. ASSUME NEW p \in Procs, NoHeads(p)
      PROVE  TypeOK'
  BY <1>6 DEF NoHeads, Leave, NoneLoaded
<1>7. ASSUME NEW p \in Procs, StartSearch(p)
      PROVE  TypeOK'
  BY <1>7 DEF StartSearch, LoadHeads
<1>8. ASSUME NEW p \in Procs, NextHead(p)
      PROVE  TypeOK'
  BY <1>8 DEF NextHead
<1>9. ASSUME NEW p \in Procs, SearchStep(p)
      PROVE  TypeOK'
  <2>1. StepBack(at[p]) \in Blocks \cup {NoHash}
    BY DEF StepBack, Linked
  <2> QED
    BY <1>9, <2>1 DEF SearchStep
<1>10. ASSUME NEW p \in Procs, AlreadyEnchained(p)
      PROVE  TypeOK'
  BY <1>10 DEF AlreadyEnchained, Finalize, Local
<1>11. ASSUME NEW p \in Procs, FastForward(p)
      PROVE  TypeOK'
  <2>1. blk[p] \in Blocks
    BY <1>11 DEF FastForward, SearchFailed, SavingStored, Stored
  <2> QED
    BY <1>11, <2>1 DEF FastForward, SearchFailed, Finalize, Local
<1>12. ASSUME NEW p \in Procs, NewHead(p)
      PROVE  TypeOK'
  BY <1>12 DEF NewHead, Finalize, Local
<1>13. ASSUME NEW p \in Procs, StartClean(p)
      PROVE  TypeOK'
  BY <1>13 DEF StartClean, LoadHeads
<1>14. ASSUME NEW p \in Procs, CleanStep(p)
      PROVE  TypeOK'
  <2>1. StepBack(at[p]) \in Blocks \cup {NoHash}
    BY DEF StepBack, Linked
  <2> QED
    BY <1>14, <2>1 DEF CleanStep, DeleteHead
<1>15. ASSUME NEW p \in Procs, EndClean(p)
      PROVE  TypeOK'
  BY <1>15 DEF EndClean, Leave, NoneLoaded
<1>16. ASSUME NEW p \in Procs, Crash(p)
      PROVE  TypeOK'
  BY <1>16 DEF Crash, Leave, NoneLoaded
<1> QED
  BY <1>0, <1>1, <1>2, <1>3, <1>4, <1>5, <1>6, <1>7, <1>8, <1>9, <1>10, <1>11, <1>12, <1>13, <1>14, <1>15, <1>16 DEF Next, Step

\* A step leaves the heads alone, fast forwards one, or deletes a dead one.
LEMMA HeadsStep ==
  ASSUME [Next]_vars
  PROVE  \/ heads' = heads
         \/ \E p \in Procs : FastForward(p)
         \/ \E p \in Procs : /\ CleanStep(p)
                              /\ at[p] \in DOMAIN snap[p] \ {cur[p]}
                              /\ DeleteHead(at[p])
  BY DEF Next, Step, vars, OpenBlock, WriteBlock, OpenTxindex, WriteTxindex,
         ComputeHashFails, NoHeads, StartSearch, NextHead, SearchStep, AlreadyEnchained,
         NewHead, StartClean, CleanStep, EndClean, Crash

\* What a step does to the enchained blocks: nothing, or one more on top.
LEMMA EnchainedStep ==
  ASSUME Inv, [Next]_vars
  PROVE  \/ Enchained' = Enchained
         \/ \E b \in Blocks : /\ b \in Stored
                              /\ Prev[b] \in Enchained
                              /\ Enchained' = Enchained \cup {b}
<1>1. CASE heads' = heads
  BY <1>1 DEF Enchained, Reached
<1>2. ASSUME NEW p \in Procs, FastForward(p)
      PROVE  \E b \in Blocks : /\ b \in Stored
                              /\ Prev[b] \in Enchained
                              /\ Enchained' = Enchained \cup {b}
  <2>1. blk[p] \in Stored /\ blk[p] \in Blocks
    BY <1>2 DEF Inv, FastForward, SearchFailed, SavingStored, Stored
  <2>2. Prev[blk[p]] \in Enchained
    BY <1>2 DEF Inv, FastForward, SnapsEnchained
  <2>3. DOMAIN heads' = DOMAIN heads \cup {blk[p]}
    BY <1>2 DEF FastForward
  <2>4. Enchained' = Enchained \cup {blk[p]}
    BY <2>1, <2>2, <2>3, ExtendAdds DEF Inv, Enchained, Reached
  <2> QED
    BY <2>1, <2>2, <2>4
<1>3. ASSUME NEW p \in Procs, CleanStep(p),
             at[p] \in DOMAIN snap[p] \ {cur[p]}, DeleteHead(at[p])
      PROVE  Enchained' = Enchained
  <2>1. cur[p] \in Enchained /\ at[p] \in Chain[cur[p]] /\ at[p] # cur[p]
    BY <1>3 DEF Inv, CleanStep, SnapsEnchained, WalksOnChain
  <2>2. DOMAIN heads' = DOMAIN heads \ {at[p]}
    BY <1>3 DEF DeleteHead
  <2> QED
    BY <2>1, <2>2, DeleteKeeps DEF Inv, Enchained, Reached
<1> QED
  BY <1>1, <1>2, <1>3, HeadsStep

\* No step removes a file.
LEMMA StoredGrows ==
  ASSUME TypeOK, [Next]_vars
  PROVE  Stored \subseteq Stored'
<1>1. CASE file' = file
  BY <1>1 DEF Stored
<1>2. ASSUME NEW p \in Procs, NEW b \in Blocks, OpenBlock(p, b)
      PROVE  Stored \subseteq Stored'
  BY <1>2 DEF TypeOK, Stored, OpenBlock
<1>3. ASSUME NEW p \in Procs, WriteBlock(p)
      PROVE  Stored \subseteq Stored'
  BY <1>3 DEF TypeOK, Stored, WriteBlock
<1>4. \/ file' = file
      \/ \E p \in Procs : WriteBlock(p) \/ \E b \in Blocks : OpenBlock(p, b)
  BY DEF Next, Step, vars, OpenTxindex, WriteTxindex,
         ComputeHashFails, NoHeads, StartSearch, NextHead, SearchStep, AlreadyEnchained,
         FastForward, NewHead, Finalize, StartClean, CleanStep, EndClean, Crash
<1> QED
  BY <1>1, <1>2, <1>3, <1>4

\* A process's copy of the heads changes only by loading or dropping it.
SnapChange(q) ==
    \/ snap'[q] = snap[q] /\ todo'[q] \subseteq todo[q]
    \/ snap'[q] = heads /\ todo'[q] = DOMAIN heads
    \/ snap'[q] = NoneLoaded /\ todo'[q] = {}

\* A process's walk stays put, ends, starts at an entry of its copy of the
\* heads, or goes one block back; its copy is then the same as before.
WalkChange(q) ==
    \/ at'[q] = NoHash
    \/ at'[q] = at[q] /\ cur'[q] = cur[q] /\ snap'[q] = snap[q]
    \/ at'[q] \in todo[q] /\ cur'[q] = at'[q] /\ snap'[q] = snap[q]
    \/ /\ at[q] # NoHash /\ at'[q] = StepBack(at[q])
       /\ cur'[q] = cur[q] /\ snap'[q] = snap[q]

\* A process is idle, opens a block, or goes on with the same block.
BlkChange(q) ==
    \/ pc'[q] = "idle"
    \/ blk'[q] = blk[q] /\ pc[q] # "idle"
    \/ blk'[q] \in Stored'

LocalChange(q) == SnapChange(q) /\ WalkChange(q) /\ BlkChange(q)

\* What a step, its own or another's, does to the locals of a process.
LEMMA LocalStep ==
  ASSUME TypeOK, [Next]_vars, NEW q \in Procs
  PROVE  LocalChange(q)
<1> USE DEF TypeOK, LocalChange, SnapChange, WalkChange, BlkChange
<1>0. CASE UNCHANGED vars
  BY <1>0 DEF vars
<1>1. ASSUME NEW p \in Procs, NEW b \in Blocks, OpenBlock(p, b)
      PROVE  LocalChange(q)
  BY <1>1 DEF OpenBlock, Local, Stored
<1>2. ASSUME NEW p \in Procs, WriteBlock(p)
      PROVE  LocalChange(q)
  BY <1>2 DEF WriteBlock, Local
<1>3. ASSUME NEW p \in Procs, OpenTxindex(p)
      PROVE  LocalChange(q)
  BY <1>3 DEF OpenTxindex, Local
<1>4. ASSUME NEW p \in Procs, WriteTxindex(p)
      PROVE  LocalChange(q)
  BY <1>4 DEF WriteTxindex, Local
<1>5. ASSUME NEW p \in Procs, ComputeHashFails(p)
      PROVE  LocalChange(q)
  BY <1>5 DEF ComputeHashFails, Leave
<1>6. ASSUME NEW p \in Procs, NoHeads(p)
      PROVE  LocalChange(q)
  BY <1>6 DEF NoHeads, Leave
<1>7. ASSUME NEW p \in Procs, StartSearch(p)
      PROVE  LocalChange(q)
  BY <1>7 DEF StartSearch, LoadHeads
<1>8. ASSUME NEW p \in Procs, NextHead(p)
      PROVE  LocalChange(q)
  BY <1>8 DEF NextHead
<1>9. ASSUME NEW p \in Procs, SearchStep(p)
      PROVE  LocalChange(q)
  BY <1>9 DEF SearchStep
<1>10. ASSUME NEW p \in Procs, AlreadyEnchained(p)
      PROVE  LocalChange(q)
  BY <1>10 DEF AlreadyEnchained, Finalize, Local
<1>11. ASSUME NEW p \in Procs, FastForward(p)
      PROVE  LocalChange(q)
  BY <1>11 DEF FastForward, SearchFailed, Finalize, Local
<1>12. ASSUME NEW p \in Procs, NewHead(p)
      PROVE  LocalChange(q)
  BY <1>12 DEF NewHead, SearchFailed, Finalize, Local
<1>13. ASSUME NEW p \in Procs, StartClean(p)
      PROVE  LocalChange(q)
  BY <1>13 DEF StartClean, LoadHeads
<1>14. ASSUME NEW p \in Procs, CleanStep(p)
      PROVE  LocalChange(q)
  BY <1>14 DEF CleanStep
<1>15. ASSUME NEW p \in Procs, EndClean(p)
      PROVE  LocalChange(q)
  BY <1>15 DEF EndClean, Leave
<1>16. ASSUME NEW p \in Procs, Crash(p)
      PROVE  LocalChange(q)
  BY <1>16 DEF Crash, Leave
<1> QED
  BY <1>0, <1>1, <1>2, <1>3, <1>4, <1>5, <1>6, <1>7, <1>8, <1>9, <1>10, <1>11, <1>12, <1>13, <1>14, <1>15, <1>16 DEF Next, Step

\* The invariant is inductive.
LEMMA InvStep == Inv /\ [Next]_vars => Inv'
<1> SUFFICES ASSUME Inv, [Next]_vars
             PROVE  Inv'
  OBVIOUS
<1>1. TypeOK /\ TypeOK'
  BY TypeStep DEF Inv
<1>2. Enchained \subseteq Enchained'
  BY EnchainedStep
<1>3. DOMAIN heads \subseteq Enchained
  BY <1>1, ChainType DEF TypeOK, Enchained, Reached
<1>4. SnapsEnchained'
  <2> SUFFICES ASSUME NEW q \in Procs
               PROVE  DOMAIN snap'[q] \subseteq Enchained' /\ todo'[q] \subseteq DOMAIN snap'[q]
    BY DEF SnapsEnchained
  <2>1. DOMAIN snap[q] \subseteq Enchained /\ todo[q] \subseteq DOMAIN snap[q]
    BY DEF Inv, SnapsEnchained
  <2> QED
    BY <1>1, <1>2, <1>3, <2>1, LocalStep DEF LocalChange, SnapChange, NoneLoaded
<1>5. WalksOnChain'
  <2> SUFFICES ASSUME NEW q \in Procs, at'[q] # NoHash
               PROVE  cur'[q] \in DOMAIN snap'[q] /\ at'[q] \in Chain[cur'[q]]
    BY DEF WalksOnChain
  <2>1. todo[q] \subseteq DOMAIN snap[q] /\ DOMAIN snap[q] \subseteq Blocks
    BY DEF Inv, SnapsEnchained, TypeOK
  <2>2. CASE at'[q] = at[q] /\ cur'[q] = cur[q] /\ snap'[q] = snap[q]
    BY <2>2 DEF Inv, WalksOnChain
  <2>3. CASE at'[q] \in todo[q] /\ cur'[q] = at'[q] /\ snap'[q] = snap[q]
    BY <2>1, <2>3, ChainType
  <2>4. CASE /\ at[q] # NoHash /\ at'[q] = StepBack(at[q])
             /\ cur'[q] = cur[q] /\ snap'[q] = snap[q]
    <3>1. cur[q] \in DOMAIN snap[q] /\ at[q] \in Chain[cur[q]]
      BY <2>4 DEF Inv, WalksOnChain
    <3>2. StepBack(at[q]) \in Chain[cur[q]] \cup {NoHash}
      BY <2>1, <3>1, StepBackOnChain
    <3> QED
      BY <2>4, <3>1, <3>2
  <2> QED
    BY <1>1, <2>2, <2>3, <2>4, LocalStep DEF LocalChange, WalkChange
<1>6. SavingStored'
  <2>1. Stored \subseteq Stored'
    BY <1>1, StoredGrows
  <2> QED
    BY <1>1, <2>1, LocalStep DEF Inv, SavingStored, LocalChange, BlkChange
<1>7. WalksComplete'
  <2>1. Stored \subseteq Stored'
    BY <1>1, StoredGrows
  <2>2. CASE Enchained' = Enchained
    BY <2>1, <2>2 DEF Inv, WalksComplete
  <2>3. ASSUME NEW b \in Blocks, b \in Stored, Prev[b] \in Enchained,
               Enchained' = Enchained \cup {b}
        PROVE  WalksComplete'
    BY <2>1, <2>3 DEF Inv, WalksComplete
  <2> QED
    BY <2>2, <2>3, EnchainedStep
<1> QED
  BY <1>1, <1>4, <1>5, <1>6, <1>7 DEF Inv

\* The inductive invariant of the saves holds in every reachable state.
THEOREM Invariance == Spec => []Inv
  BY InitInv, InvStep, PTL DEF Spec

-----------------------------------------------------------------------------
(* The results.                                                             *)

\* The data directory and the processes' locals are always well typed.
THEOREM TypeCorrect == Spec => []TypeOK
<1>1. Inv => TypeOK
  BY DEF Inv
<1> QED
  BY <1>1, Invariance, PTL

\* No interleaving of saves, no deletion of a head decided on stale data and no
\* death of a process takes a block out of the chain.
THEOREM NothingIsUnchained == Spec => NothingUnchained
<1>1. Inv /\ [Next]_vars => [Enchained \subseteq Enchained']_vars
  BY EnchainedStep
<1> QED
  BY <1>1, Invariance, PTL DEF Spec, NothingUnchained

\* The files under ~/.freecoin implement the growing ledger.
THEOREM Refinement == Spec => ImplementsGrowth
<1>1. Init => G!Provisioned
  BY DEF Init, G!Provisioned, Enchained, Base, Reached
<1>2. Inv /\ [Next]_vars => [G!Grow]_Enchained
  BY EnchainedStep DEF G!Grow, G!Enchain
<1> QED
  BY <1>1, <1>2, Invariance, PTL DEF Spec, ImplementsGrowth, G!Growth

-----------------------------------------------------------------------------
(* Heights of heads.                                                        *)

\* Head files and the copies of them in memory hold their blocks' heights.
HeightsInv ==
    HeightsCountUp => /\ \A h \in DOMAIN heads : heads[h] = Height[h]
                      /\ \A p \in Procs : \A h \in DOMAIN snap[p] : snap[p][h] = Height[h]

LEMMA HeightsStep == Inv /\ HeightsInv /\ [Next]_vars => HeightsInv'
<1> SUFFICES ASSUME Inv, HeightsInv, [Next]_vars, HeightsCountUp
             PROVE  HeightsInv'
  BY DEF HeightsInv, HeightsCountUp
<1>1. \A h \in DOMAIN heads' : heads'[h] = Height[h]
  <2>1. CASE heads' = heads
    BY <2>1 DEF HeightsInv
  <2>2. ASSUME NEW p \in Procs, FastForward(p)
        PROVE  \A h \in DOMAIN heads' : heads'[h] = Height[h]
    <3>1. blk[p] \in Blocks
      BY <2>2 DEF Inv, FastForward, SearchFailed, SavingStored, Stored
    <3>2. Prev[blk[p]] \in Blocks /\ Prev[blk[p]] \in DOMAIN snap[p]
      BY <2>2 DEF Inv, TypeOK, FastForward
    <3>3. Height[blk[p]] = snap[p][Prev[blk[p]]] + 1
      BY <3>1, <3>2 DEF HeightsInv, HeightsCountUp
    <3> QED
      BY <2>2, <3>3 DEF HeightsInv, FastForward
  <2>3. ASSUME NEW p \in Procs, DeleteHead(at[p])
        PROVE  \A h \in DOMAIN heads' : heads'[h] = Height[h]
    BY <2>3 DEF HeightsInv, DeleteHead
  <2> QED
    BY <2>1, <2>2, <2>3, HeadsStep
<1>2. \A p \in Procs : \A h \in DOMAIN snap'[p] : snap'[p][h] = Height[h]
  BY LocalStep DEF Inv, HeightsInv, LocalChange, SnapChange, NoneLoaded
<1> QED
  BY <1>1, <1>2 DEF HeightsInv

\* A head's height, counted up by fast forwards from a possibly stale copy, is
\* the height in its block's header.
THEOREM HeadHeightsCorrect == Spec => []HeadHeights
<1>1. Init => HeightsInv
  BY DEF Init, HeightsInv, NoneLoaded
<1>2. HeightsInv => HeadHeights
  BY DEF HeightsInv, HeadHeights
<1> QED
  BY <1>1, <1>2, HeightsStep, Invariance, PTL DEF Spec

-----------------------------------------------------------------------------
(* Completeness of the files.                                               *)

\* While no process has died, an emptied block file is about to be written, and
\* a missing or emptied index belongs to a save that has not reached its end.
Opened(b) == \E p \in Procs : blk[p] = b /\ pc[p] = "opened"
Indexing(b) == \E p \in Procs : blk[p] = b /\ pc[p] \in {"opened", "written", "indexing"}

FilesInv ==
    crashes = 0 => \A b \in Stored : /\ file[b] # "full" => Opened(b)
                                     /\ txidx[b] # "full" => Indexing(b)

LEMMA FilesStep == Inv /\ FilesInv /\ [Next]_vars => FilesInv'
<1> SUFFICES ASSUME Inv, FilesInv, [Next]_vars, crashes' = 0, NEW b \in Stored'
             PROVE  /\ file'[b] # "full" => Opened(b)'
                    /\ txidx'[b] # "full" => Indexing(b)'
  BY DEF FilesInv
<1> DEFINE Goal == /\ file'[b] # "full" => Opened(b)'
                   /\ txidx'[b] # "full" => Indexing(b)'
<1> USE DEF Inv, TypeOK, FilesInv, Stored, Opened, Indexing
<1>0. CASE UNCHANGED vars
  BY <1>0 DEF vars
<1>1. ASSUME NEW p \in Procs, NEW x \in Blocks, OpenBlock(p, x)
      PROVE  Goal
  BY <1>1 DEF OpenBlock, Local
<1>2. ASSUME NEW p \in Procs, WriteBlock(p)
      PROVE  Goal
  BY <1>2 DEF WriteBlock, Local
<1>3. ASSUME NEW p \in Procs, OpenTxindex(p)
      PROVE  Goal
  BY <1>3 DEF OpenTxindex, Local
<1>4. ASSUME NEW p \in Procs, WriteTxindex(p)
      PROVE  Goal
  BY <1>4 DEF WriteTxindex, Local
<1>5. ASSUME NEW p \in Procs, ComputeHashFails(p)
      PROVE  Goal
  BY <1>5 DEF ComputeHashFails, Leave
<1>6. ASSUME NEW p \in Procs, NoHeads(p)
      PROVE  Goal
  BY <1>6 DEF NoHeads, Leave
<1>7. ASSUME NEW p \in Procs, StartSearch(p)
      PROVE  Goal
  BY <1>7 DEF StartSearch, LoadHeads
<1>8. ASSUME NEW p \in Procs, NextHead(p)
      PROVE  Goal
  BY <1>8 DEF NextHead
<1>9. ASSUME NEW p \in Procs, SearchStep(p)
      PROVE  Goal
  BY <1>9 DEF SearchStep
<1>10. ASSUME NEW p \in Procs, AlreadyEnchained(p)
      PROVE  Goal
  BY <1>10 DEF AlreadyEnchained, Finalize, Local
<1>11. ASSUME NEW p \in Procs, FastForward(p)
      PROVE  Goal
  BY <1>11 DEF FastForward, SearchFailed, Finalize, Local
<1>12. ASSUME NEW p \in Procs, NewHead(p)
      PROVE  Goal
  BY <1>12 DEF NewHead, SearchFailed, Finalize, Local
<1>13. ASSUME NEW p \in Procs, StartClean(p)
      PROVE  Goal
  BY <1>13 DEF StartClean, LoadHeads
<1>14. ASSUME NEW p \in Procs, CleanStep(p)
      PROVE  Goal
  BY <1>14 DEF CleanStep
<1>15. ASSUME NEW p \in Procs, EndClean(p)
      PROVE  Goal
  BY <1>15 DEF EndClean, Leave
<1>16. ASSUME NEW p \in Procs, Crash(p)
      PROVE  Goal
  BY <1>16 DEF Crash
<1> QED
  BY <1>0, <1>1, <1>2, <1>3, <1>4, <1>5, <1>6, <1>7, <1>8, <1>9, <1>10, <1>11, <1>12, <1>13, <1>14, <1>15, <1>16 DEF Next, Step

\* As long as no process has died, every stored block that nobody is saving is
\* complete, and so is its transaction index.
THEOREM FilesComplete == Spec => []BlocksComplete
<1>1. Init => FilesInv
  BY DEF Init, FilesInv, Stored
<1>2. FilesInv => BlocksComplete
  BY DEF FilesInv, BlocksComplete, Opened, Indexing, Saving, Complete
<1> QED
  BY <1>1, <1>2, FilesStep, Invariance, PTL DEF Spec

-----------------------------------------------------------------------------
(* Dead heads.                                                              *)

\* Process p still has to load the heads for its chain_clean.
Ahead(p) == pc[p] \in {"opened", "written", "indexing", "enchain", "search", "finalize"}

\* The chain_clean of p has k in its copy of the heads and, unless a file is
\* being rewritten on the way, meets it on the walk it is on or on a later one.
Meets(p, k) ==
    /\ pc[p] = "clean" /\ k \in DOMAIN snap[p]
    /\ \/ \E h \in todo[p] : h # k /\ k \in Chain[h]
       \/ at[p] # NoHash /\ cur[p] # k /\ k \in Chain[at[p]]

\* While no process has died, somebody is going to delete every dead head.
DeadInv ==
    crashes = 0 => \A k \in DOMAIN heads : Dead(k) => \E p \in Procs : Ahead(p) \/ Meets(p, k)

\* A step of chain_clean that does not delete k still meets it, or the file it
\* stands on is being rewritten by a process that is going to clean up later.
LEMMA WalkMeets ==
  ASSUME Inv, FilesInv, crashes = 0, NEW p \in Procs, CleanStep(p),
         NEW k \in DOMAIN heads', Meets(p, k)
  PROVE  Meets(p, k)' \/ \E q \in Procs : pc[q] = "opened"
<1> DEFINE a == at[p]
<1>1. /\ pc[p] = "clean" /\ a # NoHash /\ pc' = pc /\ snap' = snap /\ todo' = todo /\ cur' = cur
      /\ at' = [at EXCEPT ![p] = StepBack(a)]
      /\ IF a \in DOMAIN snap[p] \ {cur[p]} THEN DeleteHead(a) ELSE heads' = heads
  BY DEF CleanStep
<1>2. at'[p] = StepBack(a)
  BY <1>1 DEF Inv, TypeOK
<1>3. CASE \E h \in todo[p] : h # k /\ k \in Chain[h]
  BY <1>1, <1>3 DEF Meets
<1>4. CASE cur[p] # k /\ k \in Chain[a] /\ k \in DOMAIN snap[p]
  <2>1. k # a
    BY <1>1, <1>4 DEF DeleteHead
  <2>2. cur[p] \in Enchained /\ cur[p] \in Blocks /\ a \in Chain[cur[p]]
    BY <1>1 DEF Inv, TypeOK, WalksOnChain, SnapsEnchained
  <2>3. a \in Blocks
    BY <2>2, ChainType
  <2>4. Linked(a) /\ k \in Chain[Prev[a]]
    BY <1>4, <2>1, <2>3, ChainUnfold
  <2>5. a \in Enchained
    <3>1. PICK h \in DOMAIN heads : cur[p] \in Chain[h]
      BY <2>2 DEF Enchained, Reached
    <3>2. h \in Blocks
      BY DEF Inv, TypeOK
    <3> QED
      BY <2>2, <3>1, <3>2, ChainTransitive DEF Enchained, Reached
  <2>6. a \in Stored /\ Prev[a] \in Stored
    BY <2>4, <2>5 DEF Inv, WalksComplete, Linked
  <2>7. CASE file[a] = "full"
    <3>1. StepBack(a) = Prev[a] /\ Prev[a] # NoHash
      BY <2>4, <2>6, <2>7, ConstantsAssumption DEF StepBack, Linked
    <3> QED
      BY <1>1, <1>2, <1>4, <2>4, <3>1 DEF Meets
  <2>8. CASE file[a] # "full"
    BY <2>6, <2>8 DEF FilesInv, Opened
  <2> QED
    BY <2>7, <2>8
<1> QED
  BY <1>3, <1>4 DEF Meets

\* Fewer heads, fewer dead ones.
LEMMA DeadBefore ==
  ASSUME NEW k, Dead(k)', DOMAIN heads' \subseteq DOMAIN heads
  PROVE  Dead(k)
  BY DEF Dead

LEMMA DeadStep == Inv /\ FilesInv /\ DeadInv /\ [Next]_vars => DeadInv'
<1> SUFFICES ASSUME Inv, FilesInv, DeadInv, [Next]_vars, crashes' = 0,
                    NEW k \in DOMAIN heads', Dead(k)'
             PROVE  \E p \in Procs : Ahead(p)' \/ Meets(p, k)'
  BY DEF DeadInv
<1> DEFINE Goal == \E p \in Procs : Ahead(p)' \/ Meets(p, k)'
<1>a. TypeOK
  BY DEF Inv
<1>b. ASSUME DOMAIN heads' \subseteq DOMAIN heads, crashes = 0
      PROVE  \E q \in Procs : Ahead(q) \/ Meets(q, k)
  BY <1>b, DeadBefore DEF DeadInv
<1> HIDE DEF Goal
<1>c. ASSUME NEW p \in Procs, Ahead(p)'
      PROVE  Goal
  BY <1>c DEF Goal
<1>d. ASSUME NEW p \in Procs, heads' = heads, crashes = 0, ~Ahead(p), \A h : ~Meets(p, h),
             \A q \in Procs \ {p} : /\ pc'[q] = pc[q] /\ snap'[q] = snap[q] /\ todo'[q] = todo[q]
                                    /\ cur'[q] = cur[q] /\ at'[q] = at[q]
      PROVE  Goal
  <2>1. PICK q \in Procs : Ahead(q) \/ Meets(q, k)
    BY <1>b, <1>d
  <2>2. q # p
    BY <1>d, <2>1
  <2> QED
    BY <1>d, <2>1, <2>2 DEF Goal, Ahead, Meets
<1>0. CASE UNCHANGED vars
  BY <1>0, <1>b DEF vars, Goal, Ahead, Meets
<1>1. ASSUME NEW p \in Procs, NEW b \in Blocks, OpenBlock(p, b)
      PROVE  Goal
  BY <1>1, <1>a, <1>c DEF OpenBlock, Ahead, TypeOK
<1>2. ASSUME NEW p \in Procs, WriteBlock(p)
      PROVE  Goal
  BY <1>2, <1>a, <1>c DEF WriteBlock, Ahead, TypeOK
<1>3. ASSUME NEW p \in Procs, OpenTxindex(p)
      PROVE  Goal
  BY <1>3, <1>a, <1>c DEF OpenTxindex, Ahead, TypeOK
<1>4. ASSUME NEW p \in Procs, WriteTxindex(p)
      PROVE  Goal
  BY <1>4, <1>a, <1>c DEF WriteTxindex, Ahead, TypeOK
<1>5. ASSUME NEW p \in Procs, ComputeHashFails(p)
      PROVE  Goal
  BY <1>5, <1>a DEF ComputeHashFails, TypeOK
<1>6. ASSUME NEW p \in Procs, NoHeads(p)
      PROVE  Goal
  BY <1>6 DEF NoHeads
<1>7. ASSUME NEW p \in Procs, StartSearch(p)
      PROVE  Goal
  BY <1>7, <1>a, <1>c DEF StartSearch, Ahead, TypeOK
<1>8. ASSUME NEW p \in Procs, NextHead(p)
      PROVE  Goal
  <2>1. PICK q \in Procs : Ahead(q) \/ Meets(q, k)
    BY <1>8, <1>b DEF NextHead
  <2>2. PICK h \in todo[p] : /\ todo' = [todo EXCEPT ![p] = @ \ {h}]
                             /\ cur' = [cur EXCEPT ![p] = h] /\ at' = [at EXCEPT ![p] = h]
    BY <1>8 DEF NextHead
  <2>3. pc' = pc /\ snap' = snap /\ at[p] = NoHash
    BY <1>8 DEF NextHead
  <2>4. CASE q # p
    BY <1>a, <2>1, <2>2, <2>3, <2>4 DEF Goal, Ahead, Meets, TypeOK
  <2>5. CASE q = p
    <3>1. todo'[p] = todo[p] \ {h} /\ cur'[p] = h /\ at'[p] = h /\ h # NoHash
      BY <1>a, <2>2, ConstantsAssumption DEF TypeOK
    <3> QED
      BY <2>1, <2>3, <2>5, <3>1 DEF Goal, Ahead, Meets
  <2> QED
    BY <2>4, <2>5
<1>9. ASSUME NEW p \in Procs, SearchStep(p)
      PROVE  Goal
  BY <1>9, <1>c DEF SearchStep, Ahead
<1>10. ASSUME NEW p \in Procs, AlreadyEnchained(p)
      PROVE  Goal
  BY <1>10, <1>a, <1>c DEF AlreadyEnchained, Finalize, Ahead, TypeOK
<1>11. ASSUME NEW p \in Procs, FastForward(p)
      PROVE  Goal
  BY <1>11, <1>a, <1>c DEF FastForward, Finalize, Ahead, TypeOK
<1>12. ASSUME NEW p \in Procs, NewHead(p)
      PROVE  Goal
  BY <1>12, <1>a, <1>c DEF NewHead, Finalize, Ahead, TypeOK
<1>13. ASSUME NEW p \in Procs, StartClean(p)
      PROVE  Goal
  <2>1. /\ pc'[p] = "clean" /\ snap'[p] = heads /\ todo'[p] = DOMAIN heads /\ heads' = heads
    BY <1>13, <1>a DEF StartClean, LoadHeads, TypeOK
  <2>2. PICK h \in DOMAIN heads \ {k} : k \in Chain[h]
    BY <2>1 DEF Dead
  <2> QED
    BY <2>1, <2>2 DEF Goal, Meets
<1>14. ASSUME NEW p \in Procs, CleanStep(p)
      PROVE  Goal
  <2>1. DOMAIN heads' \subseteq DOMAIN heads /\ crashes = 0
    BY <1>14 DEF CleanStep, DeleteHead
  <2>2. PICK q \in Procs : Ahead(q) \/ Meets(q, k)
    BY <1>b, <2>1
  <2>3. CASE q # p \/ Ahead(q)
    BY <1>14, <1>a, <2>2, <2>3 DEF CleanStep, Goal, Ahead, Meets, TypeOK
  <2>4. CASE q = p /\ Meets(q, k)
    <3>1. Meets(p, k)' \/ \E r \in Procs : pc[r] = "opened"
      BY <1>14, <2>1, <2>4, WalkMeets
    <3> QED
      BY <1>14, <3>1 DEF CleanStep, Goal, Ahead
  <2> QED
    BY <2>2, <2>3, <2>4
<1>15. ASSUME NEW p \in Procs, EndClean(p)
      PROVE  Goal
  <2>1. ~Ahead(p) /\ \A h : ~Meets(p, h)
    BY <1>15 DEF EndClean, Ahead, Meets
  <2> QED
    BY <1>15, <1>a, <1>d, <2>1 DEF EndClean, Leave, TypeOK
<1>16. ASSUME NEW p \in Procs, Crash(p)
      PROVE  Goal
  BY <1>16, <1>a DEF Crash, TypeOK
<1> QED
  BY <1>0, <1>1, <1>2, <1>3, <1>4, <1>5, <1>6, <1>7, <1>8, <1>9, <1>10, <1>11, <1>12, <1>13, <1>14, <1>15, <1>16
  DEF Next, Step, Goal

\* Whenever nobody saves a block and no process has died there is no dead head,
\* although chain_clean works on copies of the heads that other processes may
\* have changed, and its walks are cut short where a file is being rewritten.
THEOREM DeadHeadsRemoved == Spec => []NoDeadHeads
<1>1. Init => FilesInv /\ DeadInv
  <2>1. Init => FilesInv
    BY DEF Init, FilesInv, Stored
  <2>2. Init => DeadInv
    BY TipsAssumption DEF Init, DeadInv, Dead
  <2> QED
    BY <2>1, <2>2
<1>2. DeadInv => NoDeadHeads
  BY DEF DeadInv, NoDeadHeads, Quiet, Ahead, Meets
<1> QED
  BY <1>1, <1>2, FilesStep, DeadStep, Invariance, PTL DEF Spec
=============================================================================
