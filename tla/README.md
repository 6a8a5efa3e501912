# freecoin in TLA+

A verification development for freecoin: the C library `lib/`, the daemons `freecoind-old/`
(C) and `freecoind/` (Python), `miner/`, `testing/`, `client/` and `admin/`. The modules
model the code at one commit. Every definition that stands for code names its lines in
`PROJECT.json` ("map"); definitions marked "(mutation)" are wrong variants of the definition
below them, used to show that a property would notice the mistake.

## 1. Inventory

| Part | Where | State | Operations | Hard about it |
|---|---|---|---|---|
| Block store and chain heads | `lib/src/io.c`, `chain.c` | `~/.freecoin/{blocks,heads,txindex}` | `io_save_block_raw`, `enchain_block`, `chain_clean`, `io_load_block_*` | several processes, no lock, deaths between file operations, blocks out of order, nothing validated |
| Transaction loading, hash lists | `io.c` | reads `txindex` | `io_block_of_tx`, `io_load_tx_raw`, `intern_hashlist_*` | loops over files others write |
| Message queues | `freecoind-old/src/msgqueue.c` | list, length, mutex | `msgqueue_init/enqueue/dequeue/peek_size` | the waiting and the peeking read without the mutex |
| Daemon in C | `freecoind-old/src/{main,handlers,builders}.c`, `threads/server.c` | one receive buffer, queues, peers | dispatch loop, a handler per message, accept loop | stale bytes in the shared buffer, threads given a shared pointer |
| Daemon in Python | `freecoind/` | server thread | accept, read until closed, shut down | the order of events at exit |
| Hashing | `lib/src/sha256.c` | stream context | `sha256_init/update/final` | boundaries of the padding, stale buffer, carry of the length |
| Big numbers, targets | `lib/src/bignum.c`, `chain_compute_next_target` | byte arrays | add, multiply, divide, compare, convert, retarget | carries, lengths 0 and 1, fixed widths, reused buffers |
| Serialisation, Merkle root | `lib/src/blocks.c`, `transactions.c`, `util.c` | - | (de)serialise, sizes, hashes, hex, base64 | cursors, reuse of the tree's buffers |
| Validation | `lib/src/validation.c` | reads the store | `validate_block_*`, `validate_tx_*` | the walk for double spends, widths |
| Keys and signatures | `lib/src/secrets.c`, `ecdsa.c`, `io_store_key` | `~/.freecoin/keys` | make, store, sign, verify | field arithmetic, half-written keys |
| Miner | `miner/src/main.c` | a work block | `new_workblock` loop | its functions are not written |
| Client, admin, tests, prototypes | `client/`, `admin/`, `testing/`, `docs/old` | - | - | - |

How they interact. Daemon, miner and client are separate programs that link the library and
share one data directory; they meet only in its files. Inside the C daemon a socket thread per
peer puts messages into one receive queue; the logic thread takes them out, handles them and
puts answers into the peers' send queues (`docs/info/processes.md`). A block that arrives is
written with `io_save_block_raw`, which calls `enchain_block`, which ends with `chain_clean`.
The miner asks for the highest head, computes the next target with
`chain_compute_next_target` (big numbers), and starts again when the highest height changes.

What makes each part correct:

* *Block store*: what a head reaches stays reached; no dead heads when nobody is saving, and no
  more of them than processes have died; files complete; saves end; what a death leaves behind is
  repaired by saving again.
* *Queues*: a FIFO that loses, duplicates and leaks nothing although it is read unlocked.
* *Hashing*: the digest is that of the padded message, whatever the context held.
* *Big numbers and targets*: agreement with integer arithmetic, and where it ends; a next
  target that depends on the two blocks and on nothing else.
* *Records*: what is written can be read again; the Merkle root is that of the tree; a
  transaction is found where it was stored.
* *Validation*: what is accepted spends nothing twice and creates no money; nothing right is
  refused.
* *Keys and signatures*: agreement with the group law; a key on the disk is whole; signatures
  verify; every call returns whatever the random number generator does.
* *Daemons*: an answer is made of the message it answers; every message is handled; every
  connection has a thread; the process ends when it should and not before.

Not all of this holds. Where the repository's documents, comments or tests promise something
that the code does not do, the promise is part of a property of its own, checked by a run that
finds it violated (section 5); what the passing runs state about the same code is what is left of
it and contradicts no document. `PROJECT.json` lists the hazards at their lines, with the properties that
cover them.

## 2. Modules

| Module | Models | Built on |
|---|---|---|
| `GrowingChain` | abstract specification: a growing set of enchained blocks | - |
| `ChainStore` | the block store, file operation by file operation | refines `GrowingChain` |
| `MCChainStore` | its instances for TLC | `ChainStore` |
| `ChainStoreProofs` | its theorems | `ChainStore`, TLAPS |
| `Fifo` | abstract specification: a queue | - |
| `MsgQueue` | the queue's links, length, mutex and threads | refines `Fifo` |
| `MsgQueueProofs` | its theorems | `MsgQueue`, TLAPS |
| `Sha256`, `Sha256Proofs` | the SHA-256 stream, its theorems | - |
| `Sums`, `SumProofs` | sums, powers and rounds as loops compute them; induction, division and their laws | - |
| `BigNum` | the functions of `bignum.c` as operators | `Sums` |
| `BigNumCalls` | calls of them, against integer arithmetic | `BigNum` |
| `Retarget` | `chain_compute_next_target` | `BigNum` |
| `MCNumbers` | one instance for both | `BigNumCalls`, `Retarget` |
| `NumberProofs` | their theorems | both, `SumProofs` |
| `Vli` | the multi-word integers of `ecdsa.c` as operators | `Sums` |
| `VliCalls` | calls of them, against integer arithmetic | `Vli` |
| `Curve` | points, ladder, compression, verification | - |
| `Ecdsa` | making, storing and using keys, random number by random number | `Curve` |
| `EcdsaProofs` | theorems on the word arithmetic, keys, signatures and key files | `Ecdsa`, `VliCalls`, `SumProofs` |
| `MCArithmetic` | one instance for all that computes | `MCNumbers`, `Sha256`, `Ecdsa`, `VliCalls` |
| `Records` | `util.c`, `transactions.c`, `blocks.c` as operators on bytes | `Sums` |
| `Loading` | hash lists and the look-up of transactions | `Records` |
| `Validation` | `validation.c` | `Records`, `Sums` |
| `RecordCalls`, `MCRecords` | calls of these three, and their instance | `Loading`, `Validation` |
| `RecordProofs` | theorems on records, look-up and validation | `RecordCalls`, `SumProofs` |
| `Daemon` | the C daemon's accept loop, main loop and handlers | - |
| `PyDaemon` | the Python daemon's threads and its exit | - |
| `MCDaemon` | one instance for both | `Daemon`, `PyDaemon` |
| `DaemonProofs` | their theorems | both, TLAPS |

### ChainStore

State: `file[b]` and `txidx[b]` are the files `blocks/<b>` and `txindex/<b>` (absent, empty,
full); `heads` is the directory `heads/`; `pc`, `blk`, `snap`, `todo`, `cur`, `at` are a
process's place in `io_save_block_raw` and its locals (`snap` is the array `heads[]`, `at` the
`hash_buffer` of the walk).

A step is one file operation: `OpenBlock` (`fopen "wb"`, which empties a file that is there),
`WriteBlock`, `OpenTxindex`, `WriteTxindex`, then `enchain_block`: `ComputeHashFails`,
`NoHeads`, `StartSearch` (load the heads), `NextHead` and `SearchStep` (the walk back),
`AlreadyEnchained`, `FastForward`, `NewHead`, and `chain_clean`: `StartClean`, `NextHead`,
`CleanStep` (with the deletion), `EndClean`. `Crash` ends a process anywhere and keeps what it
has written.

Choices:

* A block is its hash, and what the code reads of its header are the constants `Prev` and
  `Height`. `Height` is arbitrary, because nothing validates a block before it is enchained.
* The functions on head files are not written: `io_head_load`, `_create`, `_delete` and
  `_update` are only declared, the body of `io_head_load_all` is empty, and `io_head_count` counts
  in a variable that does not exist and returns 0 (`io.c:39-58`). They are modelled from their
  declarations and callers, and marked external. They take a hash, so a head file is named by the
  hash it holds; a fast forward writes the file of the new hash and leaves the old one to
  `chain_clean`.
* `block_compute_hash` is a stub that calls `fatal`. `Builds` holds `TRUE` for a build in which
  the stubs do what their declarations say and `FALSE` for the library as it stands, where a
  process ends there; with both, processes of either kind share the directory.
* A directory starts provisioned with heads or as `io_init` makes it, without any.
* An emptied block file reads as a header of zeros, hence of height 0, and ends a walk: nothing
  is read into the buffer of `MAX_BLOCK_SIZE` bytes (1 GiB), which at that size `malloc` takes
  from the system as fresh pages of zeros.
* `io_head_count` and `io_head_load_all` are one step (`LoadHeads`). Whether the second, which
  has no body, would write past an array sized by the first when a head file appears in between is
  not decided by the repository.
* The check that the block's own file exists (`chain.c:22`) cannot fail: the process wrote it
  and nothing removes files.

### MsgQueue

State: `next` and `prev` of the nodes and of the two sentinels, `data`, the allocated nodes
`live`, `length`, `mutex`, and for each thread its place and locals; `log`, `cell` and
`delivered` are histories. There is one consumer per queue, as in `main.c` and
`docs/info/processes.md`. A step is a piece of code that an unlocked reader cannot split: lock,
allocate, link, count, unlock; read the length, lock, take, unlink, free and count down, unlock;
the two reads of `msgqueue_peek_size`. `malloc` does not fail.

### Sha256

State: the context's `data`, `datalen`, `bitlen`, and `fed`, the bytes the compression function
has read since `sha256_init`; two contexts with the same `fed` have the same digest. One step of
`sha256_update` is one byte. Block and word sizes are constants (64 and 4 in the code). The
rounds of the compression function are abstracted; `sha256_state` is an empty stub.

### BigNum, BigNumCalls, Retarget

Arrays are functions from indices to digits of `Base` values (256 in the code), `Word` is the
number of digits of a `uint32_t`. A loop with a carry or a remainder is a recursive function over
its index (`Carried`, `Temps`), the value of an array a sum (`SumBelow`). The operators keep the
code's edges: `big_length` of a one-byte number is 0, `big_comp` leaves out byte 0, `big_add`
drops the last carry, `blen - 1` is unsigned, `big_div` keeps a two-byte remainder,
`btarget_to_target` stops at the highest byte that *is* 0. `Retarget` has one action per branch.
The computation is followed (`Recompute`) when it stays within its arrays (`WithinArrays`): the
place of the target is 1 or more and at most 32, and the product has room. Otherwise the code
writes in front of or behind an array (`bignum.c:134`, for `CHAIN_INITIAL_TARGET` too, and
`bignum.c:94`), and the behaviour ends there (`Overrun`). The next target is a function of what
the caller's two bytes held before, so that a branch that writes nothing can be seen.
`io_block_at_height` does not exist and supplies any hash and time.

### Vli, VliCalls, Curve, Ecdsa

A number is a sequence of words of `WordBits` bits. The operators keep what the code computes
with wrapped words and with carries found by comparison, and both builds of the multiply-and-add.
Loops are recursive functions, or `After`, which goes round a given number of times: the inversion
two rounds per bit at most, the closing loop of the reduction eight, and that no loop of the code
needs more is part of `WordArithmeticExact`. The reduction modulo the prime of secp256r1 is the
code's sequence of rows in both word sizes (`Reduce32` and `Reduce64` call them); it is modulo
`PrimeOf(b)`, the prime's formula with b in the place of 2^32, b being a word or half a word. With
2 for b the formula gives 199, again a prime. `Curve` takes
coordinates as integers modulo that prime and follows the co-Z formulas, the regularised scalar
and the ladder with its exceptions (scalars for which it divides by zero give the point zero).
In `Ecdsa` a step is one answer of the random number generator together with the computation up
to the next one, so that every sequence of unfit answers and failures is a behaviour; storing a
key is one step per file, and the process may die in between.

### Records, Loading, Validation

Bytes and integers have their real widths (an `out_index` 16 bits, `Ints`; an amount 32,
`Values`), hashes, keys and signatures are shorter. Memory that
was not written is a parameter `g`, and properties range over its values. `tx_serialize` writes
with the positions the code computes, so that its writes outside a transaction and into the next
one are there. The position is a `uint32_t` and is taken modulo `Wrap`, 2^32: with the sizes of the
code it wraps around from the fifth input on, and since the sizes are even it is 0 from the 32nd on,
where the inputs land on the header. The sizes themselves cannot overflow below `MAX_TX_SIZE` and
`MAX_BLOCK_SIZE`. Joined bytes, positions, the buffer after each item or transaction and the levels
of the tree are recursive functions over the loops' indices (`Joined`, `Written`, `Filled`,
`Levels`). In the Merkle tree a hash is the pair it was computed from and the exchanged buffers are
real. `Loading` works on the bytes of list files and on raw blocks; the index entry
`.`, which is no file, is left out. `io_load_nth_tx_raw` reads a block into an array of 1 GiB on
its stack (`io.c:159`): `room` says whether the stack has been made large enough, and without it
the process is killed. In `Validation` a verdict is the error, "fatal" where
`fatal()` is called, or "undefined" where the code reads beyond its arrays or through a NULL
pointer. `tx_compute_surplus`, `tx_compute_required_surplus` and `io_load_nth_tx_output` are
declared only; their results are fields of the records. A signature is the bytes it was made for.
`RecordCalls` makes one call per behaviour, with arguments from small sets. The loops of
`validate_tx_input_chain` are described by what they have counted when they return: `Visits` are
the inputs they look at in their order (`NotAfter`), and `CountSpends` says whether more than the
limit come before the first one outside of the arrays. The walk over the ancestors goes by the
heights their headers claim, which nobody has checked: `Walked` is how many it looks at, it ends
above the height 0, goes on below one, and where the next block is not stored the code dereferences
NULL ("undefined"). A function that stops at the first failing
check returns the verdict of the least index that is not "ok" (`FirstError`).

### Daemon, PyDaemon

`Daemon` has two threads of control. The server thread replaces its variable `conn` with every
connection and gives each new thread its address: `Accept`, `CreateThread`, and `Look`, the moment
the thread follows the address. The result of `pthread_create` is not looked at, so the thread may
also be missing (`CreateThreadFails`); a failing `accept` ends the process (`AcceptFails`). The main
loop copies a message over the front of its one buffer and runs the handler in one step
(`Dispatch`); the rest of the buffer, of `MAX_MSG_SIZE` bytes, keeps its bytes. What a `getdata` is
answered with is one entry of the send queue; for a data type that is neither block nor
transaction `raw` was never set, and what is sent, freed or not is open (`Unset`). The queues are
sequences, which is what `MsgQueue` is proved to implement. The handlers do not compile in places;
the model takes what is plainly meant (an address of an array element for the element, a peer for
its address) and keeps what is wrong but compiles: the builder that is freed in the place of its
message ends the process.

`PyDaemon` has the steps of the main thread, the server's thread, the connections' threads and the
clients; what the interpreter does at exit is external. The constructor raises when the address is
in use, and starting the thread can raise too (`Raises`). Interrupts come at any time and as often
as they like: one while the registered shut-down runs ends the process at once.

## 3. Runs

| Run | Instance | Shows |
|---|---|---|
| `chain_shared` | fork of 4 blocks, provisioned or fresh directory, 2 processes | `TypeOK`, `NoDeadHeads`, `HeadHeights`, `BlocksComplete`, and that the files implement `GrowingChain` |
| `chain_crash` | 2 provisioned chains, wrong heights, builds with and without the stubs, 2 processes, 1 death | `NothingUnchained`, where heights are wrong and files stay empty |
| `chain_live` | line of 3 blocks, 2 processes, 1 death | `DeadHeadsPerDeath`: a death leaves one dead head at most; `SaveEnds`; `LinearChainEnchained`; `Heals` |
| `queue` | 2 producers, 3 messages | list intact, length exact, sentinel never taken, no leak, `Fifo`, all delivered |
| `arithmetic` | digits of 4 values, all pairs of 3 digits; all 4-bit times; SHA-256 blocks of 8 bytes, lengths 0 to 40, stale contexts; all operands of 3 words of 2 bits; curve of order 193, 2 tries, 8 random numbers, 3 hashes | `ArithmeticExact`: where each function of `bignum.c` agrees with the integers; `SecondsBounded`; `DigestOfPaddedMessage`, `NothingLost`; `WordArithmeticExact`; `CurveRight` (ladder, compression), `VerifyExact` and `MadeRight` (keys, signatures, shared secrets) agree with the group law but for the named exceptions; `PublicHasPrivate`: half a key is never the public half; `CallsReturn` |
| `records` | hashes of 3 bytes; 2 inputs, outputs, transactions; 9 leaves; heights to 3 | `ReadBack`: what is read of well-formed bytes, and the size of raw blocks; `MerkleRight`; `LookupsRight`: hash lists, and NULL exactly for the unknown; `DoubleSpends`: nothing else is refused as such, and which are found; `SpendCovered`, `AcceptedBlock`: what validation guarantees of what it accepts |
| `daemon` | 2 connections, 2 of 17 messages; 2 clients | `AnswersFromMessage`; `MessagesHandled`; the Python daemon's life (`ServesUntilInterrupt`) and end (`ThreadsEnd`) |

Five more runs are expected to find a violation: `chain_heads` (one process), `retarget_defined`,
`block_rules` and `format_rules` on the instance of `records`, and `daemon_rules` on that of
`daemon`. Except for `retarget_defined`, their properties (`OneHeadRuleKept`, `OneBlockRuleKept`,
`OneFormatRuleKept`, `OneDaemonRuleKept`) are disjunctions of what the repository's documents say:
they ask of the code that it keep at least *one* of the documented rules, the weakest claim that
can be made of them together, and the one behaviour TLC finds breaks every one of them at once.
Section 5 lists the rules.

Several of these are conjunctions of smaller statements, each defined with its comment next to the
conjunction (`MadeRight` of `MadeKeysRight`, `SignatureOfLastK`, `OwnSignatureVerifies` and
`SecretsAgree`, for example).

Bounds and why they are enough:

* A fork needs four blocks (two branches, one of them longer than one); two processes are
  enough for every race on one head file, and the theorems hold for any number. One death per
  run leaves every kind of half-finished save; the theorems allow any number.
* Three messages make the list empty, one and several elements long, and let a freed node be
  used again. `queue` has as many nodes as messages, so `malloc` never runs out.
* 40 bytes in blocks of 8 with length words of one byte reach both kinds of padding five
  times and the carry from the low to the high length word, which takes 512 MiB in the code.
* Three digits have every combination of lengths 0, 2 and 3 and carries across each of them;
  times of two digits wrap, and the two bounds lie well inside.
* Words of two bits make every carry and borrow pattern of three words finite. The reduction is
  called with products below 2^31, the integers of TLC, of numbers around 199 and 53311, the values
  of the formula for 2 and 4, and of words of ones; the theorem covers all. The random numbers
  contain those that are unfit for each use (0, n, above n), a point with x = 0 and one
  with x >= n; two tries let one fail and the next succeed, and both fail.
* In `records` two items and two transactions are the least for which a wrong position, a cursor
  that stands still or a loop bounded by the wrong transaction differs from the right one; nine
  leaves have an odd level at the bottom, in the middle and twice in a row; the three block
  hashes are one that is the beginning of its own name, one that leads to another block and one
  that leads nowhere; blocks that are judged have up to two transactions, heights on both sides of
  the retargeting and any predecessor's height; `Wrap` is 2048, so that the position of a fourth item wraps around;
  retargeting starts at height 2, and a chain of three blocks lies on both
  sides of it. The amounts are 7 and 16909060, whose four bytes are all different, so that a byte
  order is seen; ancestors claim any height below 3 and may be missing from some point on.
* In `daemon` a short message can follow a longer one, and a thread can look before or after the
  next connection is accepted. Two interrupts and more are one case.

Processes and threads stop only where the program may: `CHECK_DEADLOCK FALSE` is set for
`arithmetic`, `retarget_defined`, `records`, `block_rules` and `format_rules`, whose behaviours are
single calls or programs that end, and for `daemon` and `daemon_rules`, whose processes may end or
wait for clients.

Fairness. `ChainStore!FairSpec`: a process inside a save keeps running (weak fairness of its
next step); whether anybody starts a save is never assumed. `Heals` and `LinearChainEnchained`
have the premise `Reoffered`, that peers offer each block again and again; it is a part of the
property and not of the specification. `MsgQueue!FairSpec`: threads inside a call keep running,
a producer with something to send gets a free mutex, and the consumer, whose loop in `main.c`
does nothing but dequeue, calls `msgqueue_dequeue` again and again; because it may peek in
between, this last is strong fairness of leaving the wait. `MCArithmetic`: the random number generator
answers or fails (weak fairness of `Drawn`); nobody has to call anything. `MCDaemon`: the main
loop does nothing but dequeue and handle (weak fairness of `Dispatch`), and the Python threads
run; clients need not connect or close and nobody has to interrupt.

## 4. Proofs

TLAPS checks the following for every value of the constants that satisfies the assumptions, which
TLC evaluates in the runs. The theorems that state a property of a run are listed with it in
`PROJECT.json`.

**ChainStore.** Assumptions: the constants have their types (`ConstantsAssumption`); there is no
cycle of hashes along `prev_hash` (`AcyclicAssumption`); the provisioned chains reach a block of
height 0 (`BaseAssumption`). Nothing is assumed of heights, of the number of blocks, processes and
deaths. The core is `Inv`: what a process has loaded as heads is enchained (`SnapsEnchained`); a
walk is on the chain of the entry it started from (`WalksOnChain`); a block being saved has a file
(`SavingStored`); every enchained block has a file and, unless its height field says 0, an
enchained predecessor (`WalksComplete`). It is needed because a deletion is decided on a copy of
the heads that other processes have overtaken. The argument: the head that is deleted lies on the
chain of `cur`, which is still enchained though possibly no longer a head; some head reaches
`cur`, and by acyclicity that head is not the deleted one (`DeleteKeeps`). Theorems:
`TypeCorrect`, `NothingIsUnchained`, `Refinement` (the files implement `GrowingChain`), and with a
second layer of invariants `HeadHeightsCorrect` and `FilesComplete`. `DeadHeadsRemoved`
(`NoDeadHeads`) also needs `TipsAssumption`: of the provisioned heads none lies below another. Its
invariant says that every dead head is still awaited: some process that will load the heads again,
or that has loaded them and has yet to walk over it, is going to delete it.

**MsgQueue.** Assumption `QueueAssumption` (names are distinct). `Inv` adds to the list's shape
that exactly the holder of the mutex is between lock and unlock, that a node out of the list
belongs to the thread that allocated or unlinked it, that the length is off by one only in the
two windows between linking and counting, and that a message the consumer has seen in the length
is still there (`SeenInv`: nobody else takes one). Theorems: `TypeCorrect`, `ListAlwaysIntact`,
`LengthAlwaysExact`, `SentinelNeverTaken`, `NothingLeaks`, `Refinement` (implements `Fifo`).

**Sha256.** Assumptions `StreamAssumption` (a block has room for the length and one byte) and
`PowersAssumption` (powers of 256 are positive; the provers do not reason about
exponentiation). The invariant adds to `NothingLost` that `fed` is a whole number of blocks.
Theorems: `DigestCorrect`, `NothingIsLost`, `TypeCorrect`, for any block size, word size and
message.

**BigNum, Retarget.** Assumptions: a base above 2 and at least one digit per word
(`BigNumAssumption`), arrays of at least one digit that hold a word's digits, divisors above 0
(`CallsAssumption`), bounds that are ordered and fit into a word (`RetargetAssumption`). There is
no invariant to find, as a behaviour is one call; the work is induction over digits. The library's
induction theorems take a predicate, which these provers cannot instantiate; `SumProofs` derives
from well-foundedness of `<` an induction over *sets* (`SetInduction`, `UpToInduction`) and the
existence of recursive functions (`Recursion`), and from them the laws of sums and powers.
`NumberProofs` then shows that the low part of a number is below the next place
(`LowBelowPlace`), that the highest different digit decides a comparison (`HighestDecides`), that
digits with carries have the value of their columns (`CarriedExact`), that the quotient's digits
times the divisor and the remainder make the number again at every index (`DivDown`), and that
the columns of a product add up to the product of the values (`ColumnsSum`, by summing the same
terms along rows). Theorems: `BigNumExact` (`ArithmeticExact`), `SecondsAlwaysBounded`.

**Records, Loading.** Assumption `RecordsAssumption`: hashes, keys and signatures have some size,
there are fewer than 65536 inputs and outputs, an `out_index` has 16 bits, amounts and the number of
transactions have 32, hashes are bytes, and data to convert has two bytes or more. A behaviour is
one call, and the work is about bytes. A part of joined bytes lies at its offset (`At`, `Appended`,
`ConcatFixed`), bytes put into a buffer lie there (`Lies`) and what is below the place they are put
is kept (`Kept`); from these follows what a reader finds of well-formed bytes (`TxRead`, `HeadRead`,
`WireIs`). `RecordsReadBack` adds that headers survive the items written outside, because an item
is never written in front of the end of its own transaction's header (`HeadersStay`), so the raw
size is walked to its end (`RawSizeIs`); its premise is that no position wraps around onto a header
(`HeaderSpared`), beyond which the results depend on the sizes modulo 2^32. `RootsRight`: the
pointers of a level stay distinct and hold exactly the nodes of the level above up to the pair
reached, the ones below beyond it (`PairedIs`, `HoldsStep`). `LookupsFind`: a list file is its
hashes one behind the other (`FileIs`), the first equal one is found (`IndexIs`), and a look-up
gives NULL exactly for a transaction that no stored block has (`LoadIs`).

**Validation.** Assumptions `ValidationAssumption` and `RecordsAssumption`. Again a behaviour is
one call. `SpendsCovered`: the sum of the amounts is at most that of the largest one taken as
often (`SumAtMost`). `BlocksAccepted`: a first error that is "ok" means that all checks are
(`FirstErrorIs`). `DoubleSpendsJudged`: whatever the wrong loop bound makes the loops visit, what
they count inside the arrays are spends of the block (`HitsSpend`), so that a count above the
limit shows as many spends (`ExcessCounted`); a block that is loaded again has only spends that
its first transaction has (`LoadedSpends`). That holds for whatever heights the headers claim and
wherever the chain breaks off (`WalkedIs`, `InputChainIs`, `RefusedIsDouble`). With two
transactions of one input the loops visit both inputs and nothing else (`PairVisits`) and the
count is exact (`PairCounts`), so that on heights that count up the double spends above the first
block are refused (`PairsRefused`). The theorems are about the calls `RecordCalls` makes, with any
bounds; the lemmas `PseudoOk`, `ChainOk`, `FirstOutputCovers`, `ExcessCounted` and `LoadedSpends`
are about the functions of `validation.c` with any arguments of the right shape.

**Daemon, PyDaemon.** Assumptions `DaemonAssumption` (types) and `InboxAssumption` (messages are
bytes and fit the buffer). The invariant of `AnswersAlwaysFromMessage` (`LoopInv`) relates every
queued answer to a message that was handled; that the handler reads the message and not what an
older one left behind follows from the size it has compared (`CountExact`, `ReadFromMessage`). That
answers go to connections needs that a thread only looks once one is accepted (`ThreadInv`).
`PyServesUntilInterrupt` needs that the main thread leaves its wait only by an interrupt while the
server runs, that the request to stop comes from the registered shut-down alone, and that leaving
the shut-down early takes a second interrupt; a start that raises leaves a server that never ran.

**Vli.** Assumption `VliCallsAssumption`: the bits of a word are even (8, 32 or 64 in the code);
there are fewer words than a word has values (the code has at most 32 words of 8 bits, 8 of 32 or 4
of 64), without which the third word of the accumulator could overflow; the moduli are odd primes
that fill their words, as `curve_p` and `curve_n` do; the products to reduce fit twice the words of
the prime. A behaviour is one call. `WordArithmeticHolds` (`WordArithmeticExact`) rests on these
steps:

* a carry found by comparing a wrapped sum with an operand is the carry of the sum (`WordSum`,
  `WordDifference`), so that words and last carry make the number (`AddIs`, `SubIs`); the highest
  different word decides a comparison (`UnsafeIs`, `CmpIs`);
* the three words of the accumulator hold all that is added in a column (`MultColumnIs`,
  `SquareColumnIs`, where each mixed product is added twice), the words left behind make the sum of
  the columns (`TriplesMake`), and that is the product (`ColumnsMakeProduct`); four products of
  half words make the same (`HalfProducts`);
* in `ecdsa_vli_mmod` what is left is below twice the shifted modulus, which is halved in every
  round, and changes by multiples of the modulus (`MmodIs`);
* the inversion keeps `Kept`: x u = a and x v = b modulo m, and a and b have no factor in common;
  a round halves the product of a and b (`InvRoundIs`), so that the loop ends with a = b = 1
  (`InvEnds`, `KeptEnds`);
* the rows of `vli_mmod_fast_secp256r1` are the powers from the eighth on modulo the prime
  (`PowersModulo`, `RowsModulo`), masks and shifts of half words give the same rows (`PairsAre`),
  and the sum lies within eight times the prime below 0 and nine above (`PrimeBounds`), which the
  closing loop corrects (`CorrectedIs`). Nothing is used of b but that it is above 1, so the result
  covers the prime itself, which is too large for TLC.

**Ecdsa.** Assumptions `GroupAssumption` (`curve_n` is a prime, every number below it having an
inverse, and the order of `curve_G`, whose multiples are valid points) and `DrawsAssumption`
(types). The theorems have the premise `LadderRight`: on the base point the ladder gives the
multiple, or zero for 1, n - 2 and n - 1. It is what `CurveRight` checks for this and every other
point. `EcdsaInv` orders the calls (`CallsInOrder`: who waits for a private key or a k has signed
nothing; who stores a key has signed nothing) and says what is known of the k that waits for its
blinding number. Theorems: `KeysAlwaysRight` and `SignaturesAlwaysRight`, the parts `MadeKeysRight`
and `SignatureOfLastK` of `MadeRight` (the blinding number cancels, `SignedIs`, because numbers
below a prime have no zero divisors), and `PublicAlwaysHasPrivate`.

Only model-checked:

* liveness (`SaveEnds`, `LinearChainEnchained`, `Heals`, `AllDelivered`, `CallsReturn`,
  `MessagesHandled`, `ThreadsEnd`), which the prover does not support;
* `DeadHeadsPerDeath`: it counts, and which death a dead head is due to is not in the state;
* `CurveRight`, `VerifyExact`, and of `MadeRight` the parts `OwnSignatureVerifies` and
  `SecretsAgree`: that the ladder and Shamir's trick compute the group law needs the theory of
  elliptic curves.

## 5. Where the code and its documents disagree

Each line is something promised that the run's counterexample breaks; lines of one run are broken by
one counterexample. `PROJECT.json` ("findings") quotes the promises and says where the trace shows
them broken.

| Run | Promised | The code |
|---|---|---|
| `chain_heads` | `docs/info/storage.md:24`, `chain.c:52`: a new head for a block that extends none | `chain.c:53` fills in a local variable and drops it: the second branch of a fork, or a block before its parent, is stored and never enchained |
| | `docs/info/storage.md:19,26`: no head stays below another | `chain.c:83` ends the walk at the first header that says height 0, which nothing has checked |
| `retarget_defined` | `README.md:144`: the target depends on two blocks | `chain.c:127`: for heights that are no multiple of the interval nothing is written |
| `block_rules` | `README.md:130`: the hash is at most the target | `validation.c:30` refuses it below |
| | `README.md:140`: one more than the predecessor's height | `validation.c:66`: not compared |
| | `README.md:154`: the reward and the surplus of the other transactions | `validation.c:134` adds the coinbase's own |
| | `README.md:157`: inputs cover outputs | `validation.c:154` adds the first output's amount once for every output |
| | `README.md:164`: spent nowhere else in the block | `validation.c:183` is bounded by the inputs of another transaction: behind a coinbase nothing is looked at |
| `format_rules` | `docs/info/storage.md:7`: the index leads to the block of a transaction | `io.c:193` takes the characters of the file's name for the hash |
| | `testing/src/main.c:91-99` decodes what it encoded | `util.c:145` subtracts the padding from a length without it |
| | `transactions.h:14`: one item behind the other | `transactions.c:74,76` multiply the position |
| | `testing/src/main.c:69-71` loads what it serialised | `transactions.c:75,77` write integers in the host's order, the readers take the other |
| | `transactions.h:16`: a block has several transactions | `blocks.c:58` never moves the cursor: each is the first |
| | `README.md:161`: the whole transaction is signed but for the signatures | `transactions.c:151` writes over the header and hashes nothing, `validation.c:172` verifies the first bytes |
| `daemon_rules` | `handlers.c:66-70`, `README.md:51`: the second byte is the count | `handlers.c:73` keeps the third |
| | `docs/info/processes.md:20`: each peer has a thread | `server.c:66` passes the address of a variable that the next connection overwrites |
| | `docs/info/processes.md:11-12`: the main thread is a cycle | `handlers.c:97` frees a function |

In the model as in the code, but without a run that states the promise:

* `README.md:142`: below the first retargeting a block has its predecessor's target. `validation.c:77`
  compares the addresses of the two arrays (`TargetKept`), so every such block is refused.
* `README.md:145`: the transactions of a block are chain valid. `validation.c:103` returns without
  looking at them; `block_rules` supposes that the caller validates them itself.
* `README.md:164` again: of an ancestor only the first transaction is seen (`Loaded`), and the walk
  of `validation.c:197` ends before the first block (`Walked`). `DoubleSpends` says which double
  spends are found and asks nothing of the rest.
* `README.md:148`: a transaction's version is not checked.
* `bignum.c:140` calls a loop identical to `big_length`'s, and its comparison is inverted.

## 6. Not modelled, and the plan

Not modelled: of `ecdsa.c` the other four curves, which nothing selects, the assembler variants
and deterministic signing, which nothing calls; the compression function of SHA-256; the miner,
whose functions are not written; `handle_gettxs`, which is in no table, and what the C daemon only
declares (the builders, `handle_connection`, the mempool, seven handlers); printing, argument
parsing and path strings; the prototypes under `docs/`. `io_head_count` and `io_head_load_all`
are read as one step: that a head added in between runs over the array sized by the first is
visible in the source and not in the model. What happens after a write outside an array in
`big_mult` and `target_to_btarget` is not followed (`Overrun`). List files that end in a part of a
hash can be read by `Loading` and are no input of a run: the repository calls
`intern_hashlist_add` nowhere.

Next:

1. The main loop on `Fifo` instead of a sequence, composed with the queue's refinement.
2. The co-Z formulas of `Curve` on the words of `Vli`, instead of on integers modulo the prime.
