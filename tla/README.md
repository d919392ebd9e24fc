# Bitcoin Nano: a verification of the node's core

TLA+ models of the parts of the node that download blocks, decide which chain is active
and what its unspent outputs are, and keep the pool of unconfirmed transactions,
model-checked with TLC on small instances, with the central facts proved for every
instance with TLAPS. Paths are relative to the repository; line numbers are in
`PROJECT.json` ("map").

## 1. The system

A full node in C++ (a fork of Bitcoin ABC with an Equihash proof of work).

| part | sources (`src/src/`) | models |
|---|---|---|
| coin caches and coins database | `coins.*`, `txdb.*`, `dbwrapper.*` | `CoinsView`, `CoinsCache`, `UtxoSet` |
| connecting and disconnecting blocks, undo data | `validation.cpp`, `undo.h` | `UtxoChain` |
| block index, chain selection, pruning, flush, restart | `validation.cpp`, `chain.*`, `init.cpp`, `rpc/blockchain.cpp` | `ChainState` |
| script check queue | `checkqueue.h` | `CheckQueue` |
| memory pool and acceptance | `txmempool.*`, `validation.cpp` | `Mempool` |
| block download, compact blocks | `net_processing.cpp`, `rpc/mining.cpp` | `BlockDownload` |
| connections and their two handler threads | `net.*`, `net_processing.cpp` | `ConnMan` |

Everything else is listed in section 5.

How they interact: peers and RPC hand headers and blocks to `ChainState`'s
functions, under the lock `cs_main`. `ActivateBestChain` picks a target and calls
`DisconnectTip` and `ConnectTip`, which apply or undo one block (`UtxoChain`)
through a local cache over `pcoinsTip` over the coins database (`CoinsCache`), and
let worker threads verify scripts (`CheckQueue`). `FlushStateToDisk` writes first the
block index, then the coins. Connecting a block takes its transactions and their conflicts
out of the pool; disconnecting one puts its transactions back (`Mempool`). The socket thread
reads and writes the connections, the message handler thread processes one message at a time
(`ConnMan`) and asks peers for the blocks that the index lacks (`BlockDownload`).

## 2. Modules

* **`CoinsView`**: the operations on one `CCoinsViewCache` as operators on a function from
  outpoints to entries (`FetchCoin`, `AddCoin`, `SpendCoin`, `Uncache`, `BatchWrite`),
  and `BatchWriteDB` for the database.
* **`CoinsCache`**: the stack view / `pcoinsTip` / database as a state machine. A view exists
  only while `cs_main` is held, so mempool and RPC reads (`TipAccess`, `TipUncache`) happen
  when none is open. Writes may fail (`WritesMayFail`), the process may die and restart.
* **`UtxoSet`**: what the stack promises: one flat map with a working copy and a
  durable copy that changes atomically with its block; a failed write (`Forget`) is the only
  step that separates the map from its block. `CoinsCache` refines it (`RefinesUtxoSet`).
* **`UtxoChain`** extends `CoinsCache` with real blocks: `ConnectBlock` (BIP30 test,
  `HaveInputs`, `UpdateCoins`), `ApplyBlockUndo`, undo data in memory and on disk. The reference
  is `UtxoOf`, a fold over plain maps without caches, flags or undo.
* **`ChainState`**: `mapBlockIndex` with its status bits, `setBlockIndexCandidates`,
  `mapBlocksUnlinked`, sequence ids, `chainActive`, the dirty set, both databases,
  and threads with a program counter. `cs_main` is a variable: `ActivateBestChain` releases it
  between steps and keeps its local `pindexMostWork`. Each `DisconnectTip` and `ConnectTip`
  is one action because the process can die between two of them, and a full flush is two
  actions (index, then coins) for the same reason.
* **`CheckQueue`**: every critical section of `CCheckQueue::Loop` is one action; waiting,
  notification, spurious wake-ups and thread interruption are explicit.
* **`Mempool`**: `mapTx`, `mapLinks`, `mapNextTx`, the ancestor and descendant totals, `mapDeltas`,
  lock points and the rolling minimum fee, composed with a chain of blocks. The coins
  (`coins`) and `chainActive` (`chain`) are two variables because the pool is changed between
  the two updates. A loop over transactions (`removeForBlock`, the resurrection in
  `DisconnectTip`, `UpdateTransactionsFromBlock`, `TrimToSize`) is a phase of one action per round; `cs_main`
  keeps other operations out, so the intermediate states are states of the model and nothing
  else happens in them.
* **`BlockDownload`**: `CNodeState` of every peer, `mapBlocksInFlight` and the global counters
  (`net`), what the index and the disk have, the tip, the block that the message handler is passing to
  `ProcessNewBlock` (without `cs_main`, so the socket thread's `FinalizeNode` and the
  submitblock RPC interleave with it). `inFlight[b].asked` is what the peer was last asked for, from
  which the peers' answers follow. The walks of `FindNextBlocksToDownload` and of the direct fetch along a chain are
  sets of blocks listed by height (`ByHeight`). A failed assertion of `FinalizeNode`, a lookup of a peer that is gone and a
  write through the null `pit` of `MarkBlockAsInFlight` set `broken`. `inFlight[b].partial` says whether the
  entry has a partial block and whether `FillBlock` has emptied it; the assertion of `FillBlock` ends the process
  (`Aborted`), after which nothing happens. `getheaders` is the set of prompt peers that owe an answer to a
  getheaders; what other peers were asked for makes no difference, since nobody can count on their answer.
* **`ConnMan`**: one connection whose two ends both run `net.cpp`: on each side the `CNode` with its
  reference count, queues and pause flags, and the program counters of the socket handler and the
  message handler; in between two bounded, reliable links. `select()` may fail or report an exceptional
  condition (`MaxSelectErrors` times at each end): the socket is then read although receiving is paused or data waits to be sent.
* **`MC*`** give the constants their values; **`*Proofs`** hold the theorems.

In each module the operators named as mutants ("Mutant: ...") are plausible bugs of the
definition that follows them; each property of a passing run fails under at least
one of them.

### Abstractions

* Names and payloads are members of small sets. Sizes and times in `FlushStateToDisk` are
  nondeterministic: a call may always find that it is not yet time to write.
* `UtxoChain`: no scripts, amounts, maturity, locktimes, memory accounting, old undo format or
  the historical BIP30 exemptions.
* `ChainState`: a block is good, refused by `AcceptBlock` (`BadBody`) or refused by
  `ConnectBlock` (`BadConnect`); refusals are definite (not `CorruptionPossible`). Left out:
  `pindexBestHeader`, `pindexBestInvalid`, fork warnings, the mempool, notifications,
  `IsInitialBlockDownload`, reindexing, invalidation of the genesis block. Candidates are a set with the order
  computed on demand, so a corrupted order of the C++ `std::set` is out of the model. Writing the coins
  always succeeds here (`UtxoChain` lets it fail); failing reads and writes (`DiskMayFail`) are not
  combined with pruning. A block that cannot be read ends the node (`AbortNode`); undo data that cannot
  be read only makes `DisconnectTip` fail, and the node goes on with what it has; a block that is received again returns to its file.
  `RewindBlockIndex` only inserts candidates that are there already.
* `CheckQueue`: checks are numbered in the order they are added, so the stack is a set whose
  back is its largest member; a check either passes or fails, fixed when it is added
  (`MayFail`: the checks that may).
* `Mempool`: no scripts, standardness rules, priorities, free relay, absurd-fee test or time-based locks;
  sigops are counted exactly as sizes are; memory use is the total size; a half-life of the
  rolling fee has passed or not (`elapsed`), nondeterministically. A transaction is
  prioritised again only once its delta is gone.
* `BlockDownload`: blocks are valid, nothing is pruned, work is height, every header chain is known to
  connect or not. Ban scores other than an immediate disconnection, `mapBlockSource`,
  `nUnconnectingHeaders` and validated against unvalidated headers are left out
  (`nBlocksInFlightValidHeaders` equals `nBlocksInFlight`). Any peer but a prompt one may send a BLOCKTXN that
  nobody asked for. Peers announce tips of a fixed chain. A peer that disconnects does not return.
* `ConnMan`: a message is a request for `Batch` blocks or a block, and has size one; partly sent
  messages, the handshake and pings are left out. Both ends drop the connection by
  themselves, by the RPC `disconnectnode`, or by the inactivity timeout.

## 3. Runs

| run | instance | distinct states | question |
|---|---|---|---|
| `coins_cache` | 2 outpoints, 2 coins, 2 blocks, failing writes | 8,361 | do FRESH and DIRTY keep their meaning, and is the stack a flat map? |
| `utxo_chain` | 7 blocks with a spend inside the block, a duplicate coinbase, a fork | 2,036 | does the cache equal the reference for the best block, and do verdicts and undo? |
| `chain_crash` | fork of 5 blocks, one invalid, 1 crash, fairness | 296 k | the assertions of `CheckBlockIndex`, best chain, order of the databases; does `ActivateBestChain` return? |
| `chain_reconsider` | 4 blocks, 2 of invalidate and reconsider | 481 k | active chain without failures, dirty set complete |
| `chain_threads` | 4 blocks in 3 files, 2 threads, pruning that keeps 1 | 390 k | candidates, links and assertions under interleaving; are recent blocks kept, and pruned ones linked again? |
| `chain_disk_fails` | 4 blocks, one refused on arrival, 1 invalidateblock or preciousblock, reads and index writes fail | 479 k | does nobody see coins and chain disagree? do changed sequence ids keep the candidates right? does a call that succeeds leave the best chain, after one that failed half way? |
| `check_queue` | 2 workers, 4 checks of which 2 may fail, 2 blocks, interruption, fairness | 377 k | counts, verdict, lifetime of the checks; does `Wait` return? |
| `mempool` | 6 transactions (a parent with two generations, a conflict, a coinbase spend, a relative lock), 6 blocks on 4 branches | 130 k | is the pool what `check()` asserts, with exact totals; can it be mined after any reorganization? |
| `block_download` | 2 peers, of which 1 prompt, on 2 branches of 3 and 2 blocks; window and transit limit 2; submitblock, fairness | 124 k | do lists, map and counters agree; do the assertions and lookups that rest on them hold; is the best chain downloaded? |
| `connman` | 2 ends that ask for 2 blocks each, links and send buffers of 1, one failing `select()` at one end, fairness | 376 k | do references protect the node; do pause flags match; is everyone served or parted? |

**Bounds.** The trees have two branches that compete and, in the larger ones, tie on work, so
that reorganization, tie-breaking, late parents and an invalid block on the better branch all
happen. `MaxCommands`, `MaxCrashes` and `MaxSequenceId` cap counters that the code leaves
unbounded; one crash at every point, and two commands in every order, are what the
properties tell apart. Four checks and batches of two are the least with which a worker, the
master and the queue hold checks at the same time. In the pool, `MaxMempool` 3 and `LimitAncestorSize` 3 are
below what the six transactions need, so eviction, refusal for the fee and refusal by limits happen; `Maturity` 2 makes a
coinbase spend immature again after one disconnection. In `block_download` the window of 2 is
shorter than the branch, so that a peer can stall it, and both peers may hold the same block. In
`connman` two blocks per request and the request exceed link and buffer together, so both directions fill;
the two ends are alike, so `select()` need fail at one of them only.
Symmetry is used for the coins run only.

**Deadlock** is checked except in `check_queue` and `connman`, where the bounded number of blocks or of
requests runs out, and in `block_download`, where the process may end by the assertion of `FillBlock`.

**Fairness.** `chain_crash`: every thread inside validation is scheduled and a flush goes on to
its second write, nothing about which blocks arrive. `check_queue`: threads inside
`Loop` are scheduled. A sleeping thread has no step until it is notified, so
fairness does not stand in for a notification. `block_download`: a call of `ProcessNewBlock`
returns; the message handler serves its peers in turn, so what one peer can have done
again and again is done for it at some time (strong fairness); the prompt peer connects
and answers when it is asked for headers or blocks, but need not announce anything; for any other peer only the
timeout is assumed. Nothing says that the prompt peer is asked: the code asks one peer for its headers, and
one that does not answer keeps that place (`net_processing.cpp:3361`). `SyncCompletes` is therefore conditional on `Sought`.
`connman`: the four threads keep running (weak fairness), and a connection that is found
stuck again and again is timed out, as `TIMEOUT_INTERVAL` does; nothing says that a peer reads.

### Disagreements between code and comments

Each is a run that TLC ends with a counterexample; the quoted lines are in
`PROJECT.json` ("findings").

| run | what happens |
|---|---|
| `stale_target_assert` | `pindexMostWork`, kept while `cs_main` is free and followed after invalidateblock has marked it, empties `setBlockIndexCandidates`: an assertion fails |
| `fill_block_twice` | after READ_STATUS_FAILED the emptied partial block stays in `mapBlocksInFlight`; a further BLOCKTXN makes `FillBlock` run again, which its comment excludes: an assertion fails |

Combinations that TLC refutes, and that the passing runs therefore avoid, each reached with other
values of the constants:

* `UtxoChain.cfg` with `WritesMayFail = TRUE`: `DbMatchesBestBlock`. `CCoinsViewDB::BatchWrite` erases the
  cache before the write (`txdb.cpp:83`); after a failed write, the flush of `Shutdown`
  stores the best block without its coins.
* failing index writes (`DiskMayFail`): `DiskCoinsIndexed`. `FlushStateToDisk` empties the dirty set before
  the write (`validation.cpp:2306`); after a failed write, `Shutdown` writes the coins alone; after
  the restart, `NoAssertion` too. With invalidateblock on branches of equal work the
  restarted node also lacks a candidate (`CheckBlockIndex`);
* two threads: `BestChainActivated` (a heavier block on the same branch point arrives between two
  steps), and with invalidateblock `TipNotFailed`, by the same stale target;
* invalidateblock with a crash: `NoAssertion` (the index on disk may have the failed tip while
  the coins database still ends in it);
* reconsiderblock: `CheckBlockIndex` and `BestChainActivated`
  (`ResetBlockFailureFlags` clears the ancestors of the block but does not treat the other
  branches on them);
* `Mempool.cfg` with the invariant `PrioritisedFeeCounts`: `ApplyDeltas` takes the fee by value
  (`txmempool.h:610`), so a transaction whose fee with the delta of prioritisetransaction is sufficient is refused, although a comment
  (`validation.cpp:810`) and a functional test (`prioritise_transaction.py:148`) say otherwise;
* failing undo reads: `BestChainActivated`. A call of `ActivateBestChain` that fails half way through a
  reorganization leaves a lower tip until the next one; `ActivatedOrFailed` is what its comment promises;
* `SyncCompletes` without the condition `Sought`: an inbound peer that completes its handshake before any
  preferred one, and never answers the getheaders, keeps `nSyncStarted` at one, and a prompt peer that
  announces nothing is not asked until the headers are recent;
* pruning with a crash: `KeepsRecentBlocks` (files are removed before the coins are flushed, so the
  restarted node has a lower tip).

Observations made while reading, outside the models: two nodes that both have data to send do not read
(`net.cpp:1320`), and only the inactivity timeout parts them (`ServedOrEnded` fails without
it); a block that submitblock brings while a compact copy is awaited leaves its entry in
flight until the timeout.

## 4. Proofs

All theorems hold for every value of the constants that satisfies the named assumptions
(`CoinsAssumption`, `BlocksAssumption`, `TreeAssumption`, `OrderAssumption`,
`FiniteAssumption`, `GenesisAssumption`, `ProcessAssumption`, `QueueAssumption`, `ConnManAssumption`,
`MempoolAssumption`, `VersionAssumption`, `PeerAssumption`), which TLC evaluates on the instances. They say what kind of
object a constant is; the ones with content are that blocks form a tree with heights
(`TreeAssumption`), that there are finitely many of them (`FiniteAssumption`, in the form in which the proofs use
it: a set of blocks can be counted and has a lowest and a highest member) and finitely many peers
(`PeerAssumption`), and that the genesis block passes its tests (`GenesisAssumption`).

**`CoinsCacheProofs`.** The inductive invariant `IInv` is the type invariant with
`FlagsMatchBelow`, `SpentIsPending` and "a closed view is empty".
The flag properties need each other: a merge may erase a FRESH entry only
because the level below has nothing, and a lookup creates a clean entry only because it copies
the level below. Lemmas treat one entry under each operation (`MergeCorrect`,
`SpendCoinFlags`, `AddCoinFlags`, ...); `NextIInv` has one step per action. Results:
* `TypeCorrect`, `FlagsCorrect`, `NeverMisapplied` (the `logic_error` of `BatchWrite` is
  unreachable) and `SpendsReachDatabase` (a spent entry of `pcoinsTip` is one the database still
  has to hear of), also with failing writes and crashes;
* `CachesAreInvisible`: `CoinsCache` implements `UtxoSet`, failing writes included.

**`ChainStateProofs`**: what is in memory and on disk, with any threads, commands, pruning and crashes.
* `TypeCorrect`: types, and `cs_main` is held exactly by the thread in a critical section. The invariant adds that
  a thread inside a step has a target, and that a node that is down holds nothing.
* `CoinsNeverAhead`: if index writes do not fail, the coins database never names a block whose
  chain the index database lacks (`DiskCoinsIndexed`). It needs `LinkedInv` (what is linked, a
  candidate, a target or active was received with all its ancestors) and `DiskInv` (memory
  differs from disk only in dirty entries; between the two writes of a flush nothing is dirty).
  The premise is necessary: with failing writes TLC refutes the conclusion (section 3).
* `DirtyCorrect`: in a running node an entry outside `setDirtyBlockIndex` is as on disk but for
  FAILED_CHILD, failing writes included (`DirtyIsComplete`). The invariant adds, for the index in memory and the
  one on disk, that a block with any flag but a failure has a header; without it
  a header seen again could change an entry that is not dirty.
* `CoinsFollowTip`: `pcoinsTip` is at the tip of a running node (`CoinsAtTip`), failing writes included. It is
  inductive once it is claimed inside critical sections too.

**`ChainChoiceProofs`** (which extends `ChainStateProofs`) and **`ChainIndexProofs`** (which extends it): which
chain is chosen, and what `CheckBlockIndex` may assert, for every tree of blocks and after any crashes and
restarts. The theorems share a chain of invariants, each of which needs the ones before it; their premises are those under which TLC
finds no counterexample (section 3).
* `NoFailedTip`: without invalidateblock, no block of the active chain is marked as failed
  (`TipNotFailed`), with any threads, pruning, failing disks, reconsiderblock and preciousblock. `GoodInv`:
  in memory and on disk only descendants of a bad block are ever marked, and the tip and both
  records of the coins are at blocks without a bad ancestor.
* `AssertionsHold`: without pruning, disk failures, invalidateblock and preciousblock, and with any number of
  threads, no assertion fails (`NoAssertion`). `TopInv`: every good linked block has a
  good candidate that is no worse, so what `PruneBlockIndexCandidates` removes always leaves a better one. It
  holds although a thread may follow a stale target.
* `WaitingBlocksFound` (from here on in `ChainIndexProofs`): without commands as well, `mapBlocksUnlinked` holds the blocks that wait for an
  ancestor, and every mark of failure goes back to a block that a test refused, on disk too (`WaitInv`, `CauseInv`).
* `AloneBlockIndex`, `AloneBestChain`: if moreover one thread validates, all of `CheckBlockIndex` holds, and when
  `ActivateBestChain` has returned no complete and valid chain is better (`BestChainActivated`). `CandidateInv` and
  `TargetInv`: a linked block that is no candidate is worse than the target or, when there is no target, than
  the tip. With two threads TLC refutes both, because a thread goes on with the
  `pindexMostWork` it chose before it released `cs_main`.

**`CheckQueueProofs`**, for any finite set of workers and any number of checks and blocks:
`TypeCorrect`, `TodoCorrect`, `VerdictCorrect`, `ControlCorrect`. The invariant adds to the
properties: `nTotal` is `nIdle` plus the threads with a batch, and `nIdle` is at least the number that
sleep (an interrupted thread stays counted); while a control exists, `fAllOk` means that every check
no longer pending ran and passed, and a flag that is down that one which ran failed; a
thread carries the result of its batch until it locks the mutex again.

**`ConnManProofs`**, for any link size, limits, batch and number of requests: `NeverDeletedInUse`,
`QueuesStayBounded`. The invariant adds types and what makes the bounds inductive: the send queue
exceeds its limit by at most one block and the requests already made, a socket is selected for
reading only while the queue to process is within its limit unless `select()` failed, and the link holds at most `LinkSize`
messages. A failed `select()` lets a paused node be read once, so each adds at most `LinkSize` messages to the bound.

**`MempoolProofs`**, for any transactions, blocks and limits: `NeverConflicting` and `NextTxCorrect`. The
property must hold through the loops, while `mapLinks` is incomplete: a removal that follows it may miss
descendants, but takes entries out of `mapTx` and `mapNextTx` alike. The invariant is therefore
that `mapNextTx` is exactly the index of the pool's inputs, with the types that the loops over
blocks need; the acceptance test against `mapNextTx` does the rest.

**`BlockDownloadProofs`**, for any tree, peers, window and limits: `RecordsAgree` (`InFlightConsistent`),
`RecordsSuffice` (`RecordsNeverFail`) and `StallersOwe` (`StallersOweBlocks`), from one inductive invariant
`DownloadInv`. Its core is `Fine(net)`: each peer's list has no block twice and holds exactly the blocks that
`mapBlocksInFlight` gives to it, its counter is the list's length, only a peer with a
`CNodeState` has blocks or is counted, a staller owes a block, and the three global counters are the sizes of
the sets they stand for. There is a lemma for each function on `net` (`ReceivedFine`, `InFlightFine`, ...), and one for
what `FindNextBlocksToDownload` and the direct fetch return (`FoundRight`, `DirectRight`): wanted blocks, each
once, and a staller only when there is nothing to ask for. That is why no handler asks twice. All three hold with any
BLOCKTXN, asked for or not; that `FillBlock` runs once per partial block is not among them (run `fill_block_twice`).

**Layout of the proofs.** A fact that serves one lemma only is a named step of that lemma's proof
(`<1>ConnectTipMarks` in the proof of `GoodNext`), stated with its own assumptions like a lemma; what several
lemmas or modules use is a lemma of the module.

**Induction over numbers.** The library's induction rules cannot be used by the installed provers, but a set of
numbers that contains 0 and successors is `Nat` (`AllNumbers`), from the well-foundedness of `<`. The walk to the genesis block (`Chain`)
and the loop over requests (`RequestBlocks`) are recursive functions over an interval; they
are shown to be defined, and then right, in this way.

**Only model-checked.** Liveness under fairness and ENABLED are out of reach of the prover: `ActivationEnds`,
`WaitReturns`, `SyncCompletes`, `ServedOrEnded`. So are facts by induction over sequences, sets or trees
(what the folds of `UtxoChain` and of the pool's totals compute) and anything about RECURSIVE operators: all properties of
`UtxoChain`, and the links and totals of `Mempool`. `KeepsRecentBlocks`, and the properties of `ChainState` with the
commands, pruning or disk failures that the premises above exclude, are checked by TLC alone. Section 3 says
which of those combinations TLC refutes; for the others an invariant is not known.

## 5. Not modelled

* **Parts with state, of a checkable size, that a further module could treat**: the orphan pool
  (`net_processing.cpp`), the scheduler and the HTTP work queue (`scheduler.*`, `httpserver.cpp`),
  the address manager (`addrman.*`), version bits (`versionbits.cpp`), the cuckoo cache
  (`cuckoocache.h`), the wallet's key pool and transaction states (`wallet/`), block assembly
  (`miner.cpp`), saving and loading the pool (`mempool.dat`). Hazards of some of them are listed
  in `PROJECT.json` with a note.
* **Within the modelled parts**: failures of `ConnectBlock` that count as possible corruption, failing
  writes of block files, reindexing, `LoadExternalBlockFile`, transaction relay, opening and
  accepting connections, bans.
* **Pure computation out of reach of a small-state model**: the script interpreter, cryptography,
  Equihash, 256-bit arithmetic, encodings, fee estimation in floating point.
* **No state of the node**: the graphical interface with its translations (`qt/`, `qt/locale/*.ts` are texts in
  XML), notifications, option handling, the seeder, which is another program, and the
  governance sources, which are in the tree but not compiled.
