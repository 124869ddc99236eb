# BitBlocks Core: TLA+ models, model checking and proofs

BitBlocks Core is a proof-of-stake node of the Bitcoin / Dash / PIVX family. This directory
models the parts of it that decide which chain a node follows, what it finds again after a
crash, and which spends it reserves: the block tree and the active chain, the files and
databases they are kept in, the coin caches, the pool of script check threads that connecting
a block uses, the transaction locks of SwiftTX, and the synchronization of the masternode data. Source paths
below are relative to the repository's `src/`.

## 1. Inventory

| part | state it keeps | operations | hard part | correct means |
|---|---|---|---|---|
| Script check queue (`checkqueue.h`) | queue, nTodo, nTotal, nIdle, fAllOk, two condition variables | Add, Wait, worker Loop, control object | several threads, wakeups, interruption | Wait returns, with the verdict on exactly this block's checks; nothing survives the block |
| Coin caches (`coins.*`, `txdb.cpp`) | three layers of coins with DIRTY / FRESH flags, best block | fetch, ModifyCoins, BatchWrite, Flush | flags across long sequences, failed write, death of the process | the layers act like one map; disk holds the state of the block it names |
| Block tree and active chain (`main.cpp`, `chain.*`) | mapBlockIndex with status, setBlockIndexCandidates, mapBlocksUnlinked, chainActive, pcoinsTip's best block | accept header and block, activate, connect, disconnect, invalidate, reconsider, replay, restart | cs_main is released between steps; system errors; verdicts that change | every thread that returns leaves the best usable chain active; assertions hold |
| Transaction locks (`swifttx.*`) | requests, rejected requests, votes, locks, locked inputs | "ix", "txlvote", wallet send, clean-up | votes and requests in any order, three threads without a lock | no double counting; reservations end; conflicting locks cancel |
| Sporks (`spork.cpp`) | active values | spork message, ExecuteSpork, ReprocessBlocks | replay races block download | replay ends on the best chain |
| Masternode synchronization (`masternode-sync.cpp`) | current asset, attempts, last answer | Process (timer), answers, Reset | timeouts race answers; Reset from other threads | reaches FINISHED or FAILED and retries |
| Masternode list (`masternode*.cpp`, `masternodeman.cpp`) | entries, seen broadcasts and pings | broadcast, ping, check, remove | expiry, duplicates | one entry per collateral; expired ones leave |
| Masternode payments (`masternode-payments.cpp`) | winner votes, payees per block | winner message, IsTransactionValid, clean | verdict on a block depends on the votes known now | one vote per masternode and height |
| Budget (`masternode-budget.cpp`) | proposals, finalized budgets, votes, orphans | messages, new block, finalize | order of proposals and votes | votes are not lost, payments unique |
| Mixing pool (`obfuscation.cpp`) | session state, entries, signatures, queue | messages, timer, new block | timeouts in every state | sessions end, coins are unlocked |
| Memory pool (`txmempool.cpp`) | mapTx, mapNextTx | add, remove, block, reorganization | resurrecting transactions | the two maps agree |
| Block files and index storage (`main.cpp`, `txdb.cpp`) | dirty entries, files, positions | FlushStateToDisk, LoadBlockIndexDB | crash between two writes | the next start finds a consistent index |
| Wallet, network, address manager, miner, kernel, keys, script, RPC, GUI | | | | see PROJECT.json for each |

How they interact. A block from the network (message thread), the miner or RPC enters
`ProcessNewBlock`, is stored by `AcceptBlock`, and `ActivateBestChain` moves the active chain;
`ConnectTip` applies the block to a scratch coin cache, with its scripts checked by the check
queue, and flushes it into `pcoinsTip`. SwiftTX and the masternode payments influence the
verdict of `CheckBlock`, which `ConnectBlock` asks again; a complete lock or spork 12 calls
`ReprocessBlocks`, which clears the failures of recently rejected blocks, disconnects the last
blocks and activates again. `PROJECT.json` lists every component, and every hazard with the
line where it bites.

## 2. Modules

| module | models |
|---|---|
| `CheckQueue` | `CCheckQueue`, `CCheckQueueControl` |
| `UtxoView` | abstract: what the coin views promise, without caches |
| `CoinsCache` | block view, `pcoinsTip`, coin database; refines `UtxoView` |
| `ChainState` | block tree, candidates, active chain, invalidate / reconsider / replay / restart |
| `BlockStore` | block and undo file, index entries, file information, shutdown flag; flush, death, start and repair |
| `SwiftTX` | lock requests, votes, locks, locked inputs |
| `MasternodeSync` | the stages of `CMasternodeSync`, its timeouts and retries |
| `MC*` | trees, symmetry sets and small constants for TLC |
| `*Proofs` | the theorems, one module for each of the six components |

**CheckQueue.** One action per critical section of the mutex: `Start`, `Exec` (evaluates a
batch outside the mutex), `Commit`, `Wake`, `SpuriousWakeup`, `Interrupted`; `InterruptAll`,
and for the thread that connects a block `Open` (control object), `Add`, `Join` (Wait or
the destructor). `Restart` is a new process, so that the runs have no artificial end.

**CoinsCache.** `FetchTip`, `FetchChild`, `Begin`, `ModifyCoins`, `FlushChild`, `Discard`,
`FlushTip`, `FlushTipFails`, `Crash`. A `CCoins` is the set of its unspent outputs; a pruned one
is empty. `stateOf` is a history variable: the coins each block was committed with.

**ChainState.** A thread holds `cs_main` in the control points `find`, `disc`, `conn`, `inv`,
`replay`; each `ConnectTip`, `DisconnectTip` and round of `FindMostWorkChain` is a step.
The tree is a constant (`Parent`, `Ancestors`, `Height`, `Work`), so a block's verdict and its
moment of arrival are the only things open. What `CheckBlock` and `ConnectBlock` say of a block
is nondeterministic until it was connected once, and always when `FickleVerdicts` holds.
`ReprocessBlocks` may meet any block, because `mapRejectedBlocks` may hold any. `Restart` is
a clean shutdown followed by `LoadBlockIndexDB`. System errors (`SystemError`) set `aborted`: the
node keeps running until its threads notice, as after `AbortNode`; undo data that cannot be read (`ReadError`) only
make the caller fail. An assertion of the code that
fails sets `fault`.

**BlockStore.** What lies on disk (`blk`, `rev`, `dInfo`, `dData`, `dUndo`, `dCoins`, `shutdown`) and what the
process holds in memory are separate variables. Every write of `FlushStateToDisk` is an action
(`WriteBlockFileInfo`, `WriteBlockIndex` once per dirty entry in any order, `Sync`, `FlushCoins`), `then` is what its
caller goes on with, `ConnectBlock` writes an index entry outside of any flush as the code does, and
`Die` is possible between any two. `FlushFails` returns to the caller, which goes on to stop the node.
A position counts blocks instead of bytes; a block that is written replaces what was there.
`Start`, `StartTorn`, `StartOutOfRange`, `StartRepair` are the ways `LoadBlockIndexDB` can take with what it finds;
the repair activates blocks with the same `ConnectTip` and `DisconnectTip` as the running node, and ends in
`StartRepaired`, `StartMismatch` (abort) or `StartAsserts`. The block that is read again at the position of
`pindexLastMeta` may be another one: `Reprocess` then makes its entry anew. Which chain is best is decided by
`IsMostWork` directly; how the candidates get there is `ChainState`'s matter.

**MasternodeSync.** One action is one round of `Process` (every five seconds), split where another thread can
come in between: a round decides (`target`) and `Assign` performs `GetNextAsset` or the failure, so that `Reset`
by the RPC thread or by `IsBlockchainSynced` may fall between; `GetNextAsset` then finds the old asset or INITIAL, and
in that case clears the requests.
Every item that arrives refreshes the time of the last one. Clocks are counted in rounds and saturate one
past the limit they are compared with. `asked` is what `vecRequestsFulfilled` holds of each peer. `raced` remembers
that the last `Reset` fell into a round.

**SwiftTX.** The handler of a request is two steps, `LockRequest` and `RequestAccepted` /
`RequestRejected`, because it waits for `cs_main` in between; `ConsensusVote` and `VoteRefused` are
"txlvote", `SendLockRequest` the wallet, `CleanTransactionLocksList` the masternode thread, `Tick`
the clock, which counts the time left of every lock instead of an absolute time. `blank` are the
entries of `mapTxLockReq` that `operator[]` created. `rejectedOnce` is a history variable.

## 3. Runs

| run | bounds | shows |
|---|---|---|
| `check_queue` | 2 workers, 3 checks | idle between blocks, right verdict, no check outlives its block, the counting invariant; `Wait` returns |
| `coins_cache` | 2 transactions, 2 outputs, 2 blocks, 1 failed write | flags sound and assertion safe, failures included; refinement of `UtxoView`, modifications kept |
| `coins_failed_write` | 1 failed write | *violation*: see findings |
| `chain_best` | 2 forks of 2 blocks, 2 threads, 2 requests / replays / restarts | best chain, completeness of candidates, assertions |
| `chain_adverse` | 4 blocks, 2 threads, 1 request, 1 system error, a damaged block, changing verdicts, deep reconsider | index and candidates stay sound; `ActivateBestChain` returns |
| `chain_fickle` | changing verdicts | *violation* |
| `chain_failed_invalidate` | 1 system error | *violation* |
| `block_store` | genesis, 2 blocks and a fork, 6 positions, 2 deaths, 1 failed write | chainstate recoverable, undo data intact, stored blocks not written over until a repair recomputed the file size |
| `block_store_repair` | same, 1 death, no failed write | *violation* |
| `swift_locks` | 2 conflicting requests, one own; 2 masternodes, 2 needed; a vote at a wrong height; locks of one tick | one vote each, reservations end |
| `swift_conflict` | same, no own vote | *violation* |
| `masternode_sync` | 1 peer that comes and goes, threshold 1, quiet after 1 round, timeout and retry after 2, 1 reset | no stage skipped where enforced, chain first, bounded attempts; a sync ends, a failed one begins again |

Why the bounds are enough to be interesting. Three checks let both workers and the master
hold one at once; the code's formula then gives batches of one (two would need four checks, which is too slow with
two workers; the theorems cover every batch size). Two outputs or two
transactions separate an entry from its neighbour, two blocks give a commit, a flush and a
commit after it. Two forks of two blocks are the smallest tree with a reorganization that passes
through a tip of equal work, a sibling of the tip, and a block that arrives before its parent; two
operations allow invalidate followed by reconsider, by replay or by restart. In SwiftTX one tick
separates living, cancelled (0 left) and expired locks; nothing else is bounded. In BlockStore
the fork block makes the number of entries differ from the height, which is what the repair looks
at, and makes the node disconnect; two deaths allow one inside the repair of the other, and six
positions for three blocks leave room for all the blocks that are stored twice. In
MasternodeSync every limit is small and no two comparisons coincide by accident: the code's
values are 2, 10 s, 25 s and 60 s at a round of 5 s. One peer is enough, because a peer that
leaves and comes back may be asked again, as a new one. The runs in
which nothing more can arrive stop there (`CHECK_DEADLOCK FALSE` for ChainState, BlockStore and
SwiftTX: all blocks known and all operations spent, a node that cannot start, all votes seen).

Restrictions in `chain_best`, each with its reason: no system error, no changing verdict and no
`reconsiderblock` below a failed block, because the code then really breaks what is claimed
(section 5); `chain_adverse` checks what remains true. There `ActivationReturns` excepts one case, a thread that
keeps meeting the damaged block (`BlockedByDamage`), since the code loops on it. `block_store` starts
with `EarlyDeath = FALSE`: before file information with a block was written, the repair is skipped and the
code does overwrite blocks (section 5). `StoredBlocksIntact` holds only without failed writes and until a repair took the
size of the file from the highest block (`resized`, a history variable), for the same kind of reason. `SyncEnds` is
about what the code can do something with (`Favourable`): again and again a recent tip, a current peer that was not asked for the
asset, and no item for `Quiet` rounds. These are conditions on the chain, the peers and their messages, not on what `Process` does. Without a peer to ask the timeouts of the
list and of the winners are not looked at, and as `AddedMasternodeWinner` and its siblings count per hash, a stream of new
items refreshes the last time without limit; in both cases the code waits on.

Fairness. `CheckQueue`: weak fairness of each thread's steps; threads that hold the mutex leave it.
`ChainState`: weak fairness of each thread and strong fairness of `TakeLock`, since
`ActivateBestChain` polls `cs_main` with `TRY_LOCK` every 50 ms and no thread takes the lock
without ever leaving it. `SwiftTX`: the clock runs, and the masternode thread calls
`CleanTransactionLocksList` every minute. `MasternodeSync`: `ThreadCheckObfuScationPool` calls `Process` every second,
and a round that decided assigns (weak fairness). A round may find `cs_vNodes` or `cs_main` taken, or the peers gone (`Wait`), but polls
every five seconds without being tied to either, so asking, moving on and finishing without a budget are strongly
fair: what is possible again and again is done some time. Messages, votes, operators and errors are never fair.

Every property has a mutant: a definition changed the way a slip in the code would change it
(operators marked "Variant"), for which the same run finds the property violated.

## 4. Proofs

All theorems hold for every value of the constants under the named assumptions of the modules.

- `CheckQueueProofs`. `Inv` says that nTodo is the number of checks added and not
  committed, nTotal the number of threads in the loop, nIdle the number of those waiting, and
  that a failed check is remembered in fAllOk or in the fOk of its thread. None of the three
  properties is inductive without the counts: the master leaves because nTodo is 0, and only the
  count says that no batch is out. From it: `ControlNeverAsserts`, `VerdictIsRight`,
  `NoDanglingCheck`. Assumed: finite sets of workers and checks, a positive batch size.
- `CoinsCacheProofs`. `Inv` relates the flags of each layer to what the layer below
  answers; FRESH in the child must hold relative to `pcoinsTip`'s view and not to the database.
  From it: `FlagsAlwaysSound`, `BatchWriteNeverAsserts` for any number of failed writes;
  `CachesAreInvisible` (every step of the caches is a step or a stutter of `UtxoView`, failed writes
  included); `DurableStateIsNamed` when no write fails; `ModificationsNeverLost` as an action property.
- `SwiftTXProofs`. `OneVoteEach` needs `VotesSeen` (what a lock counted is still in
  `mapTxLockVote`), because a vote is only compared with that map. `ReleasedWithLock` needs that the
  holder of an input spends it (`HoldersKnown`) and that its entry in `mapTxLockReq` is not blank
  (`LocksHaveRequests`), since the clean-up reads the inputs from there.
- `BlockStoreProofs`, for any block tree, any number of deaths and failed writes, early deaths included.
  `ChainstateRecoverable` needs that what differs from the disk is marked dirty (`DirtyMarked`) and that the chain of
  the coins in memory has its data and undo data (`CoinsChainStored`); then the order of the writes gives the
  rest. `UndoIntact` is the delicate one: `ConnectBlock` writes entries outside of any flush, so a block could
  have an undo position on disk beyond the recorded size, which the next start would hand out again.
  `UndoAccounted` says why it does not happen: only a block that was disconnected is connected again, and
  `DisconnectTip` always flushes. (A disconnect that flushed only if needed, as `ConnectTip` does, is the mutant
  of this property.) From `Inv`: `CrashLeavesChainstateRecoverable`, `UndoNeverOverwritten`.
- `MasternodeSyncProofs`, for any peers and timeouts. The three invariants are inductive together; what a
  round decided obeys the rules already (`target`), and they except a round into which `Reset` fell.

- `BlockStoreProofs`, second part: `StoredBlocksNeverOverwritten`, if the process does not die before file information
  with a block is on disk (`~EarlyDeath`). `ConnectBlock` writes index entries outside of any flush, so after a death an entry may
  refer to a position at or beyond the recorded size, which the next start would hand out again. `CountTells` says why this does
  not happen unnoticed: such an entry is always one more than `nHeightLast + 1`, the number that `LoadBlockIndexDB`
  compares with. For that, `SizeCovers` (in the running node there are at least as many blocks as heights, all below `nSize`) has
  to hold at every start, which the count at that start gives in turn. Inside a flush the count may be too
  small, since the file information is written first; then nothing is uncovered. The stronger claim, that the chain the
  coins stand for is never written over, repairs included, has no proof because it is false: it holds on the run's four blocks, and with a
  fifth one TLC finds the counterexample (section 5).
- `ChainStateProofs`, for any finite block tree, any number of threads, operations and faults. Its invariant `Inv` holds in
  every state, also while `cs_main` is held, and has five parts:
  `Mutex` (one holder of `cs_main`), `IndexInv` (data, links, levels, sequence ids fit together, and `mapBlocksUnlinked` has exactly the
  stored blocks that are not linked), `ChainInv` (tip and coins stand at blocks that were connected once; candidates are
  linked and none sorts below the tip), `StepInv` (what a thread relies on between two steps under `cs_main`: its
  `pindexMostWork` is still the best candidate with an unmarked way to it, the block it invalidates is marked), and `SafeInv`, up to
  the first system error (no assertion failed, the coins follow the tip, and the only mark on the active chain is on the block
  being invalidated). `IndexConsistent` needs the lemma `NewlyLinked`: when data arrives, exactly the blocks that
  lacked only this one become linked. From `Inv`: `TypeCorrect`, `IndexIsConsistent`, `CandidatesAreSound` under all faults;
  `ActiveChainIsValid`, `ChainAssertionsHold`, `CandidatesRemain` while `errors = 0` (a failed `DisconnectTip` does leave the
  coins behind or a marked tip, finding 3); that `FindMostWorkChain` only walks over linked blocks holds under all faults.
- `FailuresHaveCauses` needs `~DeepReconsider`: `reconsiderblock` below a failed block clears the cause and leaves its marks.
- `TipIsTheBest` and `CandidatesAreComplete` are what `ActivateBestChain` is for. They assume `~DeepReconsider` and
  `~FickleVerdicts` (finding 2, and the end of section 5: the code breaks both otherwise) and no system error. The invariant behind
  them is `RestInv`. Its part `CompleteInv`: unless `InvalidateBlock` is at work, every linked block without a mark is a candidate
  or covered by one at least as good that is usable and was connected once, so that no verdict can take it away. Its part `DutyInv`: either the
  tip is the best candidate or some thread is still on duty, that is, going to look for a better one. This is why
  releasing `cs_main` between two rounds is harmless: a thread that sees the tip differ from its target looks again. At rest nobody
  is on duty. The proof rests on `CBlockIndexWorkComparator` being a strict total order, which is a lemma.

Assumptions on the tree (`TreeAssumption`, `StoreAssumption`). Besides what `CBlockIndex` gives directly (a parent one lower, with less work, an
ancestor set that is the parent's plus the block) `ChainState` assumes what follows from it by induction on the height:
ancestors are transitive and linearly ordered, height and work grow along them, and all reach the genesis block. These are facts
about every finite tree; they are assumed because induction over data is outside this prover, and TLC evaluates them on the
trees of the runs.

Only model-checked: the liveness properties (`ActivationReturns`, `WaitReturns` and the others of the table), because fairness and
ENABLED are outside the prover; and the violations. Every invariant of a passing run has a theorem.

## 5. Findings

1. `coins_failed_write`. `CCoinsViewDB::BatchWrite` empties the cache before the write that then fails, and `pcoinsTip`
   keeps the name of its best block: a later flush writes that name without the coins.
2. `chain_fickle`. A block of the old branch that is rejected when it is connected again leaves
   `ActivateBestChain` below a usable sibling that was pruned, against its comment.
3. `chain_failed_invalidate`. `invalidateblock` whose disconnect fails, because the block or its undo data cannot be read, leaves a tip that is marked
   failed on disk; the next start can end in the assertion of `PruneBlockIndexCandidates`.
4. `swift_conflict`. A rejected request whose votes complete later is compared with nothing, because
   `mapTxLockReq[...]` creates an empty transaction: conflicting locks do not cancel.
5. `block_store_repair`. The repair of `LoadBlockIndexDB` adjusts the tip by height alone. With a fork block in
   the index, or after a death inside a flush, the tip it sets is not where the coins are, and the start
   ends in the assertion that the repair is there to avoid, every time.

Also met while modelling, and described under the hazards of `PROJECT.json`: a damaged stored
block makes `ActivateBestChain` loop for ever; a failed reorganization leaves a tip that is no
candidate while `cs_main` is free; `reconsiderblock` below a failed block leaves siblings marked
without a cause; inputs reserved for a rejected request stay reserved; a lock completed by
votes that came before its request reserves nothing until one more vote comes. In the storage:
the repair is skipped while `nHeightLast` is 0, and after a shutdown whose flush failed (the flag is
written regardless), so that stored blocks are overwritten; `vSortedByHeight` is read past its end when
fewer entries than `nHeightLast + 2` were written; entries are written in the order of their addresses, so a
branch may lack a parent; the size of the file is taken from the highest block and not from the
last one, so that the repair itself causes what its comment (`main.cpp:3865`) says it prevents: two blocks of the same height are
stored, the process dies in the flush before the coins are written, the repair activates the one that was stored first and passes all
its checks, and the next block is written over the other one (drop `~resized` from `StoredBlocksIntact` to see
it; with a fifth block, a reorganization makes the overwritten block one of the active chain). In the synchronization: the list begins with one attempt counted, because the attempt is
incremented after `GetNextAsset` reset it; `nAssetSyncStarted` runs while the chain is still loading, so that the
list may be overdue at its first round; sporks need three different peers; and with every peer
asked neither the list nor the winners time out.

## 6. Not modelled, and why

Cryptography, scripts and proof-of-stake arithmetic appear as outcomes of a check. `BlockStore` has one block
file, entries only for blocks with data, and no failed writes within the repair (which reads the file
information back from disk after a failed flush). An entry whose parent was not written ends the start there (`StartTorn`), while the code
goes on with a blank entry that `InsertBlockIndex` made for the parent. `TestBlockValidity` also reaches the write of an index entry
in `ConnectBlock` (`main.cpp:2257`), for a template that is no stored block; it is left out, as are `-reindex`, the transaction index and loss of power,
where the system loses writes it had accepted. `Restart` of `ChainState` is a clean one.
`pindexBestHeader`, `pindexBestInvalid`, the memory pool and the wallet do not
influence the state of `ChainState` and are left out there. `MasternodeSync` leaves out the counts of "ssc", which
only end in a log, and the REGTEST branch; SPORK_8 is a constant of each behaviour, and one item stands for all
of an asset; `GetMinMasternodePaymentsProto` and `ActiveProtocol` are one threshold (`Current`). Races on the unguarded maps themselves
(`mapRejectedBlocks`, SwiftTX) are undefined behaviour; the models interleave whole accesses. `RequestRejected` of `SwiftTX` is one step,
although `ReprocessBlocks` inside it waits for `cs_main` before `mapTxLockReq` changes.
Vendored libraries, the GUI and RPC formatting are out of scope.

## 7. Plan

1. *Done:* `CheckQueue`, `UtxoView` / `CoinsCache`, `ChainState`, `SwiftTX`, `BlockStore`, `MasternodeSync`, with a
   theorem for every invariant that a passing run checks, and the refinement of `UtxoView`.
2. Proofs: action properties of `ChainState` (what a step may never do to a verified block or to the tip) and of `SwiftTX`.
3. `BlockLocks`: `SwiftTX` composed with `ChainState` through the verdict of `CheckBlock` and
   `ReprocessBlocks`, replacing `FickleVerdicts` by its cause.
4. Memory pool, masternode payments, mixing session, budget votes, the stake-seen guard; `BlockUndo`:
   `UpdateCoins` and `DisconnectBlock` as inverse operators, over bounded blocks.
