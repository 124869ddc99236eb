----------------------------- MODULE BlockStore -----------------------------
(***************************************************************************)
(* What a node keeps on disk (main.cpp, txdb.cpp): the block file, the     *)
(* undo file, the block tree database with the file information ('f'), the *)
(* index entries ('b') and the shutdown flag, and the name of the best     *)
(* block in the coin database.  FlushStateToDisk is one step for each      *)
(* write, the process may die between any two of them, a write may fail,   *)
(* and LoadBlockIndexDB starts from what it finds, with the branch that    *)
(* repairs the file information after an unclean end.                      *)
(*                                                                         *)
(* There is one block file, and a position is the number of blocks before  *)
(* it: FindBlockPos hands out nSize, and a block that is written covers    *)
(* what was at its position.  Undo positions likewise.  All blocks are     *)
(* valid and have different work; which one is activated when is           *)
(* ChainState's matter.  A write that reached the system survives the      *)
(* death of the process; loss of power is not modelled.                    *)
(***************************************************************************)
EXTENDS Naturals, FiniteSets

CONSTANTS
    Blocks, Genesis,
    Parent, Ancestors, Height, Work,   \* the block tree, as in ChainState
    None,
    Slots,        \* bound on the positions of the block file and of the undo file
    EarlyDeath,   \* the process may die before file information with a block is on disk
    MaxDeaths,    \* bound on the deaths of the process
    MaxErrors     \* bound on the writes of FlushStateToDisk that fail

ASSUME StoreAssumption ==
    /\ IsFiniteSet(Blocks) /\ Genesis \in Blocks /\ \A b \in Blocks : Genesis \in Ancestors[b]
    /\ Parent \in [Blocks -> Blocks] /\ Ancestors \in [Blocks -> SUBSET Blocks]
    /\ Height \in [Blocks -> Nat] /\ Work \in [Blocks -> Nat]
    /\ Ancestors[Genesis] = {Genesis} /\ Height[Genesis] = 0
    /\ \A b \in Blocks \ {Genesis} :
          /\ Ancestors[b] = {b} \cup Ancestors[Parent[b]] /\ b \notin Ancestors[Parent[b]]
          /\ Height[b] = Height[Parent[b]] + 1
          /\ Work[b] > Work[Parent[b]]
    /\ \A a, b \in Blocks : Work[a] = Work[b] => a = b
    /\ None \notin Nat \cup Blocks
    /\ Slots \in Nat \ {0} /\ MaxDeaths \in Nat /\ MaxErrors \in Nat
    /\ EarlyDeath \in BOOLEAN

Larger(m, n) == IF m < n THEN n ELSE m
Pos == 0..(Slots - 1)
\* CBlockFileInfo: nSize, nUndoSize, nHeightLast
FileInfo == [size : 0..Slots, undo : 0..Slots, heightLast : Nat]
Index == [Blocks -> Pos \cup {None}]

VARIABLES
    \* on disk
    blk, rev,            \* the block whose bytes, whose undo data lie at a position
    dInfo,               \* the file information
    dData, dUndo,        \* nDataPos and nUndoPos of the entries; None: not there
    dCoins,              \* the best block of the coin database
    shutdown,            \* the flag "shutdown"
    \* in memory
    data, undo,          \* mapBlockIndex; an entry has data, or is not there
    info, infoDirty,     \* vinfoBlockFile[0], setDirtyFileInfo
    dirty,               \* setDirtyBlockIndex
    tip, coins,          \* chainActive.Tip(), pcoinsTip->GetBestBlock()
    highest,             \* in the repair: the last block of vSortedByHeight
    \* control
    pc,                  \* running, in a flush, or down
    then,                \* what the caller of FlushStateToDisk goes on with
    fault,               \* what is wrong with this start, or ended the last one
    deaths, errors,
    resized              \* history: a repair has recomputed the file information

disk == <<blk, rev, dInfo, dData, dUndo, dCoins, shutdown>>
memory == <<data, undo, info, infoDirty, dirty, tip, coins, highest>>
control == <<pc, then, fault, deaths, errors, resized>>
vars == <<disk, memory, control>>

Flushing == {"info", "index", "coins", "flag"}

TypeOK ==
    /\ blk \in [Pos -> Blocks \cup {None}] /\ rev \in [Pos -> Blocks \cup {None}]
    /\ dInfo \in FileInfo /\ info \in FileInfo
    /\ dData \in Index /\ dUndo \in Index /\ data \in Index /\ undo \in Index
    /\ dCoins \in Blocks /\ tip \in Blocks /\ coins \in Blocks
    /\ highest \in Blocks \cup {None}
    /\ dirty \subseteq Blocks
    /\ shutdown \in BOOLEAN /\ infoDirty \in BOOLEAN
    /\ pc \in {"run", "start", "down"} \cup Flushing
    /\ then \in {"none", "tip", "repaired", "down"}
    /\ fault \in {"none", "assert", "range", "mismatch", "torn"}
    /\ deaths \in 0..MaxDeaths /\ errors \in 0..MaxErrors /\ resized \in BOOLEAN

-----------------------------------------------------------------------------
\* ReadBlockFromDisk finds the block of the index entry.
Readable(b) == data[b] # None /\ blk[data[b]] = b

\* nChainTx # 0, and what FindMostWorkChain returns.
Linked(b) == \A a \in Ancestors[b] : data[a] # None
IsMostWork(b) == Linked(b) /\ \A c \in Blocks : Linked(c) => Work[c] <= Work[b]

\* The node after its first start: InitBlockIndex stored and flushed the genesis
\* block, which has no undo data.
AtGenesis == [b \in Blocks |-> IF b = Genesis THEN 0 ELSE None]
NoUndo == [b \in Blocks |-> None]
Init ==
    /\ blk = [p \in Pos |-> IF p = 0 THEN Genesis ELSE None]
    /\ rev = [p \in Pos |-> None]
    /\ info = [size |-> 1, undo |-> 0, heightLast |-> 0] /\ dInfo = info
    /\ data = AtGenesis /\ dData = AtGenesis
    /\ undo = NoUndo /\ dUndo = NoUndo
    /\ tip = Genesis /\ coins = Genesis /\ dCoins = Genesis
    /\ infoDirty = FALSE /\ dirty = {} /\ highest = None
    /\ shutdown = FALSE
    /\ pc = "run" /\ then = "none" /\ fault = "none" /\ deaths = 0 /\ errors = 0
    /\ resized = FALSE

\* AcceptBlock: FindBlockPos, WriteBlockToDisk, AddToBlockIndex and
\* ReceivedBlockTransactions.
AcceptBlock(b) ==
    /\ pc = "run"
    /\ data[b] = None /\ data[Parent[b]] # None
    /\ info.size < Slots
    /\ blk' = [blk EXCEPT ![info.size] = b]
    /\ data' = [data EXCEPT ![b] = info.size]
    /\ info' = [info EXCEPT !.size = @ + 1,
                            !.heightLast = Larger(@, Height[b])]
    /\ infoDirty' = TRUE /\ dirty' = dirty \cup {b}
    /\ UNCHANGED <<rev, dInfo, dData, dUndo, dCoins, shutdown>>
    /\ UNCHANGED <<undo, tip, coins, highest, control>>

\* FlushStateToDisk is called; it goes on with t when it is done.
FlushThen(t) == pc' = "info" /\ then' = t /\ UNCHANGED <<fault, deaths, errors, resized>>

\* Variant: setDirtyBlockIndex is forgotten.
ConnectBlockClean(b) ==
    /\ dData' = [dData EXCEPT ![b] = data[b]]
    /\ dUndo' = [dUndo EXCEPT ![b] = undo[b]]
    /\ IF undo[b] = None
       THEN /\ info.undo < Slots
            /\ rev' = [rev EXCEPT ![info.undo] = b]
            /\ undo' = [undo EXCEPT ![b] = info.undo]
            /\ info' = [info EXCEPT !.undo = @ + 1]
            /\ infoDirty' = TRUE /\ UNCHANGED dirty
       ELSE UNCHANGED <<rev, undo, info, infoDirty, dirty>>

\* ConnectBlock writes the entry as it stands, before it has undo data, then the
\* undo data, unless the block was connected before.  (Dying between the two leaves
\* the same as dying after them: no entry on disk refers to the undo data.)
ConnectBlock(b) ==
    /\ dData' = [dData EXCEPT ![b] = data[b]]
    /\ dUndo' = [dUndo EXCEPT ![b] = undo[b]]
    /\ IF undo[b] = None
       THEN /\ info.undo < Slots
            /\ rev' = [rev EXCEPT ![info.undo] = b]
            /\ undo' = [undo EXCEPT ![b] = info.undo]
            /\ info' = [info EXCEPT !.undo = @ + 1]
            /\ infoDirty' = TRUE /\ dirty' = dirty \cup {b}
       ELSE UNCHANGED <<rev, undo, info, infoDirty, dirty>>

\* ActivateBestChainStep, in the running node or in the repair of a start: what is
\* between the tip and the most work, as far as it can be read.
CanConnect(b) ==
    /\ b # Genesis /\ Parent[b] = tip /\ Readable(b)
    /\ \E m \in Blocks : IsMostWork(m) /\ b \in Ancestors[m]
\* DisconnectTip reads the block, compares the coins, and then reads the undo data.
CanDisconnect ==
    /\ \E m \in Blocks : IsMostWork(m) /\ tip \notin Ancestors[m]
    /\ Readable(tip)
    /\ tip = coins => undo[tip] # None /\ rev[undo[tip]] = tip
CanStep == CanDisconnect \/ \E b \in Blocks : CanConnect(b)

\* Once ProcessNewBlock has returned, the repair connects no more.
Activating == pc \in {"run", "start"} /\ then # "repaired"

\* ConnectTip: the view is flushed into pcoinsTip, and the chain state to disk if
\* the cache is too large; only then the tip moves.
ConnectTip(b) ==
    /\ Activating /\ tip = coins
    /\ CanConnect(b)
    /\ ConnectBlock(b)
    /\ coins' = b
    /\ \/ tip' = b /\ UNCHANGED control
       \/ UNCHANGED tip /\ FlushThen("tip")
    /\ UNCHANGED <<blk, dInfo, dCoins, shutdown, data, highest>>

\* Variant: written only if needed, as in ConnectTip.
DisconnectTipIfNeeded ==
    /\ Activating /\ tip = coins
    /\ CanDisconnect
    /\ coins' = Parent[tip]
    /\ \/ tip' = Parent[tip] /\ UNCHANGED control
       \/ UNCHANGED tip /\ FlushThen("tip")
    /\ UNCHANGED <<disk, data, undo, info, infoDirty, dirty, highest>>

\* DisconnectTip reads the block and its undo data, and always writes.
DisconnectTip ==
    /\ Activating /\ tip = coins
    /\ CanDisconnect
    /\ coins' = Parent[tip]
    /\ FlushThen("tip")
    /\ UNCHANGED <<disk, data, undo, info, infoDirty, dirty, tip, highest>>

-----------------------------------------------------------------------------
\* FlushStateToDisk

\* The periodic one at the end of ActivateBestChain, also in the repair of a start.
Flush ==
    /\ Activating
    /\ FlushThen("none")
    /\ UNCHANGED <<disk, memory>>

\* Shutdown calls it, and writes the flag whatever it returned.
Shutdown ==
    /\ pc = "run" /\ FlushThen("down")
    /\ UNCHANGED <<disk, memory>>

WriteBlockFileInfo ==
    /\ pc = "info" /\ pc' = "index"
    /\ dInfo' = IF infoDirty THEN info ELSE dInfo
    /\ infoDirty' = FALSE
    /\ UNCHANGED <<blk, rev, dData, dUndo, dCoins, shutdown>>
    /\ UNCHANGED <<data, undo, info, dirty, tip, coins, highest, then, fault, deaths, errors, resized>>

\* setDirtyBlockIndex is ordered by address.
WriteBlockIndex(b) ==
    /\ pc = "index" /\ b \in dirty
    /\ dData' = [dData EXCEPT ![b] = data[b]]
    /\ dUndo' = [dUndo EXCEPT ![b] = undo[b]]
    /\ dirty' = dirty \ {b}
    /\ UNCHANGED <<blk, rev, dInfo, dCoins, shutdown>>
    /\ UNCHANGED <<data, undo, info, infoDirty, tip, coins, highest, control>>

\* Variant: the coins are written while entries are still dirty.
SyncEarly ==
    /\ pc = "index" /\ pc' = "coins"
    /\ UNCHANGED <<disk, memory, then, fault, deaths, errors, resized>>

Sync ==
    /\ pc = "index" /\ dirty = {} /\ pc' = "coins"
    /\ UNCHANGED <<disk, memory, then, fault, deaths, errors, resized>>

\* pcoinsTip->Flush(), and the rest of the caller: UpdateTip, the end of
\* LoadBlockIndexDB, or the flag.
FlushCoins ==
    /\ pc = "coins"
    /\ dCoins' = coins
    /\ pc' = IF then = "down" THEN "flag" ELSE IF highest # None THEN "start" ELSE "run"
    /\ tip' = IF then = "tip" THEN coins ELSE tip
    /\ UNCHANGED <<blk, rev, dInfo, dData, dUndo, shutdown>>
    /\ UNCHANGED <<data, undo, info, infoDirty, dirty, coins, highest, then, fault, deaths, errors, resized>>

\* A write fails, or there is no space left: the caller returns false, the node
\* is asked to stop, and the tip is not moved.  (Not in the repair of a start.)
FlushFails ==
    /\ pc \in {"info", "index", "coins"} /\ highest = None
    /\ errors < MaxErrors /\ errors' = errors + 1
    /\ pc' = IF then = "down" THEN "flag" ELSE "run"
    /\ then' = IF then = "down" THEN then ELSE "none"
    /\ UNCHANGED <<disk, memory, fault, deaths, resized>>

\* The process is gone, and with it all that was in memory.
Gone ==
    /\ pc' = "down" /\ then' = "none"
    /\ data' = NoUndo /\ undo' = NoUndo /\ dirty' = {} /\ infoDirty' = FALSE
    /\ info' = dInfo /\ tip' = dCoins /\ coins' = dCoins /\ highest' = None

WriteShutdownFlag ==
    /\ pc = "flag" /\ shutdown' = TRUE
    /\ UNCHANGED <<blk, rev, dInfo, dData, dUndo, dCoins>>
    /\ Gone /\ UNCHANGED <<fault, deaths, errors, resized>>

Die ==
    /\ pc # "down"
    /\ EarlyDeath \/ dInfo.heightLast # 0
    /\ deaths < MaxDeaths /\ deaths' = deaths + 1
    /\ Gone
    /\ UNCHANGED <<disk, fault, errors, resized>>

-----------------------------------------------------------------------------
\* LoadBlockIndexDB

Stored == {b \in Blocks : dData[b] # None}

\* Entries are linked to their parents by InsertBlockIndex, which makes an empty
\* entry for a parent that was not written.
ParentClosed == \A b \in Stored : Parent[b] \in Stored

\* Variant: one entry too many is let pass.
InconsistentByMore ==
    ~shutdown /\ Cardinality(Stored) > dInfo.heightLast + 2 /\ dInfo.heightLast # 0

\* "Check for inconsistency with block file info and internal state"
Inconsistent ==
    ~shutdown /\ Cardinality(Stored) # dInfo.heightLast + 1 /\ dInfo.heightLast # 0

Loaded ==
    /\ data' = dData /\ undo' = dUndo /\ info' = dInfo
    /\ infoDirty' = FALSE /\ dirty' = {} /\ coins' = dCoins

StartFails(why) ==
    /\ fault' = why
    /\ Gone
    /\ UNCHANGED <<disk, deaths, errors, resized>>

\* What was written of a branch lacks a parent.  The code goes on with a blank entry
\* for it, of height 0 and without data; the model ends this start instead.
StartTorn == pc = "down" /\ ~ParentClosed /\ StartFails("torn")

Start ==
    /\ pc = "down" /\ ParentClosed /\ ~Inconsistent
    /\ Loaded
    /\ tip' = dCoins /\ highest' = None
    /\ shutdown' = FALSE
    /\ pc' = "run" /\ then' = "none" /\ fault' = "none"
    /\ UNCHANGED <<blk, rev, dInfo, dData, dUndo, dCoins, deaths, errors, resized>>

\* vSortedByHeight, in one of the orders that addresses may give.
SortedByHeight ==
    {s \in [1..Cardinality(Stored) -> Stored] :
        \A i, j \in DOMAIN s : i < j => s[i] # s[j] /\ Height[s[i]] <= Height[s[j]]}

\* The loop over it ends at i: the first entry after the last recorded height that is
\* higher than the coins, or the last of all.
LastMeta(s, i) ==
    /\ i = Cardinality(Stored) \/ Height[s[i]] > Height[dCoins]
    /\ \A j \in (dInfo.heightLast + 2)..(i - 1) : Height[s[j]] <= Height[dCoins]

\* vSortedByHeight is read beyond its end, and what is found there used as an entry:
\* taken to end the process.
StartOutOfRange ==
    /\ pc = "down" /\ ParentClosed /\ Inconsistent
    /\ dInfo.heightLast + 1 >= Cardinality(Stored)
    /\ StartFails("range")

\* The file information is recomputed from the highest block, and written.  Another
\* block at its position counts as well, what cannot be read for nothing.
SizedBy(h, i) ==
    {[i EXCEPT !.heightLast = Height[h], !.size = dData[h] + n] :
        n \in IF blk[dData[h]] = h THEN {1} ELSE {0, 1}}

\* ProcessNewBlock with the block c that was read at position p: it is there already,
\* or it is another one, whose entry was lost and is made again.
Reprocess(c, p) ==
    /\ pc' = "start" /\ then' = "none" /\ UNCHANGED resized
    /\ \/ c \in Stored /\ data' = dData /\ info' = dInfo /\ infoDirty' = FALSE /\ dirty' = {}
       \/ /\ c \notin Stored /\ Parent[c] \in Stored
          /\ data' = [dData EXCEPT ![c] = p] /\ dirty' = {c}
          /\ info' = [dInfo EXCEPT !.size = Larger(@, p + 1), !.heightLast = Larger(@, Height[c])]
          /\ infoDirty' = TRUE

\* ProcessNewBlock returns before it activates anything: the bytes are no block any
\* more, or one without a known parent.
Unprocessed(h) ==
    /\ pc' = "info" /\ then' = "repaired" /\ resized' = TRUE
    /\ info' \in SizedBy(h, dInfo) /\ infoDirty' = TRUE
    /\ data' = dData /\ dirty' = {}

\* The chain is set to the block before pindexLastMeta, and the block processed again.
StartRepair ==
    /\ pc = "down" /\ ParentClosed /\ Inconsistent
    /\ dInfo.heightLast + 1 < Cardinality(Stored)
    /\ \E s \in SortedByHeight, i \in (dInfo.heightLast + 2)..Cardinality(Stored) :
          /\ LastMeta(s, i)
          /\ tip' = Parent[s[i]] /\ highest' = s[Cardinality(Stored)]
          /\ fault' = IF blk[dData[s[i]]] = s[i] THEN "none" ELSE "mismatch"
          /\ \/ \E c \in Blocks : blk[dData[s[i]]] = c /\ Reprocess(c, dData[s[i]])
             \/ fault' # "none" /\ Unprocessed(highest')
    /\ undo' = dUndo /\ coins' = dCoins
    /\ UNCHANGED <<disk, deaths, errors>>

\* "assert(hashPrevBlock == view.GetBestBlock())", or that of DisconnectBlock.
StartAsserts ==
    /\ pc = "start" /\ Activating /\ tip # coins /\ CanStep
    /\ StartFails("assert")

\* Nothing is left to activate, or a block or undo data cannot be read.  What is not
\* "as it should be" is remembered, and the file information written all the same.
RepairInfo ==
    /\ pc = "start" /\ Activating /\ ~CanStep
    /\ fault' = IF coins = highest /\ blk[dData[highest]] = highest THEN fault ELSE "mismatch"
    /\ info' \in SizedBy(highest, info) /\ infoDirty' = TRUE
    /\ pc' = "info" /\ then' = "repaired" /\ resized' = TRUE
    /\ UNCHANGED <<disk, data, undo, dirty, tip, coins, highest, deaths, errors>>

\* "The block database is in an inconsistent state"
StartMismatch ==
    /\ pc = "start" /\ then = "repaired" /\ fault # "none"
    /\ StartFails("mismatch")

StartRepaired ==
    /\ pc = "start" /\ then = "repaired" /\ fault = "none"
    /\ tip' = coins /\ highest' = None
    /\ shutdown' = FALSE
    /\ pc' = "run" /\ then' = "none"
    /\ UNCHANGED <<blk, rev, dInfo, dData, dUndo, dCoins>>
    /\ UNCHANGED <<data, undo, info, infoDirty, dirty, coins, fault, deaths, errors, resized>>

-----------------------------------------------------------------------------
Next ==
    \/ \E b \in Blocks : AcceptBlock(b) \/ ConnectTip(b) \/ WriteBlockIndex(b)
    \/ DisconnectTip
    \/ Flush \/ Shutdown \/ WriteBlockFileInfo \/ Sync \/ FlushCoins \/ FlushFails
    \/ WriteShutdownFlag \/ Die
    \/ Start \/ StartTorn \/ StartOutOfRange \/ StartRepair \/ StartAsserts
    \/ RepairInfo \/ StartMismatch \/ StartRepaired

Spec == Init /\ [][Next]_vars

-----------------------------------------------------------------------------
\* What is in memory but not on disk is marked dirty, and the dirty file information
\* is written before any entry, and all entries before the coins.
DirtyMarked ==
    pc # "down" =>
        /\ \A b \in Blocks \ dirty : dData[b] = data[b] /\ dUndo[b] = undo[b]
        /\ ~infoDirty => dInfo = info
        /\ pc \in {"index", "coins"} => ~infoDirty
        /\ pc = "coins" => dirty = {}
        /\ \A b \in Blocks : /\ dData[b] # None => data[b] # None
                             /\ dUndo[b] # None => undo[b] # None

\* Undo positions below the one that is handed out next, each holding its block's
\* undo data.  Blocks that could be connected again have theirs below the size on
\* disk, for ConnectBlock writes their entries without it.
UndoAccounted ==
    /\ dInfo.undo <= info.undo
    /\ \A b \in Blocks :
        /\ undo[b] # None => undo[b] < info.undo /\ rev[undo[b]] = b
        /\ dUndo[b] # None => dUndo[b] < dInfo.undo /\ rev[dUndo[b]] = b
        /\ undo[b] # None /\ b \notin Ancestors[tip] \cup Ancestors[coins]
              => undo[b] < dInfo.undo

\* The chain the coins stand for is stored, with its undo data.
CoinsChainStored ==
    pc # "down" =>
        \A a \in Ancestors[coins] : data[a] # None /\ (a # Genesis => undo[a] # None)

(***************************************************************************)
(* Whenever the process dies, the coin database names a block that the     *)
(* block tree database knows with all its ancestors, and all of them have  *)
(* undo data: "Finally flush the chainstate (which may refer to block      *)
(* index entries)".                                                        *)
(***************************************************************************)
ChainstateRecoverable ==
    \A a \in Ancestors[dCoins] : dData[a] # None /\ (a # Genesis => dUndo[a] # None)

\* The repair works on an entry that is on disk.
RepairOfStored ==
    /\ pc = "start" => highest # None /\ (then = "repaired" => ~infoDirty)
    /\ highest # None => dData[highest] # None

Inv ==
    /\ TypeOK /\ DirtyMarked /\ RepairOfStored
    /\ UndoAccounted /\ CoinsChainStored /\ ChainstateRecoverable

\* Undo data that an entry refers to, in memory or on disk, is never covered by
\* that of another block, whatever the file information was at the last start.
UndoIntact ==
    \A b \in Blocks :
        /\ undo[b] # None => rev[undo[b]] = b
        /\ dUndo[b] # None => rev[dUndo[b]] = b

\* "Check for inconsistency with block file info and internal state": the number of
\* entries differs from the recorded height whenever ConnectBlock wrote one that the
\* file information does not cover.  So a node that starts without the repair never
\* writes over a block that an entry on disk refers to, whenever it died, unless a
\* write failed.  Once a repair took the size from the highest block, it may.
StoredBlocksIntact ==
    errors = 0 /\ ~resized => \A b \in Stored : blk[dData[b]] = b

\* "fix Assertion `hashPrevBlock == view.GetBestBlock()' failed"
RepairNeverAsserts == fault # "assert"
=============================================================================
