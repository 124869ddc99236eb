------------------------------ MODULE CoinsCache ------------------------------
(***************************************************************************)
(* The views on the set of unspent outputs (coins.cpp, coins.h, txdb.cpp): *)
(* the coin database CCoinsViewDB, the cache pcoinsTip on top of it, and   *)
(* the short-lived cache on top of pcoinsTip on which ConnectTip and       *)
(* DisconnectTip (main.cpp) apply a block, flushed on success and dropped  *)
(* on failure.  CVerifyDB and CreateNewBlock always drop theirs.           *)
(*                                                                         *)
(* A CCoins is the set of its available outputs; the empty set is a pruned *)
(* one.  A cache maps a txid to an entry with the flags DIRTY and FRESH,   *)
(* or to NoEntry.  All of it runs under cs_main.                           *)
(***************************************************************************)
EXTENDS Naturals

CONSTANTS TxIds, Outs,
          Blocks, NoBlock,    \* NoBlock is the null hash
          NoEntry,
          MaxFailures         \* bound on the failed writes of the coin database

Entries == [coins : SUBSET Outs, dirty : BOOLEAN, fresh : BOOLEAN]

ASSUME CoinsAssumption ==
    /\ NoEntry \notin Entries /\ NoEntry \notin [TxIds -> SUBSET Outs]
    /\ NoBlock \notin Blocks
    /\ MaxFailures \in Nat

VARIABLES
    db, dbBest,        \* the coin database: a map with no pruned entry, and 'B'
    tip, tipBest,      \* pcoinsTip: cacheCoins and hashBlock
    child, childBest,  \* the cache a block is applied to
    open,              \* that cache exists
    stateOf,           \* history: the coins each block was committed with
    failures           \* writes of the database that failed so far

vars == <<db, dbBest, tip, tipBest, child, childBest, open, stateOf, failures>>

CoinsMap == [TxIds -> SUBSET Outs]
EmptyCache == [t \in TxIds |-> NoEntry]
NoCoins == [t \in TxIds |-> {}]

TypeOK ==
    /\ db \in CoinsMap /\ dbBest \in Blocks \cup {NoBlock}
    /\ tip \in [TxIds -> Entries \cup {NoEntry}]
    /\ tipBest \in Blocks \cup {NoBlock}
    /\ child \in [TxIds -> Entries \cup {NoEntry}]
    /\ childBest \in Blocks \cup {NoBlock}
    /\ open \in BOOLEAN
    /\ stateOf \in [Blocks -> CoinsMap \cup {NoEntry}]
    /\ failures \in 0..MaxFailures

-----------------------------------------------------------------------------
\* What a view answers for txid t: its own entry, or what its base answers.
TipView == [t \in TxIds |-> IF tip[t] = NoEntry THEN db[t] ELSE tip[t].coins]
ChildView ==
    [t \in TxIds |-> IF child[t] = NoEntry THEN TipView[t] ELSE child[t].coins]
TipBestBlock == IF tipBest = NoBlock THEN dbBest ELSE tipBest

Entry(c, isDirty, isFresh) == [coins |-> c, dirty |-> isDirty, fresh |-> isFresh]

\* A fresh database; AppInit2 opens pcoinsTip on it.
Init ==
    /\ db = NoCoins /\ dbBest = NoBlock
    /\ tip = EmptyCache /\ tipBest = NoBlock
    /\ child = EmptyCache /\ childBest = NoBlock
    /\ open = FALSE
    /\ stateOf = [b \in Blocks |-> NoEntry]
    /\ failures = 0

(***************************************************************************)
(* CCoinsViewCache::FetchCoins.  The database never answers with a pruned  *)
(* entry, because BatchWriteCoins erases those; a cache may.               *)
(***************************************************************************)
FetchedFrom(c) == Entry(c, FALSE, c = {})

TipFetched(t) ==
    IF tip[t] = NoEntry /\ db[t] # {} THEN FetchedFrom(db[t]) ELSE tip[t]

\* A read through pcoinsTip: GetCoins, AccessCoins or HaveCoins of any caller.
FetchTip(t) ==
    /\ tip' = [tip EXCEPT ![t] = TipFetched(t)]
    /\ UNCHANGED <<db, dbBest, tipBest, child, childBest, open, stateOf, failures>>

\* A read through the child, which pulls the entry into pcoinsTip on its way.
FetchChild(t) ==
    /\ open /\ child[t] = NoEntry
    /\ tip' = [tip EXCEPT ![t] = TipFetched(t)]
    /\ child' = [child EXCEPT ![t] =
                    IF TipFetched(t) = NoEntry THEN NoEntry
                    ELSE FetchedFrom(TipFetched(t).coins)]
    /\ UNCHANGED <<db, dbBest, tipBest, childBest, open, stateOf, failures>>

(***************************************************************************)
(* A block is applied: `CCoinsViewCache view(pcoinsTip)', and the          *)
(* assertion on view.GetBestBlock() with which ConnectBlock and            *)
(* DisconnectBlock start, which caches the answer in both caches.          *)
(***************************************************************************)
Begin ==
    /\ ~open /\ open' = TRUE
    /\ tipBest' = TipBestBlock /\ childBest' = TipBestBlock
    /\ UNCHANGED <<db, dbBest, tip, child, stateOf, failures>>

\* Variant: an entry the base does not have is not marked fresh.
ForModificationNotFresh(t) ==
    IF child[t] # NoEntry THEN child[t]
    ELSE IF TipFetched(t) = NoEntry THEN Entry({}, FALSE, FALSE)
    ELSE FetchedFrom(TipFetched(t).coins)

\* The entry ModifyCoins hands out, before it is modified.
ForModification(t) ==
    IF child[t] # NoEntry THEN child[t]
    ELSE IF TipFetched(t) = NoEntry THEN Entry({}, FALSE, TRUE)
    ELSE FetchedFrom(TipFetched(t).coins)

\* Variant: every pruned entry is dropped, whatever the base has.
ReleasedIfPruned(e) == IF e.coins = {} THEN NoEntry ELSE e

\* ~CCoinsModifier drops an entry that is fresh and pruned.
Released(e) == IF e.fresh /\ e.coins = {} THEN NoEntry ELSE e

\* ModifyCoins(t), the change made through the modifier, and its destructor.
ModifyCoins(t, c) ==
    /\ open
    /\ tip' = [tip EXCEPT ![t] = IF child[t] = NoEntry THEN TipFetched(t) ELSE @]
    /\ child' = [child EXCEPT ![t] = Released(Entry(c, TRUE, ForModification(t).fresh))]
    /\ UNCHANGED <<db, dbBest, tipBest, childBest, open, stateOf, failures>>

\* Variant: a modification also marks the parent's entry as fresh.
MergedFresh(ours, theirs) ==
    IF theirs = NoEntry THEN ours
    ELSE IF ~theirs.dirty THEN ours
    ELSE IF ours = NoEntry
         THEN IF theirs.coins = {} THEN NoEntry ELSE Entry(theirs.coins, TRUE, TRUE)
    ELSE IF ours.fresh /\ theirs.coins = {} THEN NoEntry
    ELSE Entry(theirs.coins, TRUE, TRUE)

(***************************************************************************)
(* CCoinsViewCache::BatchWrite for one txid: ours is pcoinsTip's entry,    *)
(* theirs the child's.                                                     *)
(***************************************************************************)
Merged(ours, theirs) ==
    IF theirs = NoEntry THEN ours
    ELSE IF ~theirs.dirty THEN ours
    ELSE IF ours = NoEntry
         THEN IF theirs.coins = {} THEN NoEntry ELSE Entry(theirs.coins, TRUE, TRUE)
    ELSE IF ours.fresh /\ theirs.coins = {} THEN NoEntry
    ELSE Entry(theirs.coins, TRUE, ours.fresh)

\* SetBestBlock(b) at the end of ConnectBlock or DisconnectBlock, and Flush of
\* the child.  The coins of a block are a function of the block: connecting it
\* twice, or coming back to it by a disconnection, gives the same ones.
FlushChild(b) ==
    /\ open /\ open' = FALSE
    /\ stateOf[b] \in {NoEntry, ChildView}
    /\ tip' = [t \in TxIds |-> Merged(tip[t], child[t])]
    /\ tipBest' = b
    /\ child' = EmptyCache /\ childBest' = NoBlock
    /\ stateOf' = [stateOf EXCEPT ![b] = ChildView]
    /\ UNCHANGED <<db, dbBest, failures>>

\* The block failed to connect, or was only being tested: the view is dropped.
Discard ==
    /\ open /\ open' = FALSE
    /\ child' = EmptyCache /\ childBest' = NoBlock
    /\ UNCHANGED <<db, dbBest, tip, tipBest, stateOf, failures>>

\* CCoinsViewDB::BatchWrite for one txid.
Written(t) == IF tip[t] = NoEntry THEN db[t]
              ELSE IF tip[t].dirty THEN tip[t].coins ELSE db[t]

\* Variant: the coins are written without the best block.
FlushTipKeepsBest ==
    /\ ~open
    /\ db' = [t \in TxIds |-> Written(t)]
    /\ tip' = EmptyCache
    /\ UNCHANGED <<dbBest, tipBest, child, childBest, open, stateOf, failures>>

\* pcoinsTip->Flush() in FlushStateToDisk: one atomic batch of the database.
FlushTip ==
    /\ ~open
    /\ db' = [t \in TxIds |-> Written(t)]
    /\ dbBest' = TipBestBlock
    /\ tip' = EmptyCache
    /\ UNCHANGED <<tipBest, child, childBest, open, stateOf, failures>>

\* The same when WriteBatch throws: BatchWrite has emptied the cache by then,
\* hashBlock stays.  FlushStateToDisk turns it into AbortNode, that is
\* StartShutdown, and Shutdown flushes once more.
FlushTipFails ==
    /\ ~open /\ failures < MaxFailures
    /\ failures' = failures + 1
    /\ tip' = EmptyCache
    /\ UNCHANGED <<db, dbBest, tipBest, child, childBest, open, stateOf>>

\* The process ends at any moment without flushing, and starts again.
Crash ==
    /\ tip' = EmptyCache /\ tipBest' = NoBlock
    /\ child' = EmptyCache /\ childBest' = NoBlock
    /\ open' = FALSE
    /\ UNCHANGED <<db, dbBest, stateOf, failures>>

Next ==
    \/ \E t \in TxIds :
          \/ FetchTip(t) \/ FetchChild(t)
          \/ \E c \in SUBSET Outs : ModifyCoins(t, c)
    \/ Begin \/ Discard
    \/ \E b \in Blocks : FlushChild(b)
    \/ FlushTip \/ FlushTipFails \/ Crash

Spec == Init /\ [][Next]_vars

-----------------------------------------------------------------------------
\* The meaning of the flags of one cache entry over what its base answers
\* (CCoinsCacheEntry): an entry that is not DIRTY equals the base, and the
\* base has nothing where an entry is FRESH.
FlagsMean(e, base) ==
    /\ ~e.dirty => e.coins = base
    /\ e.fresh => base = {}

\* The flags of pcoinsTip and of the child are right after any mixture of
\* reads, modifications, flushes and failed writes.
FlagsSound ==
    \A t \in TxIds :
        /\ tip[t] # NoEntry => FlagsMean(tip[t], db[t])
        /\ child[t] # NoEntry => FlagsMean(child[t], TipView[t])

\* BatchWrite's assertion: an unspent entry the child adds to a parent that
\* has none is FRESH, because the first read pulls the parent's entry in.
BatchWriteAssertion ==
    \A t \in TxIds :
        child[t] # NoEntry /\ tip[t] = NoEntry => child[t].fresh

\* GetBestBlock of the database, and of pcoinsTip over it, names the block
\* whose state the view represents.
BestBlockNamesState ==
    /\ dbBest = NoBlock => db = NoCoins
    /\ dbBest # NoBlock => db = stateOf[dbBest]

TipBestBlockNamesState ==
    /\ TipBestBlock = NoBlock => TipView = NoCoins
    /\ TipBestBlock # NoBlock => TipView = stateOf[TipBestBlock]

\* The caches are invisible: the stack implements the plain views of UtxoView,
\* and all that a failed write does is what UtxoView says of it.
Plain == INSTANCE UtxoView WITH
    durable   <- [coins |-> db, best |-> dbBest],
    committed <- [coins |-> TipView, best |-> TipBestBlock],
    scratch   <- [coins |-> ChildView,
                  best  |-> IF open THEN childBest ELSE TipBestBlock],
    busy      <- open

ImplementsUtxoView == Plain!Spec

\* A modification is what the block's view answers from then on, and changes
\* no other answer: none is lost in the shortcuts for fresh entries.
ModificationsTakeEffect ==
    [][\A t \in TxIds, c \in SUBSET Outs :
          ModifyCoins(t, c) => ChildView' = [ChildView EXCEPT ![t] = c]]_vars

\* The inductive invariant; its last part holds while no write has failed.
ClosedIsEmpty == ~open => child = EmptyCache
ChildBest == open => childBest = TipBestBlock

Inv ==
    /\ TypeOK /\ FlagsSound /\ BatchWriteAssertion /\ ClosedIsEmpty /\ ChildBest
    /\ failures = 0 => BestBlockNamesState /\ TipBestBlockNamesState
=============================================================================
