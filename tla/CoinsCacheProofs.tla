--------------------------- MODULE CoinsCacheProofs ---------------------------
(***************************************************************************)
(* Proofs about CoinsCache, for every set of transactions, outputs and     *)
(* blocks, and any number of failed database writes.                       *)
(***************************************************************************)
EXTENDS CoinsCache, TLAPS

\* A fetched entry is well typed and its flags are right over what it copies.
LEMMA FetchLemma ==
    ASSUME NEW c \in SUBSET Outs
    PROVE  /\ FetchedFrom(c) \in Entries
           /\ FetchedFrom(c) # NoEntry
           /\ FetchedFrom(c).coins = c
           /\ FetchedFrom(c).dirty = FALSE
           /\ FetchedFrom(c).fresh = (c = {})
<1>1. FetchedFrom(c) \in Entries
  BY DEF FetchedFrom, Entry, Entries
<1>2. FetchedFrom(c) # NoEntry
  BY <1>1, CoinsAssumption DEF CoinsAssumption
<1>3. /\ FetchedFrom(c).coins = c
      /\ FetchedFrom(c).dirty = FALSE
      /\ FetchedFrom(c).fresh = (c = {})
  BY DEF FetchedFrom, Entry
<1> QED
  BY <1>1, <1>2, <1>3

\* Reading through pcoinsTip never changes what it answers and keeps its
\* flags right.
LEMMA TipFetchLemma ==
    ASSUME TypeOK, FlagsSound, NEW t \in TxIds
    PROVE  /\ TipFetched(t) \in Entries \cup {NoEntry}
           /\ TipFetched(t) # NoEntry => FlagsMean(TipFetched(t), db[t])
           /\ TipFetched(t) # NoEntry => TipFetched(t).coins = TipView[t]
           /\ TipFetched(t) = NoEntry => TipView[t] = {}
           /\ tip[t] # NoEntry => TipFetched(t) = tip[t]
<1>1. db[t] \in SUBSET Outs
  BY DEF TypeOK, CoinsMap
<1>2. CASE tip[t] = NoEntry /\ db[t] # {}
  BY <1>1, <1>2, FetchLemma DEF TipFetched, FlagsMean, TipView
<1>3. CASE ~(tip[t] = NoEntry /\ db[t] # {})
  BY <1>1, <1>3 DEF TipFetched, FlagsMean, TipView, TypeOK, FlagsSound
<1> QED
  BY <1>2, <1>3

\* Any step that only pulls the entry of t into pcoinsTip.
LEMMA PullLemma ==
    ASSUME TypeOK, FlagsSound, NEW t \in TxIds,
           tip' = [tip EXCEPT ![t] = TipFetched(t)], UNCHANGED db
    PROVE  /\ tip' \in [TxIds -> Entries \cup {NoEntry}]
           /\ TipView' = TipView
           /\ \A u \in TxIds : tip'[u] # NoEntry => FlagsMean(tip'[u], db'[u])
           /\ \A u \in TxIds : tip[u] # NoEntry => tip'[u] = tip[u]
<1> USE TipFetchLemma
<1>1. tip' \in [TxIds -> Entries \cup {NoEntry}]
  BY DEF TypeOK
<1>2. \A u \in TxIds : tip[u] # NoEntry => tip'[u] = tip[u]
  BY DEF TypeOK
<1>3. \A u \in TxIds : tip'[u] # NoEntry => FlagsMean(tip'[u], db'[u])
  BY DEF TypeOK, FlagsSound
<1>4. \A u \in TxIds : TipView'[u] = TipView[u]
  <2> TAKE u \in TxIds
  <2>1. CASE u = t
    BY <2>1 DEF TipView, TypeOK, TipFetched
  <2>2. CASE u # t
    BY <2>2 DEF TipView, TypeOK
  <2> QED BY <2>1, <2>2
<1>5. TipView' = TipView
  BY <1>4 DEF TipView
<1> QED
  BY <1>1, <1>2, <1>3, <1>5

\* NoEntry is no entry, so an entry that was built is never mistaken for it.
LEMMA EntryLemma ==
    ASSUME NEW c \in SUBSET Outs, NEW d \in BOOLEAN, NEW f \in BOOLEAN
    PROVE  /\ Entry(c, d, f) \in Entries
           /\ Entry(c, d, f) # NoEntry
           /\ Entry(c, d, f).coins = c
           /\ Entry(c, d, f).dirty = d
           /\ Entry(c, d, f).fresh = f
<1>1. Entry(c, d, f) \in Entries
  BY DEF Entry, Entries
<1>2. Entry(c, d, f) # NoEntry
  BY <1>1, CoinsAssumption DEF CoinsAssumption
<1> QED
  BY <1>1, <1>2 DEF Entry

\* A merge gives pcoinsTip what the child answered, with flags right over the
\* database: this is where BatchWrite's shortcuts for fresh entries are sound.
LEMMA MergeLemma ==
    ASSUME TypeOK, FlagsSound, BatchWriteAssertion, NEW t \in TxIds
    PROVE  /\ Merged(tip[t], child[t]) \in Entries \cup {NoEntry}
           /\ Merged(tip[t], child[t]) # NoEntry =>
                 /\ FlagsMean(Merged(tip[t], child[t]), db[t])
                 /\ Merged(tip[t], child[t]).coins = ChildView[t]
           /\ Merged(tip[t], child[t]) = NoEntry => db[t] = ChildView[t]
<1>1. /\ tip[t] # NoEntry => tip[t] \in Entries /\ FlagsMean(tip[t], db[t])
      /\ child[t] # NoEntry => child[t] \in Entries /\ FlagsMean(child[t], TipView[t])
      /\ child[t] # NoEntry /\ tip[t] = NoEntry => child[t].fresh
      /\ tip[t] \in Entries \cup {NoEntry}
      /\ db[t] \in SUBSET Outs
      /\ TipView[t] = IF tip[t] = NoEntry THEN db[t] ELSE tip[t].coins
      /\ ChildView[t] = IF child[t] = NoEntry THEN TipView[t] ELSE child[t].coins
  BY DEF TypeOK, FlagsSound, BatchWriteAssertion, TipView, ChildView, CoinsMap
<1>2. CASE child[t] = NoEntry
  BY <1>1, <1>2 DEF Merged
<1>3. CASE child[t] # NoEntry /\ ~child[t].dirty
  BY <1>1, <1>3 DEF Merged, FlagsMean
<1>4. CASE child[t] # NoEntry /\ child[t].dirty
  <2>1. child[t].coins \in SUBSET Outs /\ child[t] \in Entries
    BY <1>1, <1>4 DEF Entries
  <2>2. CASE tip[t] = NoEntry /\ child[t].coins = {}
    BY <1>1, <1>4, <2>2 DEF Merged, FlagsMean
  <2>3. CASE tip[t] = NoEntry /\ child[t].coins # {}
    <3>1. Merged(tip[t], child[t]) = Entry(child[t].coins, TRUE, TRUE)
      BY <1>4, <2>3 DEF Merged
    <3>2. db[t] = {}
      BY <1>1, <1>4, <2>3 DEF FlagsMean
    <3> QED
      BY <1>1, <1>4, <2>1, <3>1, <3>2, EntryLemma DEF FlagsMean
  <2>4. CASE tip[t] # NoEntry /\ tip[t].fresh /\ child[t].coins = {}
    BY <1>1, <1>4, <2>4 DEF Merged, FlagsMean
  <2>5. CASE tip[t] # NoEntry /\ ~(tip[t].fresh /\ child[t].coins = {})
    <3>1. Merged(tip[t], child[t]) = Entry(child[t].coins, TRUE, tip[t].fresh)
      BY <1>4, <2>5 DEF Merged
    <3>2. tip[t].fresh \in BOOLEAN
      BY <1>1, <2>5 DEF Entries
    <3>3. /\ Merged(tip[t], child[t]) \in Entries
          /\ Merged(tip[t], child[t]) # NoEntry
          /\ Merged(tip[t], child[t]).coins = child[t].coins
          /\ Merged(tip[t], child[t]).dirty = TRUE
          /\ Merged(tip[t], child[t]).fresh = tip[t].fresh
      <4>1. CASE tip[t].fresh = TRUE
        <5>1. Merged(tip[t], child[t]) = Entry(child[t].coins, TRUE, TRUE)
          BY <3>1, <4>1, Zenon
        <5> QED
          BY <2>1, <4>1, <5>1, EntryLemma
      <4>2. CASE tip[t].fresh = FALSE
        <5>1. Merged(tip[t], child[t]) = Entry(child[t].coins, TRUE, FALSE)
          BY <3>1, <4>2, Zenon
        <5> QED
          BY <2>1, <4>2, <5>1, EntryLemma
      <4> QED BY <3>2, <4>1, <4>2
    <3>4. ChildView[t] = child[t].coins
      BY <1>1, <1>4
    <3>5. tip[t].fresh => db[t] = {}
      BY <1>1, <2>5 DEF FlagsMean
    <3> QED
      BY <3>3, <3>4, <3>5 DEF FlagsMean
  <2> QED
    BY <2>2, <2>3, <2>4, <2>5
<1> QED
  BY <1>2, <1>3, <1>4

\* A flush of pcoinsTip writes exactly what pcoinsTip answered.
LEMMA WriteLemma ==
    ASSUME TypeOK, FlagsSound
    PROVE  [t \in TxIds |-> Written(t)] = TipView
BY DEF TypeOK, FlagsSound, FlagsMean, Written, TipView

-----------------------------------------------------------------------------
(***************************************************************************)
(* The invariant is inductive: one lemma per kind of step.                 *)
(***************************************************************************)
LEMMA InitInv == Init => Inv
<1> SUFFICES ASSUME Init PROVE Inv
  OBVIOUS
<1> USE CoinsAssumption DEF CoinsAssumption, Init
<1>1. TypeOK
  <2>1. db \in CoinsMap
    BY DEF CoinsMap, NoCoins
  <2>2. tip \in [TxIds -> Entries \cup {NoEntry}]
        /\ child \in [TxIds -> Entries \cup {NoEntry}]
    BY DEF EmptyCache
  <2>3. stateOf \in [Blocks -> CoinsMap \cup {NoEntry}]
    OBVIOUS
  <2>4. failures \in 0..MaxFailures
    OBVIOUS
  <2> QED
    BY <2>1, <2>2, <2>3, <2>4 DEF TypeOK
<1>2. \A t \in TxIds : tip[t] = NoEntry /\ child[t] = NoEntry
  BY DEF EmptyCache
<1>3. TipView = NoCoins
  BY <1>2 DEF TipView, NoCoins
<1> QED
  BY <1>1, <1>2, <1>3 DEF Inv, FlagsSound, BatchWriteAssertion, ClosedIsEmpty,
     ChildBest, BestBlockNamesState, TipBestBlockNamesState, TipBestBlock

\* Reads and modifications: pcoinsTip answers what it answered, and the child
\* changes at most at t, to an entry with right flags.
LEMMA ReadStep ==
    ASSUME Inv, NEW t \in TxIds,
           \/ tip' = [tip EXCEPT ![t] = TipFetched(t)]
           \/ tip' = tip,
           NEW e \in Entries \cup {NoEntry},
           child' = [child EXCEPT ![t] = e],
           e # NoEntry => /\ FlagsMean(e, TipView[t])
                          /\ tip'[t] = NoEntry => e.fresh,
           ~open => e = NoEntry,
           UNCHANGED <<db, dbBest, tipBest, childBest, open, stateOf, failures>>
    PROVE  Inv'
<1> USE DEF Inv
<1>1. /\ tip' \in [TxIds -> Entries \cup {NoEntry}]
      /\ TipView' = TipView
      /\ \A u \in TxIds : tip'[u] # NoEntry => FlagsMean(tip'[u], db'[u])
      /\ \A u \in TxIds : tip[u] # NoEntry => tip'[u] = tip[u]
  <2>1. CASE tip' = [tip EXCEPT ![t] = TipFetched(t)]
    BY <2>1, PullLemma
  <2>2. CASE tip' = tip
    BY <2>2 DEF TypeOK, FlagsSound, TipView
  <2> QED BY <2>1, <2>2
<1>2. child' \in [TxIds -> Entries \cup {NoEntry}]
  BY DEF TypeOK
<1>3. TypeOK'
  BY <1>1, <1>2 DEF TypeOK, CoinsMap
<1>4. FlagsSound'
  <2> SUFFICES ASSUME NEW u \in TxIds, child'[u] # NoEntry
               PROVE  FlagsMean(child'[u], TipView'[u])
    BY <1>1 DEF FlagsSound
  <2>1. CASE u = t
    BY <1>1, <2>1 DEF TypeOK
  <2>2. CASE u # t
    BY <1>1, <2>2 DEF TypeOK, FlagsSound
  <2> QED BY <2>1, <2>2
<1>5. BatchWriteAssertion'
  BY <1>1 DEF BatchWriteAssertion, TypeOK
<1>6. ClosedIsEmpty'
  BY DEF ClosedIsEmpty, EmptyCache, TypeOK
<1>7. ChildBest' /\ (failures = 0 => BestBlockNamesState /\ TipBestBlockNamesState)'
  BY <1>1 DEF ChildBest, BestBlockNamesState, TipBestBlockNamesState, TipBestBlock, NoCoins
<1> QED
  BY <1>3, <1>4, <1>5, <1>6, <1>7

LEMMA FetchTipStep == ASSUME Inv, NEW t \in TxIds, FetchTip(t) PROVE Inv'
<1>1. child' = [child EXCEPT ![t] = child[t]] /\ child[t] \in Entries \cup {NoEntry}
  BY DEF FetchTip, Inv, TypeOK
<1>2. tip[t] # NoEntry => tip'[t] # NoEntry
  BY TipFetchLemma DEF FetchTip, Inv, TypeOK
<1>3. child[t] # NoEntry => /\ FlagsMean(child[t], TipView[t])
                            /\ tip'[t] = NoEntry => child[t].fresh
  BY <1>2 DEF Inv, FlagsSound, BatchWriteAssertion
<1>4. ~open => child[t] = NoEntry
  BY DEF Inv, ClosedIsEmpty, EmptyCache
<1> QED
  BY <1>1, <1>3, <1>4, ReadStep DEF FetchTip

LEMMA FetchChildStep == ASSUME Inv, NEW t \in TxIds, FetchChild(t) PROVE Inv'
<1> DEFINE e == IF TipFetched(t) = NoEntry THEN NoEntry
                ELSE FetchedFrom(TipFetched(t).coins)
<1>1. TipView[t] \in SUBSET Outs
  BY DEF Inv, TypeOK, TipView, CoinsMap, Entries
<1>2. TipFetched(t) # NoEntry => TipFetched(t).coins = TipView[t]
  BY TipFetchLemma DEF Inv
<1>3. e # NoEntry => e = FetchedFrom(TipView[t])
  BY <1>2
<1>4. e \in Entries \cup {NoEntry}
  BY <1>1, <1>3, FetchLemma
<1>5. e # NoEntry => FlagsMean(e, TipView[t])
  BY <1>1, <1>3, FetchLemma DEF FlagsMean
<1>6. e # NoEntry => tip'[t] # NoEntry
  BY DEF FetchChild, Inv, TypeOK
<1> HIDE DEF e
<1> QED
  BY <1>4, <1>5, <1>6, ReadStep DEF FetchChild, e

LEMMA ModifyStep ==
    ASSUME Inv, NEW t \in TxIds, NEW c \in SUBSET Outs, ModifyCoins(t, c)
    PROVE  Inv'
<1> DEFINE f == ForModification(t).fresh
           e == Released(Entry(c, TRUE, f))
<1>1. TipView[t] \in SUBSET Outs
  BY DEF Inv, TypeOK, TipView, CoinsMap, Entries
<1>2. child[t] # NoEntry => child[t].fresh \in BOOLEAN
  BY DEF Inv, TypeOK, Entries
<1>3. TipFetched(t) # NoEntry => TipFetched(t).coins = TipView[t]
  BY TipFetchLemma DEF Inv
<1>4. f \in BOOLEAN
  BY <1>1, <1>2, <1>3, FetchLemma, EntryLemma DEF ForModification
<1>5. f => TipView[t] = {}
  <2>1. CASE child[t] # NoEntry
    BY <2>1 DEF ForModification, Inv, FlagsSound, FlagsMean
  <2>2. CASE child[t] = NoEntry /\ TipFetched(t) = NoEntry
    BY <2>2, TipFetchLemma DEF Inv
  <2>3. CASE child[t] = NoEntry /\ TipFetched(t) # NoEntry
    BY <1>1, <1>3, <2>3, FetchLemma DEF ForModification
  <2> QED BY <2>1, <2>2, <2>3
<1>6. tip'[t] = NoEntry => f
  <2>1. CASE child[t] # NoEntry
    BY <2>1 DEF ForModification, Inv, BatchWriteAssertion, ModifyCoins, TypeOK
  <2>2. CASE child[t] = NoEntry
    <3>1. tip'[t] = TipFetched(t)
      BY <2>2 DEF ModifyCoins, Inv, TypeOK
    <3> QED
      BY <2>2, <3>1, EntryLemma DEF ForModification
  <2> QED BY <2>1, <2>2
<1>7. /\ e \in Entries \cup {NoEntry}
      /\ e # NoEntry => FlagsMean(e, TipView[t]) /\ e.fresh = f
  <2> HIDE DEF f
  <2>1. CASE f = TRUE
    BY <1>5, <2>1, EntryLemma DEF Released, FlagsMean
  <2>2. CASE f = FALSE
    BY <2>2, EntryLemma DEF Released, FlagsMean
  <2> QED BY <1>4, <2>1, <2>2
<1>8. \/ tip' = [tip EXCEPT ![t] = TipFetched(t)]
      \/ tip' = tip
  BY DEF ModifyCoins, Inv, TypeOK
<1>9. child' = [child EXCEPT ![t] = e]
  BY DEF ModifyCoins
<1> HIDE DEF e, f
<1> QED
  BY <1>6, <1>7, <1>8, <1>9, ReadStep DEF ModifyCoins

LEMMA BeginStep == ASSUME Inv, Begin PROVE Inv'
<1> USE DEF Inv, Begin
<1>1. TipBestBlock' = TipBestBlock /\ TipView' = TipView
  BY DEF TipBestBlock, TipView, TypeOK
<1>2. TypeOK'
  BY DEF TypeOK, TipBestBlock, CoinsMap
<1>3. FlagsSound' /\ BatchWriteAssertion'
  BY <1>1 DEF FlagsSound, BatchWriteAssertion
<1>4. ClosedIsEmpty' /\ ChildBest'
  BY <1>1 DEF ClosedIsEmpty, ChildBest
<1>5. (failures = 0 => BestBlockNamesState /\ TipBestBlockNamesState)'
  BY <1>1 DEF BestBlockNamesState, TipBestBlockNamesState, NoCoins
<1> QED
  BY <1>2, <1>3, <1>4, <1>5

\* The child is dropped: pcoinsTip, which it only read through, is untouched.
LEMMA DiscardStep == ASSUME Inv, Discard PROVE Inv'
<1> USE DEF Inv, Discard
<1>1. TipBestBlock' = TipBestBlock /\ TipView' = TipView
  BY DEF TipBestBlock, TipView
<1>2. TypeOK' /\ (\A t \in TxIds : child'[t] = NoEntry)
  BY DEF TypeOK, EmptyCache, CoinsMap
<1>3. FlagsSound' /\ BatchWriteAssertion'
  BY <1>2 DEF FlagsSound, BatchWriteAssertion
<1>4. ClosedIsEmpty' /\ ChildBest'
  BY DEF ClosedIsEmpty, ChildBest, EmptyCache
<1>5. (failures = 0 => BestBlockNamesState /\ TipBestBlockNamesState)'
  BY <1>1 DEF BestBlockNamesState, TipBestBlockNamesState, NoCoins
<1> QED
  BY <1>2, <1>3, <1>4, <1>5

\* pcoinsTip answers afterwards what the child answered before.
LEMMA FlushChildView ==
    ASSUME Inv, NEW b \in Blocks, FlushChild(b)
    PROVE  /\ tip' \in [TxIds -> Entries \cup {NoEntry}]
           /\ \A t \in TxIds : tip'[t] # NoEntry => FlagsMean(tip'[t], db[t])
           /\ TipView' = ChildView
<1>1. \A t \in TxIds : tip'[t] = Merged(tip[t], child[t])
  BY DEF FlushChild
<1>2. \A t \in TxIds :
        /\ tip'[t] \in Entries \cup {NoEntry}
        /\ tip'[t] # NoEntry => FlagsMean(tip'[t], db[t]) /\ tip'[t].coins = ChildView[t]
        /\ tip'[t] = NoEntry => db[t] = ChildView[t]
  BY <1>1, MergeLemma DEF Inv
<1>3. tip' \in [TxIds -> Entries \cup {NoEntry}]
  BY <1>2 DEF FlushChild
<1>4. TipView' = [t \in TxIds |-> ChildView[t]]
  BY <1>2 DEF TipView, FlushChild
<1>5. ChildView = [t \in TxIds |-> ChildView[t]]
  BY DEF ChildView
<1> QED
  BY <1>2, <1>3, <1>4, <1>5

LEMMA ChildViewType == ASSUME TypeOK PROVE ChildView \in CoinsMap
<1>1. \A t \in TxIds : TipView[t] \in SUBSET Outs
  BY DEF TypeOK, TipView, CoinsMap, Entries
<1>2. \A t \in TxIds : child[t] # NoEntry => child[t].coins \in SUBSET Outs
  BY DEF TypeOK, Entries
<1> QED
  BY <1>1, <1>2 DEF ChildView, CoinsMap

LEMMA FlushChildStep ==
    ASSUME Inv, NEW b \in Blocks, FlushChild(b) PROVE Inv'
<1> USE DEF Inv
<1>1. TypeOK'
  <2>1. stateOf' \in [Blocks -> CoinsMap \cup {NoEntry}]
    BY ChildViewType DEF FlushChild, TypeOK
  <2>2. child' \in [TxIds -> Entries \cup {NoEntry}]
    BY DEF FlushChild, EmptyCache
  <2> QED
    BY <2>1, <2>2, FlushChildView DEF FlushChild, TypeOK
<1>2. \A t \in TxIds : child'[t] = NoEntry
  BY DEF FlushChild, EmptyCache
<1>3. FlagsSound' /\ BatchWriteAssertion'
  BY <1>2, FlushChildView DEF FlagsSound, BatchWriteAssertion, FlushChild
<1>4. ClosedIsEmpty' /\ ChildBest'
  BY DEF ClosedIsEmpty, ChildBest, FlushChild, EmptyCache
<1>5. ASSUME failures' = 0 PROVE BestBlockNamesState'
  <2>1. failures = 0 /\ BestBlockNamesState
    BY <1>5 DEF FlushChild
  <2>2. CASE dbBest = NoBlock
    BY <2>1, <2>2 DEF BestBlockNamesState, FlushChild, NoCoins
  <2>3. CASE dbBest # NoBlock
    <3>1. stateOf[dbBest] = db /\ db # NoEntry /\ dbBest \in Blocks
      BY <2>1, <2>3, CoinsAssumption
         DEF BestBlockNamesState, TypeOK, CoinsMap, CoinsAssumption
    <3>2. stateOf'[dbBest] = db
      BY <3>1 DEF FlushChild, TypeOK
    <3> QED
      BY <2>3, <3>2 DEF BestBlockNamesState, FlushChild
  <2> QED BY <2>2, <2>3
<1>6. TipBestBlockNamesState'
  <2>1. TipBestBlock' = b /\ b # NoBlock
    BY CoinsAssumption DEF CoinsAssumption, FlushChild, TipBestBlock
  <2>2. stateOf'[b] = ChildView
    BY DEF FlushChild, TypeOK
  <2> QED
    BY <2>1, <2>2, FlushChildView DEF TipBestBlockNamesState
<1> QED
  BY <1>1, <1>3, <1>4, <1>5, <1>6

LEMMA FlushTipStep == ASSUME Inv, FlushTip PROVE Inv'
<1> USE DEF Inv, FlushTip
<1>1. db' = TipView /\ (\A t \in TxIds : tip'[t] = NoEntry)
  BY WriteLemma DEF EmptyCache
<1>2. TipView' = TipView /\ TipBestBlock' = TipBestBlock
  BY <1>1 DEF TipView, TipBestBlock
<1>3. TipView \in CoinsMap
  BY DEF TypeOK, TipView, CoinsMap, Entries
<1>4. child = EmptyCache
  BY DEF ClosedIsEmpty
<1>5. TypeOK'
  <2>1. tip' \in [TxIds -> Entries \cup {NoEntry}]
    BY DEF EmptyCache
  <2>2. dbBest' \in Blocks \cup {NoBlock}
    BY DEF TypeOK, TipBestBlock
  <2> QED
    BY <1>1, <1>3, <2>1, <2>2 DEF TypeOK
<1>6. FlagsSound' /\ BatchWriteAssertion'
  BY <1>1, <1>4 DEF FlagsSound, BatchWriteAssertion, EmptyCache
<1>7. ClosedIsEmpty' /\ ChildBest'
  BY DEF ClosedIsEmpty, ChildBest, EmptyCache
<1>8. (failures = 0 => BestBlockNamesState /\ TipBestBlockNamesState)'
  BY <1>1, <1>2 DEF BestBlockNamesState, TipBestBlockNamesState, NoCoins
<1> QED
  BY <1>5, <1>6, <1>7, <1>8

\* A failed write and a crash both leave the database alone and empty caches.
LEMMA LossStep ==
    ASSUME Inv, FlushTipFails \/ Crash PROVE Inv'
<1> USE DEF Inv
<1>1. /\ \A t \in TxIds : tip'[t] = NoEntry /\ child'[t] = NoEntry
      /\ child' = EmptyCache /\ UNCHANGED <<db, dbBest, stateOf>>
  BY DEF FlushTipFails, Crash, ClosedIsEmpty, EmptyCache
<1>2. TypeOK'
  <2>1. /\ tip' \in [TxIds -> Entries \cup {NoEntry}]
        /\ child' \in [TxIds -> Entries \cup {NoEntry}]
    BY <1>1 DEF FlushTipFails, Crash, EmptyCache
  <2>2. failures' \in 0..MaxFailures
    BY CoinsAssumption DEF CoinsAssumption, FlushTipFails, Crash, TypeOK
  <2> QED
    BY <1>1, <2>1, <2>2 DEF FlushTipFails, Crash, TypeOK
<1>3. FlagsSound' /\ BatchWriteAssertion'
  BY <1>1 DEF FlagsSound, BatchWriteAssertion
<1>4. ClosedIsEmpty' /\ ChildBest'
  BY <1>1 DEF ClosedIsEmpty, ChildBest, EmptyCache, FlushTipFails, Crash
<1>5. ASSUME failures' = 0 PROVE BestBlockNamesState' /\ TipBestBlockNamesState'
  <2>1. Crash /\ failures = 0
    BY <1>5, CoinsAssumption DEF FlushTipFails, Crash, TypeOK, CoinsAssumption
  <2>2. TipBestBlock' = dbBest
    BY <2>1 DEF Crash, TipBestBlock
  <2>3. TipView' = db
    BY <1>1 DEF TipView, TypeOK, CoinsMap
  <2> QED
    BY <1>1, <2>1, <2>2, <2>3 DEF BestBlockNamesState, TipBestBlockNamesState, NoCoins
<1> QED
  BY <1>2, <1>3, <1>4, <1>5

LEMMA NextInv == Inv /\ [Next]_vars => Inv'
<1> SUFFICES ASSUME Inv, [Next]_vars PROVE Inv'
  OBVIOUS
<1>1. ASSUME NEW t \in TxIds, FetchTip(t) PROVE Inv'
  BY <1>1, FetchTipStep
<1>2. ASSUME NEW t \in TxIds, FetchChild(t) PROVE Inv'
  BY <1>2, FetchChildStep
<1>3. ASSUME NEW t \in TxIds, NEW c \in SUBSET Outs, ModifyCoins(t, c) PROVE Inv'
  BY <1>3, ModifyStep
<1>4. ASSUME NEW b \in Blocks, FlushChild(b) PROVE Inv'
  BY <1>4, FlushChildStep
<1>5. CASE Begin
  BY <1>5, BeginStep
<1>6. CASE Discard
  BY <1>6, DiscardStep
<1>7. CASE FlushTip
  BY <1>7, FlushTipStep
<1>8. CASE FlushTipFails \/ Crash
  BY <1>8, LossStep
<1>9. CASE UNCHANGED vars
  BY <1>9 DEF vars, Inv, TypeOK, FlagsSound, BatchWriteAssertion, ClosedIsEmpty,
     ChildBest, BestBlockNamesState, TipBestBlockNamesState, TipView,
     TipBestBlock, NoCoins, EmptyCache
<1> QED
  BY <1>1, <1>2, <1>3, <1>4, <1>5, <1>6, <1>7, <1>8, <1>9 DEF Next

-----------------------------------------------------------------------------
\* The inductive invariant holds in every reachable state: the flags of both
\* caches mean what CCoinsCacheEntry says, after any failure or crash.
THEOREM CoinsInvariant == Spec => []Inv
BY InitInv, NextInv, PTL DEF Spec

\* The flags of every cache entry are sound in every reachable state.
THEOREM FlagsAlwaysSound == Spec => []FlagsSound
<1>1. Inv => FlagsSound
  BY DEF Inv
<1> QED
  BY <1>1, CoinsInvariant, PTL

\* BatchWrite's assertion never fails.
THEOREM BatchWriteNeverAsserts == Spec => []BatchWriteAssertion
<1>1. Inv => BatchWriteAssertion
  BY DEF Inv
<1> QED
  BY <1>1, CoinsInvariant, PTL

\* As long as no write of the coin database fails, its best block names the
\* state it holds, whenever the process is stopped.
THEOREM DurableStateIsNamed ==
    ASSUME MaxFailures = 0 PROVE Spec => []BestBlockNamesState
<1>1. Inv => BestBlockNamesState
  BY DEF Inv, TypeOK
<1> QED
  BY <1>1, CoinsInvariant, PTL

-----------------------------------------------------------------------------
(***************************************************************************)
(* The stack of caches implements the plain views of UtxoView: a read maps *)
(* to a stutter, every other step to the step of the same name.            *)
(***************************************************************************)
LEMMA RefinesInit == Init => Plain!Init
<1> SUFFICES ASSUME Init PROVE Plain!Init
  OBVIOUS
<1>1. TipView = NoCoins /\ ChildView = NoCoins
  BY DEF Init, TipView, ChildView, EmptyCache, NoCoins
<1>2. TipBestBlock = NoBlock
  BY DEF Init, TipBestBlock
<1> QED
  BY <1>1, <1>2 DEF Init, Plain!Init, Plain!Empty, NoCoins

\* A read changes no answer of any view.
LEMMA ReadRefines ==
    ASSUME Inv, NEW t \in TxIds, FetchTip(t) \/ FetchChild(t)
    PROVE  UNCHANGED Plain!viewVars
<1>1. TipView' = TipView
  BY PullLemma DEF FetchTip, FetchChild, Inv
<1>2. ASSUME NEW u \in TxIds PROVE ChildView'[u] = ChildView[u]
  <2>1. CASE child'[u] = child[u]
    BY <1>1, <2>1 DEF ChildView
  <2>2. CASE child'[u] # child[u]
    <3>1. FetchChild(t) /\ u = t /\ child[t] = NoEntry /\ TipFetched(t) # NoEntry
      BY <2>2 DEF FetchTip, FetchChild, Inv, TypeOK
    <3>2. child'[u] = FetchedFrom(TipView[u])
      BY <3>1, TipFetchLemma DEF FetchChild, Inv, TypeOK
    <3>3. TipView[u] \in SUBSET Outs
      BY DEF Inv, TypeOK, TipView, CoinsMap, Entries
    <3> QED
      BY <3>1, <3>2, <3>3, FetchLemma DEF ChildView
  <2> QED BY <2>1, <2>2
<1>3. ChildView' = ChildView
  BY <1>2 DEF ChildView
<1>4. TipBestBlock' = TipBestBlock /\ UNCHANGED <<db, dbBest, open, childBest>>
  BY DEF FetchTip, FetchChild, TipBestBlock
<1> QED
  BY <1>1, <1>3, <1>4 DEF Plain!viewVars

\* A modification takes effect on the child's answers and on nothing else.
LEMMA ModifyEffect ==
    ASSUME Inv, NEW t \in TxIds, NEW c \in SUBSET Outs, ModifyCoins(t, c)
    PROVE  /\ ChildView' = [ChildView EXCEPT ![t] = c]
           /\ TipView' = TipView
<1>1. TipView' = TipView
  <2>1. CASE tip' = tip
    BY <2>1 DEF TipView, ModifyCoins
  <2>2. CASE tip' # tip
    <3>1. tip' = [tip EXCEPT ![t] = TipFetched(t)]
      BY <2>2 DEF ModifyCoins, Inv, TypeOK
    <3> QED
      BY <3>1, PullLemma DEF ModifyCoins, Inv
  <2> QED BY <2>1, <2>2
<1> DEFINE f == ForModification(t).fresh
<1>3. child'[t] = Released(Entry(c, TRUE, f))
  BY DEF ModifyCoins, Inv, TypeOK
<1>4. f \in BOOLEAN /\ (f => TipView[t] = {})
  <2>1. CASE child[t] # NoEntry
    BY <2>1 DEF ForModification, Inv, FlagsSound, FlagsMean, TypeOK, Entries
  <2>2. CASE child[t] = NoEntry /\ TipFetched(t) = NoEntry
    BY <2>2, TipFetchLemma, EntryLemma DEF Inv, ForModification
  <2>3. CASE child[t] = NoEntry /\ TipFetched(t) # NoEntry
    <3>1. TipFetched(t).coins = TipView[t] /\ TipView[t] \in SUBSET Outs
      BY <2>3, TipFetchLemma DEF Inv, TypeOK, TipView, CoinsMap, Entries
    <3> QED
      BY <2>3, <3>1, FetchLemma DEF ForModification
  <2> QED BY <2>1, <2>2, <2>3
<1>5. ChildView'[t] = c
  <2> HIDE DEF f
  <2>1. CASE f = TRUE
    BY <1>1, <1>3, <1>4, <2>1, EntryLemma DEF Released, ChildView
  <2>2. CASE f = FALSE
    BY <1>3, <2>2, EntryLemma DEF Released, ChildView
  <2> QED BY <1>4, <2>1, <2>2
<1>6. \A u \in TxIds \ {t} : ChildView'[u] = ChildView[u]
  BY <1>1 DEF ChildView, ModifyCoins, Inv, TypeOK
<1>7. ChildView' = [ChildView EXCEPT ![t] = c]
  BY <1>5, <1>6 DEF ChildView
<1> QED
  BY <1>1, <1>7

LEMMA ModifyRefines ==
    ASSUME Inv, NEW t \in TxIds, NEW c \in SUBSET Outs, ModifyCoins(t, c)
    PROVE  Plain!Modify(t, c)
<1>1. TipBestBlock' = TipBestBlock /\ UNCHANGED <<db, dbBest, open, childBest>> /\ open
  BY DEF ModifyCoins, TipBestBlock
<1> QED
  BY <1>1, ModifyEffect DEF Plain!Modify

\* No modification made through ModifyCoins is lost or touches another entry.
THEOREM ModificationsNeverLost == Spec => ModificationsTakeEffect
<1> DEFINE A == \A t \in TxIds, c \in SUBSET Outs :
                  ModifyCoins(t, c) => ChildView' = [ChildView EXCEPT ![t] = c]
<1>1. Inv /\ [Next]_vars => [A]_vars
  BY ModifyEffect
<1> QED
  BY <1>1, CoinsInvariant, PTL DEF Spec, ModificationsTakeEffect


\* A closed child answers what pcoinsTip answers.
LEMMA ClosedView == ASSUME ClosedIsEmpty, ~open PROVE ChildView = TipView
BY DEF ChildView, TipView, ClosedIsEmpty, EmptyCache

LEMMA BeginRefines == ASSUME Inv, Begin PROVE Plain!Begin
<1>1. TipView' = TipView /\ TipBestBlock' = TipBestBlock
  BY DEF Begin, TipView, TipBestBlock
<1>2. ChildView' = ChildView
  BY <1>1 DEF ChildView, Begin
<1>3. ChildView = TipView
  BY ClosedView DEF Begin, Inv
<1> QED
  BY <1>1, <1>2, <1>3 DEF Begin, Plain!Begin

LEMMA DiscardRefines == ASSUME Inv, Discard PROVE Plain!Discard
<1>1. TipView' = TipView /\ TipBestBlock' = TipBestBlock
  BY DEF Discard, TipView, TipBestBlock
<1>2. ChildView' = TipView'
  BY DEF Discard, ChildView, TipView, EmptyCache
<1> QED
  BY <1>1, <1>2 DEF Discard, Plain!Discard

LEMMA FlushChildRefines ==
    ASSUME Inv, NEW b \in Blocks, FlushChild(b) PROVE Plain!Commit(b)
<1>1. TipView' = ChildView
  BY FlushChildView
<1>2. ChildView' = TipView'
  BY DEF FlushChild, ChildView, TipView, EmptyCache
<1>3. TipBestBlock' = b
  BY CoinsAssumption DEF FlushChild, TipBestBlock, CoinsAssumption
<1> QED
  BY <1>1, <1>2, <1>3 DEF FlushChild, Plain!Commit

LEMMA FlushTipRefines == ASSUME Inv, FlushTip PROVE Plain!Persist
<1>1. db' = TipView
  BY WriteLemma DEF FlushTip, Inv
<1>2. TipView' = TipView /\ TipBestBlock' = TipBestBlock
  BY <1>1 DEF FlushTip, TipView, TipBestBlock, EmptyCache
<1>3. ChildView' = ChildView
  BY <1>2 DEF FlushTip, ChildView
<1> QED
  BY <1>1, <1>2, <1>3 DEF FlushTip, Plain!Persist

LEMMA CrashRefines == ASSUME Inv, Crash PROVE Plain!Crash
<1>1. TipView' = db /\ TipBestBlock' = dbBest
  BY DEF Crash, TipView, TipBestBlock, EmptyCache, Inv, TypeOK, CoinsMap
<1>2. ChildView' = TipView'
  BY DEF Crash, ChildView, TipView, EmptyCache
<1> QED
  BY <1>1, <1>2 DEF Crash, Plain!Crash

LEMMA FlushTipFailsRefines == ASSUME Inv, FlushTipFails PROVE Plain!PersistFails
<1>1. TipView' = db /\ TipBestBlock' = TipBestBlock
  BY DEF FlushTipFails, TipView, TipBestBlock, EmptyCache, Inv, TypeOK, CoinsMap
<1>2. child = EmptyCache /\ child' = EmptyCache
  BY DEF FlushTipFails, Inv, ClosedIsEmpty
<1>3. ChildView' = TipView'
  BY <1>2 DEF ChildView, TipView, EmptyCache
<1> QED
  BY <1>1, <1>3 DEF FlushTipFails, Plain!PersistFails

LEMMA RefinesNext == Inv /\ [Next]_vars => [Plain!Next]_(Plain!viewVars)
<1> SUFFICES ASSUME Inv, [Next]_vars PROVE [Plain!Next]_(Plain!viewVars)
  OBVIOUS
<1>1. ASSUME NEW t \in TxIds, FetchTip(t) \/ FetchChild(t)
      PROVE  UNCHANGED Plain!viewVars
  BY <1>1, ReadRefines
<1>2. ASSUME NEW t \in TxIds, NEW c \in SUBSET Outs, ModifyCoins(t, c)
      PROVE  Plain!Next
  BY <1>2, ModifyRefines DEF Plain!Next
<1>3. CASE Begin
  BY <1>3, BeginRefines DEF Plain!Next
<1>4. CASE Discard
  BY <1>4, DiscardRefines DEF Plain!Next
<1>5. ASSUME NEW b \in Blocks, FlushChild(b) PROVE Plain!Next
  BY <1>5, FlushChildRefines DEF Plain!Next
<1>6. CASE FlushTip
  BY <1>6, FlushTipRefines DEF Plain!Next
<1>7. CASE FlushTipFails
  BY <1>7, FlushTipFailsRefines DEF Plain!Next
<1>8. CASE Crash
  BY <1>8, CrashRefines DEF Plain!Next
<1>9. CASE UNCHANGED vars
  BY <1>9 DEF vars, Plain!viewVars, TipView, ChildView, TipBestBlock
<1> QED
  BY <1>1, <1>2, <1>3, <1>4, <1>5, <1>6, <1>7, <1>8, <1>9 DEF Next

\* The two caches and their flags are invisible: every behaviour of the stack
\* is one of the plain views, across flushes, dropped views and crashes, and
\* however many writes of the database fail.
THEOREM CachesAreInvisible == Spec => ImplementsUtxoView
BY RefinesInit, RefinesNext, CoinsInvariant, PTL DEF Spec, ImplementsUtxoView, Plain!Spec
=============================================================================
