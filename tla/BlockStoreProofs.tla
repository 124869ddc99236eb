-------------------------- MODULE BlockStoreProofs --------------------------
(***************************************************************************)
(* Proofs about BlockStore: for any block tree, any number of deaths and   *)
(* failed writes, the coin database always names a chain that the block    *)
(* tree database holds with its undo data, and no undo data that an entry  *)
(* refers to is ever covered.  And no stored block is ever covered, as     *)
(* long as no write failed and no repair recomputed the size of the file.  *)
(***************************************************************************)
EXTENDS BlockStore, FiniteSetTheorems, TLAPS

\* The parts of the assumption on the tree and on the bounds.
LEMMA Types ==
    /\ Genesis \in Blocks /\ Parent \in [Blocks -> Blocks] /\ Height \in [Blocks -> Nat]
    /\ Ancestors \in [Blocks -> SUBSET Blocks]
    /\ None \notin Nat /\ None \notin Blocks /\ Slots \in Nat /\ 0 < Slots
    /\ MaxDeaths \in Nat /\ MaxErrors \in Nat
BY StoreAssumption DEF StoreAssumption

LEMMA TreeRoot ==
    Ancestors[Genesis] = {Genesis} /\ \A b \in Blocks : Genesis \in Ancestors[b]
BY StoreAssumption DEF StoreAssumption

LEMMA TreeStep ==
    ASSUME NEW b \in Blocks, b # Genesis
    PROVE  Ancestors[b] = {b} \cup Ancestors[Parent[b]] /\ b \notin Ancestors[Parent[b]]
BY StoreAssumption DEF StoreAssumption

LEMMA InitInv == Init => Inv
<1> SUFFICES ASSUME Init PROVE Inv OBVIOUS
<1> USE Types, TreeRoot DEF Init, AtGenesis, NoUndo
<1>1. TypeOK
  <2>1. 0 \in Pos /\ Pos \subseteq Nat BY DEF Pos
  <2>2. info \in FileInfo BY DEF FileInfo
  <2>3. blk \in [Pos -> Blocks \cup {None}] /\ rev \in [Pos -> Blocks \cup {None}] OBVIOUS
  <2>4. AtGenesis \in Index /\ NoUndo \in Index BY <2>1 DEF Index
  <2>5. data \in Index /\ dData \in Index /\ undo \in Index /\ dUndo \in Index BY <2>4
  <2>6. deaths \in 0..MaxDeaths /\ errors \in 0..MaxErrors OBVIOUS
  <2> QED BY ONLY Init, <2>2, <2>3, <2>5, <2>6, Types DEF Init, TypeOK, Flushing
<1>2. DirtyMarked BY DEF DirtyMarked
<1>3. RepairOfStored BY DEF RepairOfStored
<1>4. UndoAccounted BY DEF UndoAccounted
<1>5. CoinsChainStored BY DEF CoinsChainStored
<1>6. ChainstateRecoverable BY DEF ChainstateRecoverable
<1> QED BY <1>1, <1>2, <1>3, <1>4, <1>5, <1>6 DEF Inv

LEMMA AcceptBlockInv ==
    ASSUME Inv, NEW b \in Blocks, AcceptBlock(b) PROVE Inv'
<1> USE Types DEF Inv, AcceptBlock, control
<1>1. TypeOK'
  <2>1. info.size \in Pos BY DEF TypeOK, FileInfo, Pos
  <2>2. info' \in FileInfo
    <3> DEFINE h == Larger(info.heightLast, Height[b])
    <3>1. info \in FileInfo BY DEF TypeOK
    <3>2. h \in Nat BY <3>1 DEF FileInfo, Larger
    <3>3. info' = [info EXCEPT !.size = @ + 1, !.heightLast = h] BY <3>1 DEF FileInfo
    <3>4. info.size + 1 \in 0..Slots BY <3>1 DEF FileInfo
    <3> HIDE DEF h
    <3> QED BY ONLY <3>1, <3>2, <3>3, <3>4 DEF FileInfo
  <2>3. data' \in Index BY <2>1 DEF TypeOK, Index
  <2>4. blk' \in [Pos -> Blocks \cup {None}] BY <2>1 DEF TypeOK
  <2> QED BY <2>2, <2>3, <2>4 DEF TypeOK
<1>2. DirtyMarked'
  <2>1. data'[b] # None BY DEF TypeOK, FileInfo, Index
  <2> QED BY <2>1 DEF DirtyMarked, TypeOK, Index
<1>3. RepairOfStored' BY DEF RepairOfStored
<1>4. UndoAccounted'
  <2>1. info'.undo = info.undo BY DEF TypeOK, FileInfo
  <2> QED BY <2>1 DEF UndoAccounted
<1>5. CoinsChainStored' BY DEF CoinsChainStored, TypeOK, FileInfo, Index
<1>6. ChainstateRecoverable' BY DEF ChainstateRecoverable
<1> QED BY <1>1, <1>2, <1>3, <1>4, <1>5, <1>6

LEMMA ConnectTipInv ==
    ASSUME Inv, NEW b \in Blocks, ConnectTip(b) PROVE Inv'
<1> USE Types
<1>1. /\ b # Genesis /\ Parent[b] = tip /\ tip = coins /\ data[b] # None
      /\ pc # "down" /\ then # "repaired"
  BY DEF ConnectTip, CanConnect, Readable, Activating
<1>2. Ancestors[b] = {b} \cup Ancestors[tip] /\ b \notin Ancestors[tip]
  BY <1>1, TreeStep
<1>3. /\ dData' = [dData EXCEPT ![b] = data[b]] /\ dUndo' = [dUndo EXCEPT ![b] = undo[b]]
      /\ coins' = b /\ tip' \in {tip, b}
      /\ pc' \in {pc, "info"} /\ then' \in {then, "tip"}
      /\ UNCHANGED <<blk, dInfo, dCoins, shutdown, data, highest, fault, deaths, errors, resized>>
  BY DEF ConnectTip, ConnectBlock, FlushThen, control
<1>4. \/ /\ undo[b] = None /\ info.undo < Slots
         /\ rev' = [rev EXCEPT ![info.undo] = b]
         /\ undo' = [undo EXCEPT ![b] = info.undo]
         /\ info' = [info EXCEPT !.undo = @ + 1]
         /\ infoDirty' = TRUE /\ dirty' = dirty \cup {b}
      \/ undo[b] # None /\ UNCHANGED <<rev, undo, info, infoDirty, dirty>>
  BY DEF ConnectTip, ConnectBlock
<1>5. TypeOK /\ DirtyMarked /\ RepairOfStored /\ UndoAccounted
      /\ CoinsChainStored /\ ChainstateRecoverable
  BY DEF Inv
<1>6. undo \in Index /\ dUndo \in Index /\ data \in Index /\ dData \in Index
      /\ info \in FileInfo /\ rev \in [Pos -> Blocks \cup {None}]
  BY <1>5 DEF TypeOK
<1>7. info.undo \in Nat /\ dInfo.undo \in Nat BY <1>5 DEF TypeOK, FileInfo
<1>8. TypeOK'
  <2>1. info' \in FileInfo /\ undo' \in Index /\ rev' \in [Pos -> Blocks \cup {None}]
        /\ infoDirty' \in BOOLEAN /\ dirty' \subseteq Blocks
    <3>1. CASE undo[b] = None
      <4>1. info.undo \in Pos BY <1>4, <1>7, <3>1 DEF Pos
      <4>2. info.undo + 1 \in 0..Slots BY <1>4, <1>7, <3>1
      <4>3. info' \in FileInfo BY ONLY <1>4, <1>6, <3>1, <4>2 DEF FileInfo
      <4> QED BY <1>4, <1>5, <1>6, <3>1, <4>1, <4>3 DEF Index, TypeOK
    <3>2. CASE undo[b] # None BY <1>4, <1>5, <1>6, <3>2 DEF TypeOK
    <3> QED BY <3>1, <3>2
  <2>2. dData' \in Index /\ dUndo' \in Index BY <1>3, <1>6 DEF Index
  <2>3. pc' \in {"run", "start", "down"} \cup Flushing
    BY <1>3, <1>5 DEF TypeOK, Flushing
  <2> QED BY <1>3, <1>5, <2>1, <2>2, <2>3 DEF TypeOK
<1>9. DirtyMarked'
  BY <1>1, <1>3, <1>4, <1>5, <1>6, <1>7 DEF DirtyMarked, ConnectTip, Activating, Index
<1>10. RepairOfStored'
  BY <1>1, <1>3, <1>5, <1>6 DEF RepairOfStored, Index, TypeOK
<1>11. UndoAccounted'
  <2>1. CASE undo[b] = None
    <3>1. info'.undo = info.undo + 1 BY <1>4, <1>6, <2>1 DEF FileInfo
    <3>2. dUndo' = dUndo
      BY <1>1, <1>3, <1>5, <1>6, <2>1 DEF DirtyMarked, Index
    <3> SUFFICES ASSUME NEW c \in Blocks
                 PROVE  /\ undo'[c] # None => undo'[c] < info'.undo /\ rev'[undo'[c]] = c
                        /\ dUndo[c] # None => dUndo[c] < dInfo.undo /\ rev'[dUndo[c]] = c
                        /\ undo'[c] # None /\ c \notin Ancestors[tip'] \cup Ancestors[coins']
                              => undo'[c] < dInfo.undo
      BY <1>3, <1>5, <1>7, <3>1, <3>2 DEF UndoAccounted
    <3>3. info.undo \in Pos BY <1>4, <1>7, <2>1 DEF Pos
    <3>4. dUndo[c] # None => dUndo[c] < dInfo.undo /\ rev'[dUndo[c]] = c
      BY <1>4, <1>5, <1>6, <1>7, <2>1, <3>3 DEF UndoAccounted, Index, Pos
    <3>5. CASE c = b
      BY <1>2, <1>3, <1>4, <1>6, <1>7, <2>1, <3>1, <3>3, <3>4, <3>5 DEF Index, Pos
    <3>6. CASE c # b
      <4>1. undo'[c] = undo[c] BY <1>4, <1>6, <2>1, <3>6 DEF Index
      <4>2. undo[c] # None => undo[c] \in Pos /\ undo[c] < info.undo /\ rev[undo[c]] = c
        BY <1>5, <1>6 DEF UndoAccounted, Index
      <4>3. undo[c] # None => rev'[undo[c]] = c
        BY <1>4, <1>6, <1>7, <2>1, <4>2 DEF Pos
      <4>4. undo[c] # None /\ c \notin Ancestors[tip] => undo[c] < dInfo.undo
        BY <1>1, <1>5 DEF UndoAccounted
      <4>5. Ancestors[tip] \subseteq Ancestors[coins'] BY <1>2, <1>3
      <4>6. undo[c] # None => undo[c] < info.undo + 1 BY <1>7, <4>2 DEF Pos
      <4> QED BY <3>1, <3>4, <4>1, <4>2, <4>3, <4>4, <4>5, <4>6
    <3> QED BY <3>5, <3>6
  <2>2. CASE undo[b] # None
    BY <1>1, <1>2, <1>3, <1>4, <1>5, <1>6, <1>7, <2>2 DEF UndoAccounted, Index, Pos
  <2> QED BY <2>1, <2>2
<1>12. CoinsChainStored'
  BY <1>1, <1>2, <1>3, <1>4, <1>5, <1>6, <1>7 DEF CoinsChainStored, Index
<1>13. ChainstateRecoverable'
  BY <1>1, <1>3, <1>5, <1>6 DEF ChainstateRecoverable, DirtyMarked, Index, TypeOK
<1> QED BY <1>8, <1>9, <1>10, <1>11, <1>12, <1>13 DEF Inv

LEMMA DisconnectTipInv ==
    ASSUME Inv, DisconnectTip PROVE Inv'
<1> USE Types DEF Inv, DisconnectTip, Activating, FlushThen, disk
<1>1. tip # Genesis /\ tip \in Blocks BY TreeRoot DEF CanDisconnect, TypeOK
<1>2. Ancestors[tip] = {tip} \cup Ancestors[Parent[tip]] BY <1>1, TreeStep
<1>3. TypeOK' BY <1>1 DEF TypeOK, Flushing
<1>4. DirtyMarked' BY DEF DirtyMarked
<1>5. RepairOfStored' BY DEF RepairOfStored
<1>6. UndoAccounted' BY <1>2 DEF UndoAccounted
<1>7. CoinsChainStored' BY <1>2 DEF CoinsChainStored
<1>8. ChainstateRecoverable' BY DEF ChainstateRecoverable
<1> QED BY <1>3, <1>4, <1>5, <1>6, <1>7, <1>8

LEMMA FlushCallInv ==
    ASSUME Inv, Flush \/ Shutdown PROVE Inv'
<1> USE DEF Inv, Flush, Activating, Shutdown, FlushThen, disk, memory
<1>1. TypeOK' BY DEF TypeOK, Flushing
<1>2. DirtyMarked' BY DEF DirtyMarked
<1>3. RepairOfStored' BY DEF RepairOfStored
<1>4. UndoAccounted' BY DEF UndoAccounted
<1>5. CoinsChainStored' BY DEF CoinsChainStored
<1>6. ChainstateRecoverable' BY DEF ChainstateRecoverable
<1> QED BY <1>1, <1>2, <1>3, <1>4, <1>5, <1>6

LEMMA WriteBlockFileInfoInv ==
    ASSUME Inv, WriteBlockFileInfo PROVE Inv'
<1> USE DEF Inv, WriteBlockFileInfo
<1>1. dInfo' = info /\ pc # "down" BY DEF DirtyMarked, TypeOK
<1>2. TypeOK' BY <1>1 DEF TypeOK, Flushing
<1>3. DirtyMarked' BY <1>1 DEF DirtyMarked
<1>4. RepairOfStored' BY DEF RepairOfStored
<1>5. UndoAccounted'
  <2>1. info.undo \in Nat /\ dInfo.undo \in Nat BY DEF TypeOK, FileInfo
  <2>2. \A b \in Blocks : dUndo[b] # None => dUndo[b] \in Nat BY DEF TypeOK, Index, Pos
  <2> QED BY <1>1, <2>1, <2>2 DEF UndoAccounted
<1>6. CoinsChainStored' BY DEF CoinsChainStored
<1>7. ChainstateRecoverable' BY DEF ChainstateRecoverable
<1> QED BY <1>2, <1>3, <1>4, <1>5, <1>6, <1>7

LEMMA WriteBlockIndexInv ==
    ASSUME Inv, NEW b \in Blocks, WriteBlockIndex(b) PROVE Inv'
<1> USE Types DEF Inv, WriteBlockIndex, control
<1>1. dInfo = info BY DEF DirtyMarked
<1>2. data \in Index /\ undo \in Index /\ dData \in Index /\ dUndo \in Index BY DEF TypeOK
<1>3. TypeOK'
  <2>1. dData' \in Index /\ dUndo' \in Index BY <1>2 DEF Index
  <2> QED BY <2>1 DEF TypeOK
<1>4. DirtyMarked' BY <1>2 DEF DirtyMarked, Index
<1>5. RepairOfStored' BY <1>2 DEF RepairOfStored, DirtyMarked, Index
<1>6. UndoAccounted' BY <1>1, <1>2 DEF UndoAccounted, Index
<1>7. CoinsChainStored' BY DEF CoinsChainStored
<1>8. ChainstateRecoverable' BY <1>2 DEF ChainstateRecoverable, DirtyMarked, Index
<1> QED BY <1>3, <1>4, <1>5, <1>6, <1>7, <1>8

LEMMA SyncInv ==
    ASSUME Inv, Sync PROVE Inv'
<1> USE DEF Inv, Sync, disk, memory
<1>1. TypeOK' BY DEF TypeOK, Flushing
<1>2. DirtyMarked' BY DEF DirtyMarked
<1>3. RepairOfStored' BY DEF RepairOfStored
<1>4. UndoAccounted' BY DEF UndoAccounted
<1>5. CoinsChainStored' BY DEF CoinsChainStored
<1>6. ChainstateRecoverable' BY DEF ChainstateRecoverable
<1> QED BY <1>1, <1>2, <1>3, <1>4, <1>5, <1>6

LEMMA FlushCoinsInv ==
    ASSUME Inv, FlushCoins PROVE Inv'
<1> USE Types DEF Inv, FlushCoins
<1>1. /\ dInfo = info
      /\ \A b \in Blocks : dData[b] = data[b] /\ dUndo[b] = undo[b]
  BY DEF DirtyMarked
<1>2. TypeOK' BY DEF TypeOK, Flushing
<1>3. DirtyMarked' BY DEF DirtyMarked
<1>4. RepairOfStored' BY DEF RepairOfStored, DirtyMarked
<1>5. UndoAccounted' BY <1>1 DEF UndoAccounted
<1>6. CoinsChainStored' BY DEF CoinsChainStored
<1>7. ChainstateRecoverable'
  BY <1>1 DEF ChainstateRecoverable, CoinsChainStored, TypeOK
<1> QED BY <1>2, <1>3, <1>4, <1>5, <1>6, <1>7

LEMMA FlushFailsInv ==
    ASSUME Inv, FlushFails PROVE Inv'
<1> USE Types DEF Inv, FlushFails, disk, memory
<1>1. TypeOK' BY DEF TypeOK, Flushing
<1>2. DirtyMarked' BY DEF DirtyMarked
<1>3. RepairOfStored' BY DEF RepairOfStored
<1>4. UndoAccounted' BY DEF UndoAccounted
<1>5. CoinsChainStored' BY DEF CoinsChainStored
<1>6. ChainstateRecoverable' BY DEF ChainstateRecoverable
<1> QED BY <1>1, <1>2, <1>3, <1>4, <1>5, <1>6

\* Whatever ends the process leaves the disk as it was, the flag aside.
LEMMA GoneInv ==
    ASSUME Inv, Gone, UNCHANGED <<blk, rev, dInfo, dData, dUndo, dCoins>>,
           shutdown' \in BOOLEAN, deaths' \in 0..MaxDeaths, errors' \in 0..MaxErrors,
           fault' \in {"none", "assert", "range", "mismatch", "torn"}, resized' \in BOOLEAN
    PROVE  Inv'
<1> USE Types DEF Inv, Gone, NoUndo
<1>1. TypeOK'
  <2>1. NoUndo \in Index BY DEF Index
  <2>2. infoDirty' \in BOOLEAN /\ dirty' \subseteq Blocks OBVIOUS
  <2>3. info' \in FileInfo /\ dInfo' \in FileInfo BY DEF TypeOK
  <2> QED BY <2>1, <2>2, <2>3 DEF TypeOK
<1>2. DirtyMarked' BY DEF DirtyMarked
<1>3. RepairOfStored' BY DEF RepairOfStored
<1>4. UndoAccounted'
  <2>1. dInfo.undo \in Nat BY DEF TypeOK, FileInfo
  <2> QED BY <2>1 DEF UndoAccounted
<1>5. CoinsChainStored' BY DEF CoinsChainStored
<1>6. ChainstateRecoverable' BY DEF ChainstateRecoverable
<1> QED BY <1>1, <1>2, <1>3, <1>4, <1>5, <1>6

LEMMA StartInv ==
    ASSUME Inv, Start PROVE Inv'
<1> USE Types DEF Inv, Start, Loaded
<1>1. TypeOK' BY DEF TypeOK
<1>2. DirtyMarked' BY DEF DirtyMarked
<1>3. RepairOfStored' BY DEF RepairOfStored
<1>4. UndoAccounted'
  <2>1. dInfo.undo \in Nat BY DEF TypeOK, FileInfo
  <2> QED BY <2>1 DEF UndoAccounted
<1>5. CoinsChainStored' BY DEF CoinsChainStored, ChainstateRecoverable
<1>6. ChainstateRecoverable' BY DEF ChainstateRecoverable
<1> QED BY <1>1, <1>2, <1>3, <1>4, <1>5, <1>6

\* The recomputed file information is one, and keeps the size of the undo file.
LEMMA SizedByType ==
    ASSUME TypeOK, NEW h \in Blocks, dData[h] # None, NEW i \in FileInfo, NEW f \in SizedBy(h, i)
    PROVE  f \in FileInfo /\ f.undo = i.undo
<1> USE Types
<1>1. PICK n \in {0, 1} : f = [i EXCEPT !.heightLast = Height[h], !.size = dData[h] + n]
  BY DEF SizedBy
<1> DEFINE size == dData[h] + n
<1>2. size \in 0..Slots BY DEF TypeOK, Index, Pos
<1>3. f = [i EXCEPT !.heightLast = Height[h], !.size = size] BY <1>1
<1> HIDE DEF size
<1> QED BY ONLY Types, <1>2, <1>3, i \in FileInfo, h \in Blocks DEF FileInfo

\* What ProcessNewBlock makes of a block at a known position: at most one entry more,
\* which is dirty, and the undo file as it was.
LEMMA ReprocessType ==
    ASSUME TypeOK, NEW c \in Blocks, NEW p \in Pos, Reprocess(c, p)
    PROVE  /\ info' \in FileInfo /\ info'.undo = dInfo.undo
           /\ data' \in Index /\ dirty' \subseteq Blocks /\ infoDirty' \in BOOLEAN
           /\ (~infoDirty' => info' = dInfo)
           /\ \A b \in Blocks : (b \notin dirty' => data'[b] = dData[b])
                              /\ (dData[b] # None => data'[b] # None)
           /\ pc' = "start" /\ then' = "none" /\ resized' = resized
<1> USE Types
<1>1. dInfo \in FileInfo /\ dData \in Index BY DEF TypeOK
<1>2. CASE c \in Stored BY <1>1, <1>2 DEF Reprocess
<1>3. CASE c \notin Stored
  <2> DEFINE z == Larger(dInfo.size, p + 1)
             h == Larger(dInfo.heightLast, Height[c])
  <2>1. z \in 0..Slots /\ h \in Nat BY <1>1 DEF FileInfo, Larger, Pos
  <2>2. info' = [dInfo EXCEPT !.size = z, !.heightLast = h] BY <1>1, <1>3 DEF Reprocess, FileInfo
  <2>3. /\ data' = [dData EXCEPT ![c] = p] /\ dirty' = {c} /\ infoDirty' = TRUE
        /\ pc' = "start" /\ then' = "none" /\ resized' = resized
    BY <1>3 DEF Reprocess
  <2> HIDE DEF z, h
  <2>4. info' \in FileInfo /\ info'.undo = dInfo.undo BY ONLY <1>1, <2>1, <2>2 DEF FileInfo
  <2>5. p # None BY DEF Pos
  <2> QED BY <1>1, <2>3, <2>4, <2>5 DEF Index
<1> QED BY <1>2, <1>3

LEMMA StartRepairInv ==
    ASSUME Inv, StartRepair PROVE Inv'
<1> USE Types DEF Inv
<1> DEFINE n == Cardinality(Stored)
<1>1. n \in Nat
  <2>1. IsFiniteSet(Blocks) BY StoreAssumption DEF StoreAssumption
  <2>2. IsFiniteSet(Stored) BY <2>1, FS_Subset DEF Stored
  <2> QED BY <2>2, FS_CardinalityType
<1>2. dInfo.heightLast \in Nat /\ dInfo.undo \in Nat /\ dInfo \in FileInfo
  BY DEF TypeOK, FileInfo
<1>3. n \in 1..n BY <1>1, <1>2 DEF StartRepair
<1>4. PICK s \in SortedByHeight, i \in (dInfo.heightLast + 2)..n :
          /\ tip' = Parent[s[i]] /\ highest' = s[n]
          /\ fault' \in {"none", "mismatch"}
          /\ \/ \E c \in Blocks : Reprocess(c, dData[s[i]])
             \/ Unprocessed(highest')
  <2>1. PICK s \in SortedByHeight, i \in (dInfo.heightLast + 2)..n :
          /\ tip' = Parent[s[i]] /\ highest' = s[n]
          /\ fault' = IF blk[dData[s[i]]] = s[i] THEN "none" ELSE "mismatch"
          /\ \/ \E c \in Blocks : blk[dData[s[i]]] = c /\ Reprocess(c, dData[s[i]])
             \/ fault' # "none" /\ Unprocessed(highest')
    BY Zenon DEF StartRepair
  <2>2. fault' \in {"none", "mismatch"} BY <2>1
  <2> QED BY <2>1, <2>2, Zenon
<1>5. s \in [1..n -> Stored] BY DEF SortedByHeight
<1>6. highest' \in Blocks /\ dData[highest'] # None BY <1>3, <1>4, <1>5 DEF Stored
<1>7. s[i] \in Blocks /\ dData[s[i]] \in Pos
  <2>1. s[i] \in Stored BY <1>1, <1>2, <1>5
  <2>2. dData \in Index BY DEF TypeOK
  <2> HIDE DEF n
  <2> QED BY <2>1, <2>2 DEF Stored, Index
<1>8. /\ info' \in FileInfo /\ info'.undo = dInfo.undo
      /\ data' \in Index /\ dirty' \subseteq Blocks /\ infoDirty' \in BOOLEAN
      /\ (~infoDirty' => info' = dInfo)
      /\ \A b \in Blocks : (b \notin dirty' => data'[b] = dData[b])
                         /\ (dData[b] # None => data'[b] # None)
      /\ pc' \in {"start", "info"} /\ then' \in {"none", "repaired"}
      /\ (pc' = "start" => then' = "none") /\ resized' \in BOOLEAN
  <2>1. CASE Unprocessed(highest')
    <3>1. info' \in FileInfo /\ info'.undo = dInfo.undo
      BY <1>2, <1>6, <2>1, SizedByType DEF Unprocessed
    <3> QED BY <2>1, <3>1 DEF Unprocessed, TypeOK
  <2>2. ASSUME NEW c \in Blocks, Reprocess(c, dData[s[i]]) PROVE <1>8!:
    BY <1>2, <1>7, <2>2, ReprocessType DEF TypeOK
  <2> QED BY <1>4, <2>1, <2>2
<1>10. /\ undo' = dUndo /\ coins' = dCoins /\ tip' \in Blocks
       /\ UNCHANGED <<blk, rev, dInfo, dData, dUndo, dCoins, shutdown, deaths, errors>>
  BY <1>4, <1>7 DEF StartRepair, disk
<1>11. TypeOK' BY <1>4, <1>6, <1>8, <1>10 DEF TypeOK, Flushing
<1>12. DirtyMarked' BY <1>8, <1>10 DEF DirtyMarked
<1>13. RepairOfStored' BY <1>6, <1>8, <1>10 DEF RepairOfStored
<1>14. UndoAccounted' BY <1>2, <1>8, <1>10 DEF UndoAccounted
<1>15. CoinsChainStored' BY <1>8, <1>10 DEF CoinsChainStored, ChainstateRecoverable, TypeOK
<1>16. ChainstateRecoverable' BY <1>10 DEF ChainstateRecoverable
<1> QED BY <1>11, <1>12, <1>13, <1>14, <1>15, <1>16

LEMMA RepairInfoInv ==
    ASSUME Inv, RepairInfo PROVE Inv'
<1> USE Types DEF Inv, RepairInfo, Activating, disk
<1>1. highest \in Blocks /\ dData[highest] # None /\ info \in FileInfo
  BY DEF RepairOfStored, TypeOK
<1>2. info' \in FileInfo /\ info'.undo = info.undo BY <1>1, SizedByType
<1>3. TypeOK' BY <1>2 DEF TypeOK, Flushing
<1>4. DirtyMarked' BY DEF DirtyMarked
<1>5. RepairOfStored' BY DEF RepairOfStored
<1>6. UndoAccounted' BY <1>2 DEF UndoAccounted
<1>7. CoinsChainStored' BY DEF CoinsChainStored
<1>8. ChainstateRecoverable' BY DEF ChainstateRecoverable
<1> QED BY <1>3, <1>4, <1>5, <1>6, <1>7, <1>8

LEMMA StartRepairedInv ==
    ASSUME Inv, StartRepaired PROVE Inv'
<1> USE Types DEF Inv, StartRepaired
<1>0. info = dInfo BY DEF RepairOfStored, DirtyMarked
<1>1. TypeOK' BY DEF TypeOK
<1>2. DirtyMarked' BY DEF DirtyMarked
<1>3. RepairOfStored' BY DEF RepairOfStored
<1>4. UndoAccounted' BY <1>0 DEF UndoAccounted
<1>5. CoinsChainStored' BY DEF CoinsChainStored
<1>6. ChainstateRecoverable' BY DEF ChainstateRecoverable
<1> QED BY <1>1, <1>2, <1>3, <1>4, <1>5, <1>6

LEMMA NextInv == Inv /\ [Next]_vars => Inv'
<1> SUFFICES ASSUME Inv, [Next]_vars PROVE Inv' OBVIOUS
<1>1. ASSUME NEW b \in Blocks, AcceptBlock(b) \/ ConnectTip(b) \/ WriteBlockIndex(b) PROVE Inv'
  BY <1>1, AcceptBlockInv, ConnectTipInv, WriteBlockIndexInv
<1>2. CASE DisconnectTip \/ Flush \/ Shutdown BY <1>2, DisconnectTipInv, FlushCallInv
<1>3. CASE WriteBlockFileInfo \/ Sync \/ FlushCoins \/ FlushFails
  BY <1>3, WriteBlockFileInfoInv, SyncInv, FlushCoinsInv, FlushFailsInv
<1>4. /\ shutdown \in BOOLEAN /\ deaths \in 0..MaxDeaths /\ errors \in 0..MaxErrors
      /\ fault \in {"none", "assert", "range", "mismatch", "torn"} /\ resized \in BOOLEAN
  BY DEF Inv, TypeOK
<1>5. CASE WriteShutdownFlag BY <1>4, <1>5, GoneInv DEF WriteShutdownFlag
<1>6. CASE Die
  <2>1. deaths' \in 0..MaxDeaths BY <1>4, <1>6, Types DEF Die
  <2> QED BY <1>4, <1>6, <2>1, GoneInv DEF Die, disk
<1>7. CASE StartTorn \/ StartOutOfRange \/ StartAsserts \/ StartMismatch
  BY <1>4, <1>7, GoneInv
     DEF StartTorn, StartOutOfRange, StartAsserts, StartMismatch, StartFails, disk
<1>8. CASE Start \/ StartRepair \/ RepairInfo \/ StartRepaired
  BY <1>8, StartInv, StartRepairInv, RepairInfoInv, StartRepairedInv
<1>9. CASE UNCHANGED vars
  <2> USE <1>9 DEF vars, disk, memory, control, Inv
  <2>1. TypeOK' BY DEF TypeOK
  <2>2. DirtyMarked' BY DEF DirtyMarked
  <2>3. RepairOfStored' BY DEF RepairOfStored
  <2>4. UndoAccounted' BY DEF UndoAccounted
  <2>5. CoinsChainStored' BY DEF CoinsChainStored
  <2>6. ChainstateRecoverable' BY DEF ChainstateRecoverable
  <2> QED BY <2>1, <2>2, <2>3, <2>4, <2>5, <2>6
<1> QED BY <1>1, <1>2, <1>3, <1>5, <1>6, <1>7, <1>8, <1>9 DEF Next

-----------------------------------------------------------------------------
\* What FlushStateToDisk, ConnectBlock and LoadBlockIndexDB keep true between them,
\* for any block tree and any number of deaths and failed writes.
THEOREM StoreInvariant == Spec => []Inv
BY InitInv, NextInv, PTL DEF Spec

\* At whatever write the process dies, LoadBlockIndexDB finds the block that the coin
\* database names, its ancestors, and the undo data to disconnect them.
THEOREM CrashLeavesChainstateRecoverable == Spec => []ChainstateRecoverable
<1>1. Inv => ChainstateRecoverable BY DEF Inv
<1> QED BY <1>1, StoreInvariant, PTL

\* UndoReadFromDisk finds the block's own undo data wherever an entry has a position,
\* although ConnectBlock writes entries before the file information.
THEOREM UndoNeverOverwritten == Spec => []UndoIntact
<1>1. Inv => UndoIntact BY DEF Inv, UndoAccounted, UndoIntact
<1> QED BY <1>1, StoreInvariant, PTL

-----------------------------------------------------------------------------
(***************************************************************************)
(* The positions of blocks.  An entry on disk whose block the recorded     *)
(* size or height does not cover is one entry more than the recorded       *)
(* height accounts for, which is what LoadBlockIndexDB looks at.           *)
(***************************************************************************)
Have == {b \in Blocks : data[b] # None}
Uncovered == {b \in Stored : dData[b] >= dInfo.size \/ Height[b] > dInfo.heightLast}

\* Every entry leads to its block, and those on disk agree with those in memory.
BlocksReadable ==
    /\ \A b \in Stored : blk[dData[b]] = b
    /\ pc # "down" => /\ \A b \in Have : blk[data[b]] = b
                      /\ \A b \in Stored : data[b] = dData[b]

\* In the running node every block is below nSize and not above nHeightLast, and there
\* are at least as many blocks as heights.
SizeCovers ==
    /\ dInfo.size <= info.size /\ dInfo.heightLast <= info.heightLast
    /\ pc # "down" /\ highest = None =>
          /\ \A b \in Have : data[b] < info.size /\ Height[b] <= info.heightLast
          /\ Cardinality(Have) >= info.heightLast + 1

\* The number of entries shows that one is not covered.  Inside a flush the file
\* information may be ahead of them.
CountTells ==
    /\ Uncovered # {} => Cardinality(Stored) >= dInfo.heightLast + 2
    /\ pc \in {"run", "info", "coins", "flag"} /\ highest = None
          => Cardinality(Stored) >= dInfo.heightLast + 1
    /\ pc = "down" /\ (shutdown \/ dInfo.heightLast = 0) => Uncovered = {}
    /\ pc = "down" /\ shutdown => Cardinality(Stored) >= dInfo.heightLast + 1

\* Before the file information is recomputed, the repair only connects and disconnects.
NotResized ==
    /\ then # "repaired"
    /\ shutdown => pc = "down"
    /\ (pc \in {"run", "flag", "down"} \/ then = "down") => highest = None
    /\ pc = "flag" => dirty = {} /\ ~infoDirty
    /\ highest # None => /\ data = dData /\ dInfo.heightLast # 0
                         /\ info.size = dInfo.size /\ info.heightLast = dInfo.heightLast

Covered == BlocksReadable /\ SizeCovers /\ CountTells /\ NotResized

LEMMA Numbers ==
    ASSUME TypeOK
    PROVE  /\ info.size \in Nat /\ info.heightLast \in Nat
           /\ dInfo.size \in Nat /\ dInfo.heightLast \in Nat
           /\ \A b \in Blocks : /\ Height[b] \in Nat
                                /\ data[b] # None => data[b] \in Pos /\ data[b] \in Nat
                                /\ dData[b] # None => dData[b] \in Pos /\ dData[b] \in Nat
           /\ IsFiniteSet(Stored) /\ Cardinality(Stored) \in Nat
           /\ IsFiniteSet(Have) /\ Cardinality(Have) \in Nat
<1>1. IsFiniteSet(Blocks) BY StoreAssumption DEF StoreAssumption
<1>2. IsFiniteSet(Stored) /\ IsFiniteSet(Have)
  BY <1>1, FS_Subset, Stored \subseteq Blocks, Have \subseteq Blocks DEF Stored, Have
<1>3. Cardinality(Stored) \in Nat /\ Cardinality(Have) \in Nat BY <1>2, FS_CardinalityType
<1>4. info \in FileInfo /\ dInfo \in FileInfo /\ data \in Index /\ dData \in Index BY DEF TypeOK
<1>5. \A b \in Blocks : /\ Height[b] \in Nat
                        /\ data[b] # None => data[b] \in Pos /\ data[b] \in Nat
                        /\ dData[b] # None => dData[b] \in Pos /\ dData[b] \in Nat
  BY <1>4, Types DEF Index, Pos
<1> QED BY <1>2, <1>3, <1>4, <1>5 DEF FileInfo

LEMMA InitCovered == Init => Covered
<1> SUFFICES ASSUME Init PROVE Covered OBVIOUS
<1>1. TypeOK BY InitInv DEF Inv
<1>2. Stored = {Genesis} /\ Have = {Genesis}
  BY Types DEF Init, AtGenesis, Stored, Have
<1>3. Cardinality({Genesis}) = 1 BY FS_Singleton
<1>4. /\ dInfo.size = 1 /\ dInfo.heightLast = 0 /\ info = dInfo /\ data = dData
      /\ dData[Genesis] = 0 /\ blk[0] = Genesis /\ pc = "run" /\ then = "none"
      /\ highest = None /\ shutdown = FALSE
  BY Types DEF Init, AtGenesis, Pos
<1>5. Height[Genesis] = 0 BY StoreAssumption DEF StoreAssumption
<1> QED BY <1>2, <1>3, <1>4, <1>5 DEF Covered, BlocksReadable, SizeCovers, CountTells, NotResized, Uncovered

\* FindBlockPos hands out a position that no entry has.
LEMMA AcceptBlockCovered ==
    ASSUME Inv, Inv', Covered, NEW b \in Blocks, AcceptBlock(b) PROVE Covered'
<1> USE DEF AcceptBlock, control
<1>1. TypeOK /\ TypeOK' BY DEF Inv
<1> DEFINE h == Larger(info.heightLast, Height[b])
<1>2. /\ info'.size = info.size + 1 /\ info'.heightLast = h
      /\ info.heightLast <= h /\ Height[b] <= h /\ h \in Nat
  <2>1. info \in FileInfo BY <1>1 DEF TypeOK
  <2>2. info'.size = info.size + 1 /\ info'.heightLast = h BY <2>1 DEF FileInfo
  <2> QED BY <1>1, <2>2, Numbers DEF Larger
<1>3. pc = "run" /\ pc' = "run" /\ highest = None /\ highest' = None /\ ~shutdown /\ ~shutdown'
      /\ then' = then
  BY DEF Covered, NotResized
<1>4. info.size \in Pos /\ info.size \in Nat /\ data'[b] = info.size /\ b \notin Have
      /\ \A c \in Blocks \ {b} : data'[c] = data[c]
  BY <1>1, Numbers, Types DEF TypeOK, Index, FileInfo, Pos, Have
<1>5. Have' = Have \cup {b} BY <1>4, Types DEF Have, Pos
<1>6. Parent[b] \in Have BY Types DEF Have
<1>7. Stored' = Stored /\ Uncovered' = Uncovered BY DEF Stored, Uncovered
<1>8. b \notin Stored BY <1>3, <1>4, Types DEF Stored, Have, Inv, DirtyMarked
<1>9. \A c \in Have : /\ c # b /\ c \in Blocks /\ data[c] \in Pos /\ data[c] < info.size
                      /\ blk[data[c]] = c /\ Height[c] <= info.heightLast
  BY <1>1, <1>3, <1>4, Numbers DEF Covered, BlocksReadable, SizeCovers, Have
<1>10. \A c \in Stored : c \in Have /\ data[c] = dData[c]
  BY <1>3 DEF Covered, BlocksReadable, Stored, Have
<1>11. blk'[info.size] = b /\ \A p \in Pos \ {info.size} : blk'[p] = blk[p]
  BY <1>1, <1>4 DEF TypeOK
<1>12. BlocksReadable'
  <2>1. \A c \in Have : data'[c] = data[c] /\ blk'[data[c]] = c
    <3> TAKE c \in Have
    <3>1. data[c] \in Pos /\ data[c] # info.size BY <1>4, <1>9 DEF Pos
    <3> QED BY <1>4, <1>9, <1>11, <3>1
  <2>2. \A c \in Have' : blk'[data'[c]] = c BY <1>4, <1>5, <1>11, <2>1
  <2>3. \A c \in Stored : data'[c] = dData[c] /\ blk'[dData[c]] = c BY <1>10, <2>1
  <2> QED BY <1>7, <2>2, <2>3 DEF BlocksReadable
<1>13. SizeCovers'
  <2>1. Height[b] <= info.heightLast + 1
    <3>1. b # Genesis
      BY <1>3, <1>4, TreeRoot DEF Inv, CoinsChainStored, Have, TypeOK
    <3>2. Height[b] = Height[Parent[b]] + 1 BY <3>1, StoreAssumption DEF StoreAssumption
    <3> QED BY <1>1, <1>6, <1>9, <3>2, Numbers, Types
  <2>2. Cardinality(Have') = Cardinality(Have) + 1 BY <1>1, <1>4, <1>5, Numbers, FS_AddElement
  <2>3. Cardinality(Have) >= info.heightLast + 1 BY <1>3 DEF Covered, SizeCovers
  <2>4. h <= info.heightLast + 1 BY <1>1, <2>1, Numbers DEF Larger
  <2>5. Cardinality(Have') >= h + 1
    <3>1. Cardinality(Have) \in Nat /\ info.heightLast \in Nat BY <1>1, Numbers
    <3> HIDE DEF h
    <3> QED BY <1>2, <2>2, <2>3, <2>4, <3>1
  <2>6. \A c \in Have' : data'[c] < info.size + 1 /\ Height[c] <= h
    <3> TAKE c \in Have'
    <3>1. CASE c = b BY <1>2, <1>4, <3>1
    <3>2. CASE c \in Have
      <4>1. data'[c] = data[c] /\ data[c] \in Nat /\ Height[c] \in Nat /\ info.heightLast \in Nat
        BY <1>1, <1>4, <1>9, <3>2, Numbers DEF Pos
      <4> HIDE DEF h
      <4> QED BY <1>2, <1>4, <1>9, <3>2, <4>1
    <3> QED BY <1>5, <3>1, <3>2
  <2>7. dInfo.size <= info.size + 1 /\ dInfo.heightLast <= h
    <3>1. dInfo.size <= info.size /\ dInfo.heightLast <= info.heightLast BY DEF Covered, SizeCovers
    <3> HIDE DEF h
    <3> QED BY <1>1, <1>2, <3>1, Numbers
  <2> QED BY <1>2, <2>5, <2>6, <2>7 DEF SizeCovers
<1>14. CountTells' BY <1>3, <1>7 DEF Covered, CountTells
<1>15. NotResized' BY <1>3 DEF Covered, NotResized
<1> QED BY <1>12, <1>13, <1>14, <1>15 DEF Covered

\* ConnectBlock writes one entry, of a block that can be read.  It may be one that the
\* file information on disk does not cover; then it is one more.
LEMMA ConnectTipCovered ==
    ASSUME Inv, Inv', Covered, NEW b \in Blocks, ConnectTip(b) PROVE Covered'
<1>1. TypeOK /\ TypeOK' BY DEF Inv
<1>2. /\ data[b] # None /\ pc \in {"run", "start"}
      /\ dData' = [dData EXCEPT ![b] = data[b]]
      /\ pc' \in {pc, "info"} /\ then' \in {then, "tip"}
      /\ UNCHANGED <<blk, dInfo, shutdown, data, highest>>
      /\ info' = info \/ info' = [info EXCEPT !.undo = @ + 1]
  BY DEF ConnectTip, ConnectBlock, CanConnect, Readable, Activating, FlushThen, control
<1>3. info'.size = info.size /\ info'.heightLast = info.heightLast
  BY <1>1, <1>2 DEF TypeOK, FileInfo
<1>4. pc # "down" /\ pc' # "down" /\ ~shutdown BY <1>2 DEF Covered, NotResized
<1>5. Have' = Have BY <1>2 DEF Have
<1>6. dData \in Index /\ Stored' = Stored \cup {b} /\ b \in Have
      /\ \A c \in Stored' : dData'[c] = data[c]
  <2>1. dData \in Index BY <1>1 DEF TypeOK
  <2>2. Stored' = Stored \cup {b} BY <1>2, <2>1 DEF Stored, Index
  <2>3. \A c \in Stored : data[c] = dData[c] BY <1>4 DEF Covered, BlocksReadable
  <2> QED BY <1>2, <2>1, <2>2, <2>3 DEF Index, Have, Stored
<1>7. \A c \in Have : blk[data[c]] = c BY <1>4 DEF Covered, BlocksReadable
<1>8. Stored' \subseteq Have BY <1>1, <1>5, <1>6, Types DEF Have, Stored, Inv, DirtyMarked, TypeOK
<1>9. BlocksReadable' BY <1>2, <1>5, <1>6, <1>7, <1>8 DEF BlocksReadable
<1>10. SizeCovers' BY <1>2, <1>3, <1>4, <1>5 DEF Covered, SizeCovers
<1>11. CountTells'
  <2>1. CASE b \in Stored
    <3>1. dData' = dData BY <1>2, <1>4, <1>6, <2>1 DEF Covered, BlocksReadable, Index
    <3>2. Stored' = Stored /\ Uncovered' = Uncovered
      BY <1>2, <3>1 DEF Stored, Uncovered
    <3>3. pc \in {"run", "info", "coins", "flag"} /\ highest = None
             => Cardinality(Stored) >= dInfo.heightLast + 1
      BY DEF Covered, CountTells
    <3>4. pc' \in {"run", "info", "coins", "flag"} /\ highest = None => pc = "run"
      BY <1>2 DEF Covered, NotResized, Inv, RepairOfStored
    <3> QED BY <1>2, <1>4, <3>2, <3>3, <3>4 DEF Covered, CountTells
  <2>2. CASE b \notin Stored
    <3>1. highest = None BY <1>2, <2>2 DEF Covered, NotResized, Stored
    <3>2. pc = "run" BY <1>2, <3>1 DEF Inv, RepairOfStored
    <3>3. Cardinality(Stored) >= dInfo.heightLast + 1 BY <3>1, <3>2 DEF Covered, CountTells
    <3>4. Cardinality(Stored') = Cardinality(Stored) + 1
      BY <1>1, <1>6, <2>2, Numbers, FS_AddElement
    <3>5. Cardinality(Stored') >= dInfo.heightLast + 2 BY <1>1, <3>3, <3>4, Numbers
    <3>6. Cardinality(Stored') \in Nat /\ dInfo.heightLast \in Nat BY <1>1, <3>4, Numbers
    <3>7. Cardinality(Stored') >= dInfo.heightLast + 1 BY <3>5, <3>6
    <3> QED BY <1>2, <1>4, <3>5, <3>7 DEF CountTells
  <2> QED BY <2>1, <2>2
<1>12. NotResized'
  <2>1. highest # None => dData' = dData
    BY <1>2, <1>6 DEF Covered, NotResized, Index
  <2>2. pc' = "flag" => FALSE BY <1>2
  <2>3. pc' = "run" => pc = "run" BY <1>2
  <2> QED BY <1>2, <1>3, <1>4, <2>1, <2>2, <2>3 DEF Covered, NotResized
<1> QED BY <1>9, <1>10, <1>11, <1>12 DEF Covered

\* DisconnectTip and the calls of FlushStateToDisk change no position.
LEMMA FlushCallCovered ==
    ASSUME Inv, Covered, DisconnectTip \/ Flush \/ Shutdown PROVE Covered'
<1>1. /\ pc \in {"run", "start"} /\ pc' = "info" /\ then' \in {"none", "tip", "down"}
      /\ (then' = "down" => pc = "run")
      /\ UNCHANGED <<blk, dInfo, dData, shutdown, data, info, infoDirty, dirty, highest>>
  BY DEF DisconnectTip, Flush, Shutdown, Activating, FlushThen, disk, memory
<1>2. Stored' = Stored /\ Uncovered' = Uncovered /\ Have' = Have
  BY <1>1 DEF Stored, Uncovered, Have
<1>3. BlocksReadable' BY <1>1, <1>2 DEF Covered, BlocksReadable
<1>4. SizeCovers' BY <1>1, <1>2 DEF Covered, SizeCovers
<1>5. CountTells'
  <2>1. highest = None => pc = "run" BY <1>1 DEF Inv, RepairOfStored
  <2> QED BY <1>1, <1>2, <2>1 DEF Covered, CountTells
<1>6. NotResized' BY <1>1 DEF Covered, NotResized
<1> QED BY <1>3, <1>4, <1>5, <1>6 DEF Covered

\* Once the file information is written, nothing on disk is outside of it.
LEMMA WriteBlockFileInfoCovered ==
    ASSUME Inv, Covered, WriteBlockFileInfo PROVE Covered'
<1>1. /\ pc = "info" /\ pc' = "index" /\ dInfo' = info
      /\ UNCHANGED <<blk, dData, shutdown, data, info, dirty, highest, then>>
  BY DEF WriteBlockFileInfo, Inv, DirtyMarked, TypeOK
<1>2. Stored' = Stored /\ Have' = Have BY <1>1 DEF Stored, Have
<1>3. TypeOK BY DEF Inv
<1>4. BlocksReadable' BY <1>1, <1>2 DEF Covered, BlocksReadable
<1>5. SizeCovers' BY <1>1, <1>2, <1>3, Numbers DEF Covered, SizeCovers
<1>6. CountTells'
  <2>1. CASE highest = None
    <3>1. \A b \in Stored : b \in Blocks /\ b \in Have /\ data[b] = dData[b]
      BY <1>1 DEF Covered, BlocksReadable, Stored, Have
    <3>2. \A b \in Stored : dData[b] < info.size /\ Height[b] <= info.heightLast
      BY <1>1, <2>1, <3>1 DEF Covered, SizeCovers
    <3>3. Uncovered' = {} BY <1>1, <1>2, <1>3, <3>1, <3>2, Numbers DEF Uncovered, Have
    <3> QED BY <1>1, <3>3 DEF CountTells
  <2>2. CASE highest # None
    <3>1. dInfo'.size = dInfo.size /\ dInfo'.heightLast = dInfo.heightLast
      BY <1>1, <2>2 DEF Covered, NotResized
    <3>2. Uncovered' = Uncovered BY <1>1, <1>2, <3>1 DEF Uncovered
    <3> QED BY <1>1, <1>2, <2>2, <3>1, <3>2 DEF Covered, CountTells
  <2> QED BY <2>1, <2>2
<1>7. NotResized' BY <1>1 DEF Covered, NotResized
<1> QED BY <1>4, <1>5, <1>6, <1>7 DEF Covered

\* The entries follow the file information.
LEMMA WriteBlockIndexCovered ==
    ASSUME Inv, Inv', Covered, NEW b \in Blocks, WriteBlockIndex(b) PROVE Covered'
<1>1. /\ pc = "index" /\ pc' = "index" /\ dInfo = info
      /\ dData' = [dData EXCEPT ![b] = data[b]]
      /\ UNCHANGED <<blk, dInfo, shutdown, data, info, highest, then>>
  BY DEF WriteBlockIndex, control, Inv, DirtyMarked
<1>2. TypeOK /\ dData \in Index BY DEF Inv, TypeOK
<1>3. Have' = Have BY <1>1 DEF Have
<1>4. \A c \in Blocks : dData'[c] = IF c = b THEN data[b] ELSE dData[c]
  BY <1>1, <1>2 DEF Index
<1>5. \A c \in Stored' : c \in Have /\ data[c] = dData'[c]
  BY <1>1, <1>4 DEF Covered, BlocksReadable, Stored, Have
<1>6. BlocksReadable' BY <1>1, <1>3, <1>5 DEF Covered, BlocksReadable
<1>7. SizeCovers' BY <1>1, <1>3 DEF Covered, SizeCovers
<1>8. CountTells'
  <2>1. CASE highest = None
    <3>1. \A c \in Stored' : dData'[c] < info.size /\ Height[c] <= info.heightLast
      BY <1>1, <1>5, <2>1 DEF Covered, SizeCovers
    <3>2. \A c \in Stored' : c \in Blocks /\ dData'[c] \in Nat /\ Height[c] \in Nat
      BY <1>2, <1>5, Numbers DEF Have
    <3>3. Uncovered' = {} BY <1>1, <1>2, <3>1, <3>2, Numbers DEF Uncovered
    <3> QED BY <1>1, <3>3 DEF CountTells
  <2>2. CASE highest # None
    <3>1. dData' = dData BY <1>1, <1>2, <2>2 DEF Covered, NotResized, Index
    <3>2. Stored' = Stored /\ Uncovered' = Uncovered BY <1>1, <3>1 DEF Stored, Uncovered
    <3> QED BY <1>1, <2>2, <3>2 DEF Covered, CountTells
  <2> QED BY <2>1, <2>2
<1>9. NotResized'
  <2>1. highest # None => dData' = dData BY <1>1, <1>2 DEF Covered, NotResized, Index
  <2> QED BY <1>1, <2>1 DEF Covered, NotResized
<1> QED BY <1>6, <1>7, <1>8, <1>9 DEF Covered

\* When all entries are written there are as many on disk as in memory.
LEMMA SyncCovered ==
    ASSUME Inv, Covered, Sync PROVE Covered'
<1>1. /\ pc = "index" /\ pc' = "coins" /\ dirty = {} /\ dInfo = info
      /\ UNCHANGED <<blk, dInfo, dData, shutdown, data, info, infoDirty, dirty, highest, then>>
  BY DEF Sync, disk, memory, Inv, DirtyMarked
<1>2. Stored' = Stored /\ Uncovered' = Uncovered /\ Have' = Have
  BY <1>1 DEF Stored, Uncovered, Have
<1>3. Stored = Have BY <1>1 DEF Inv, DirtyMarked, Stored, Have
<1>4. BlocksReadable' BY <1>1, <1>2 DEF Covered, BlocksReadable
<1>5. SizeCovers' BY <1>1, <1>2 DEF Covered, SizeCovers
<1>6. highest = None => Cardinality(Stored) >= dInfo.heightLast + 1
  BY <1>1, <1>3 DEF Covered, SizeCovers
<1>7. CountTells' BY <1>1, <1>2, <1>6 DEF Covered, CountTells
<1>8. NotResized' BY <1>1 DEF Covered, NotResized
<1> QED BY <1>4, <1>5, <1>7, <1>8 DEF Covered

LEMMA FlushCoinsCovered ==
    ASSUME Inv, Covered, FlushCoins PROVE Covered'
<1>1. /\ pc = "coins" /\ pc' \in {"flag", "start", "run"} /\ dirty = {} /\ ~infoDirty
      /\ (pc' = "flag" => then = "down") /\ (pc' = "run" => highest = None)
      /\ UNCHANGED <<blk, dInfo, dData, shutdown, data, info, infoDirty, dirty, highest, then>>
  BY DEF FlushCoins, Inv, DirtyMarked
<1>2. Stored' = Stored /\ Uncovered' = Uncovered /\ Have' = Have
  BY <1>1 DEF Stored, Uncovered, Have
<1>3. BlocksReadable' BY <1>1, <1>2 DEF Covered, BlocksReadable
<1>4. SizeCovers' BY <1>1, <1>2 DEF Covered, SizeCovers
<1>5. CountTells' BY <1>1, <1>2 DEF Covered, CountTells
<1>6. NotResized' BY <1>1 DEF Covered, NotResized
<1> QED BY <1>3, <1>4, <1>5, <1>6 DEF Covered

\* The flag is written when the disk holds all that is in memory.
LEMMA WriteShutdownFlagCovered ==
    ASSUME Inv, Covered, WriteShutdownFlag PROVE Covered'
<1>1. /\ pc = "flag" /\ pc' = "down" /\ then' = "none" /\ highest' = None /\ info' = dInfo
      /\ UNCHANGED <<blk, dInfo, dData>> /\ highest = None /\ dInfo = info
  BY DEF WriteShutdownFlag, Gone, Covered, NotResized, Inv, DirtyMarked
<1>2. TypeOK BY DEF Inv
<1>3. Stored' = Stored /\ Uncovered' = Uncovered BY <1>1 DEF Stored, Uncovered
<1>4. BlocksReadable' BY <1>1, <1>3 DEF Covered, BlocksReadable
<1>5. SizeCovers' BY <1>1, <1>2, Numbers DEF SizeCovers
<1>6. CountTells'
  <2>1. \A b \in Stored : b \in Have /\ b \in Blocks /\ dData[b] < info.size /\ Height[b] <= info.heightLast
    BY <1>1 DEF Covered, BlocksReadable, SizeCovers, Stored, Have
  <2>2. Uncovered = {} BY <1>1, <1>2, <2>1, Numbers DEF Uncovered, Stored
  <2> QED BY <1>1, <1>3, <2>2 DEF Covered, CountTells
<1>7. NotResized' BY <1>1 DEF NotResized
<1> QED BY <1>4, <1>5, <1>6, <1>7 DEF Covered

\* The process is gone without the flag: the file information is that of some block.
LEMMA GoneCovered ==
    ASSUME Inv, Covered, Gone, UNCHANGED <<blk, dInfo, dData, shutdown>>,
           pc = "down" \/ dInfo.heightLast # 0
    PROVE  Covered'
<1>1. pc' = "down" /\ then' = "none" /\ highest' = None /\ info' = dInfo BY DEF Gone
<1>2. TypeOK BY DEF Inv
<1>3. Stored' = Stored /\ Uncovered' = Uncovered BY DEF Stored, Uncovered
<1>4. BlocksReadable' BY <1>1, <1>3 DEF Covered, BlocksReadable
<1>5. SizeCovers' BY <1>1, <1>2, Numbers DEF SizeCovers
<1>6. CountTells' BY <1>1, <1>3 DEF Covered, CountTells, NotResized
<1>7. NotResized' BY <1>1 DEF NotResized
<1> QED BY <1>4, <1>5, <1>6, <1>7 DEF Covered

\* A start that finds nothing inconsistent finds every entry covered.
LEMMA StartCovered ==
    ASSUME Inv, Covered, Start PROVE Covered'
<1>1. /\ pc = "down" /\ pc' = "run" /\ then' = "none" /\ highest' = None /\ ~shutdown' /\ ~Inconsistent
      /\ data' = dData /\ info' = dInfo /\ UNCHANGED <<blk, dInfo, dData>>
  BY DEF Start, Loaded
<1>2. TypeOK BY DEF Inv
<1>3. Stored' = Stored /\ Have' = Stored BY <1>1 DEF Stored, Have
<1>4. Uncovered = {}
  BY <1>1, <1>2, Numbers DEF Inconsistent, Covered, CountTells
<1>5. Cardinality(Stored) >= dInfo.heightLast + 1
  <2>1. CASE shutdown BY <1>1, <2>1 DEF Covered, CountTells
  <2>2. CASE Cardinality(Stored) = dInfo.heightLast + 1 BY <1>2, <2>2, Numbers
  <2>3. CASE dInfo.heightLast = 0
    <3>1. Genesis \in Stored BY <1>2, Types, TreeRoot DEF Inv, ChainstateRecoverable, Stored, TypeOK
    <3>2. Cardinality(Stored) # 0 BY <1>2, <3>1, Numbers, FS_EmptySet
    <3> QED BY <1>2, <2>3, <3>2, Numbers
  <2> QED BY <1>1, <2>1, <2>2, <2>3 DEF Inconsistent
<1>6. BlocksReadable' BY <1>1, <1>3 DEF Covered, BlocksReadable
<1>7. \A b \in Stored : dData[b] < dInfo.size /\ Height[b] <= dInfo.heightLast
  BY <1>2, <1>4, Numbers DEF Uncovered, Stored
<1>8. SizeCovers' BY <1>1, <1>2, <1>3, <1>5, <1>7, Numbers DEF SizeCovers
<1>9. Uncovered' = Uncovered BY <1>1, <1>3 DEF Uncovered
<1>10. CountTells' BY <1>1, <1>3, <1>4, <1>5, <1>9 DEF CountTells
<1>11. NotResized' BY <1>1 DEF NotResized
<1> QED BY <1>6, <1>8, <1>10, <1>11 DEF Covered

\* The repair finds the block it reads again where its entry says, and adds none.
LEMMA StartRepairCovered ==
    ASSUME Inv, Covered, StartRepair PROVE Covered'
<1> DEFINE n == Cardinality(Stored)
<1>1. TypeOK BY DEF Inv
<1>2. n \in Nat /\ dInfo.heightLast \in Nat BY <1>1, Numbers
<1>3. PICK s \in SortedByHeight, i \in (dInfo.heightLast + 2)..n :
          /\ highest' = s[n]
          /\ fault' = IF blk[dData[s[i]]] = s[i] THEN "none" ELSE "mismatch"
          /\ \/ \E c \in Blocks : blk[dData[s[i]]] = c /\ Reprocess(c, dData[s[i]])
             \/ fault' # "none" /\ Unprocessed(highest')
  BY Zenon DEF StartRepair
<1>4. s \in [1..n -> Stored] BY DEF SortedByHeight
<1>5. s[i] \in Stored /\ s[n] \in Stored
  <2>1. i \in 1..n /\ n \in 1..n BY <1>2
  <2> QED BY <1>4, <2>1
<1>6. blk[dData[s[i]]] = s[i] BY <1>5 DEF Covered, BlocksReadable
<1>7. Reprocess(s[i], dData[s[i]]) BY <1>3, <1>6, Zenon
<1>8. /\ pc = "down" /\ pc' = "start" /\ then' = "none" /\ data' = dData /\ info' = dInfo
      /\ highest' \in Blocks /\ dInfo.heightLast # 0 /\ ~shutdown
      /\ UNCHANGED <<blk, dInfo, dData, shutdown>>
  BY <1>3, <1>5, <1>7 DEF Reprocess, StartRepair, Inconsistent, disk, Stored
<1>9. Stored' = Stored /\ Have' = Stored /\ Uncovered' = Uncovered
  BY <1>8 DEF Stored, Have, Uncovered
<1>10. highest' # None BY <1>8, Types
<1>11. BlocksReadable' BY <1>8, <1>9 DEF Covered, BlocksReadable
<1>12. SizeCovers' BY <1>1, <1>8, <1>10, Numbers DEF SizeCovers
<1>13. CountTells' BY <1>8, <1>9 DEF Covered, CountTells
<1>14. NotResized' BY <1>8 DEF NotResized
<1> QED BY <1>11, <1>12, <1>13, <1>14 DEF Covered

LEMMA NextCovered ==
    ASSUME ~EarlyDeath, Inv, Inv', [Next]_vars,
           errors = 0 /\ ~resized => Covered, errors' = 0, ~resized'
    PROVE  Covered'
<1>1. errors \in Nat BY Types DEF Inv, TypeOK
<1>2. ~FlushFails /\ ~RepairInfo
  <2>1. ~FlushFails BY <1>1 DEF FlushFails
  <2>2. ~RepairInfo BY DEF RepairInfo
  <2> QED BY <2>1, <2>2
<1>3. errors = 0 /\ ~resized
  <2>1. CASE StartRepair
    <3>1. (\E c, p : Reprocess(c, p)) \/ \E h : Unprocessed(h) BY <2>1, Zenon DEF StartRepair
    <3>2. errors' = errors BY <2>1 DEF StartRepair
    <3>3. ASSUME NEW c, NEW p, Reprocess(c, p) PROVE ~resized BY <3>3 DEF Reprocess
    <3>4. ASSUME NEW h, Unprocessed(h) PROVE FALSE BY <3>4 DEF Unprocessed
    <3> QED BY <3>1, <3>2, <3>3, <3>4
  <2>2. ASSUME NEW b \in Blocks, AcceptBlock(b) \/ ConnectTip(b) \/ WriteBlockIndex(b)
        PROVE  errors = 0 /\ ~resized
    BY <2>2 DEF AcceptBlock, ConnectTip, WriteBlockIndex, FlushThen, control
  <2>3. CASE DisconnectTip \/ Flush \/ Shutdown \/ WriteBlockFileInfo \/ Sync \/ FlushCoins
    BY <2>3 DEF DisconnectTip, Flush, Shutdown, WriteBlockFileInfo, Sync, FlushCoins, FlushThen
  <2>4. CASE WriteShutdownFlag \/ Die \/ Start \/ StartTorn \/ StartOutOfRange \/ StartAsserts
             \/ StartMismatch \/ StartRepaired
    BY <2>4 DEF WriteShutdownFlag, Die, Start, StartTorn, StartOutOfRange, StartAsserts,
                StartMismatch, StartRepaired, StartFails
  <2>5. CASE UNCHANGED vars BY <2>5 DEF vars, control
  <2> QED BY <1>2, <2>1, <2>2, <2>3, <2>4, <2>5 DEF Next
<1>4. Covered BY <1>3
<1>5. ASSUME NEW b \in Blocks, AcceptBlock(b) \/ ConnectTip(b) \/ WriteBlockIndex(b)
      PROVE  Covered'
  BY <1>4, <1>5, AcceptBlockCovered, ConnectTipCovered, WriteBlockIndexCovered
<1>6. CASE DisconnectTip \/ Flush \/ Shutdown BY <1>4, <1>6, FlushCallCovered
<1>7. CASE WriteBlockFileInfo \/ Sync \/ FlushCoins \/ WriteShutdownFlag
  BY <1>4, <1>7, WriteBlockFileInfoCovered, SyncCovered, FlushCoinsCovered, WriteShutdownFlagCovered
<1>8. CASE Die BY <1>4, <1>8, GoneCovered DEF Die, disk
<1>9. CASE StartTorn \/ StartOutOfRange \/ StartAsserts
  <2>1. pc = "down" \/ dInfo.heightLast # 0
    BY <1>4, <1>9 DEF StartTorn, StartOutOfRange, StartAsserts, Covered, NotResized, Inv, RepairOfStored
  <2> QED BY <1>4, <1>9, <2>1, GoneCovered
          DEF StartTorn, StartOutOfRange, StartAsserts, StartFails, disk
<1>10. CASE StartMismatch \/ StartRepaired
  BY <1>4, <1>10 DEF StartMismatch, StartRepaired, Covered, NotResized
<1>11. CASE Start \/ StartRepair BY <1>4, <1>11, StartCovered, StartRepairCovered
<1>12. CASE UNCHANGED vars
  <2> USE <1>4, <1>12 DEF vars, disk, memory, control, Covered
  <2>1. Stored' = Stored /\ Have' = Have /\ Uncovered' = Uncovered BY DEF Stored, Have, Uncovered
  <2>2. BlocksReadable' BY <2>1 DEF BlocksReadable
  <2>3. SizeCovers' BY <2>1 DEF SizeCovers
  <2>4. CountTells' BY <2>1 DEF CountTells
  <2>5. NotResized' BY DEF NotResized
  <2> QED BY <2>2, <2>3, <2>4, <2>5
<1> QED BY <1>2, <1>5, <1>6, <1>7, <1>8, <1>9, <1>10, <1>11, <1>12 DEF Next

\* A node that died, after its first file information with a block, and starts without
\* LoadBlockIndexDB's repair never has FindBlockPos hand out the place of a block that
\* the block tree database refers to: ConnectBlock may have written entries that the
\* recorded size does not cover, but then their number differs from nHeightLast + 1.
\* Dying earlier, a failed write, and a repair that takes the size from the highest
\* block are the cases in which the code does write over stored blocks.
THEOREM StoredBlocksNeverOverwritten ==
    ASSUME ~EarlyDeath PROVE Spec => []StoredBlocksIntact
<1> DEFINE Safe == errors = 0 /\ ~resized => Covered
<1>1. Init => Safe BY InitCovered
<1>2. Inv /\ Inv' /\ Safe /\ [Next]_vars => Safe' BY NextCovered
<1>3. Safe => StoredBlocksIntact BY DEF Covered, BlocksReadable, StoredBlocksIntact
<1>4. Spec => []Safe
  <2> HIDE DEF Safe
  <2> QED BY <1>1, <1>2, StoreInvariant, PTL DEF Spec
<1> QED BY <1>3, <1>4, PTL
=============================================================================
