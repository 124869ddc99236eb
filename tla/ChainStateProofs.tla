-------------------------- MODULE ChainStateProofs --------------------------
(***************************************************************************)
(* Proofs about ChainState, for any block tree, any number of threads and  *)
(* any bounds: the block index and the candidates are consistent whatever  *)
(* fails; up to the first system error the active chain is valid and no    *)
(* assertion fails; and, when a verdict once given stands and nothing      *)
(* below a failed block is reconsidered, a node at rest is on the best     *)
(* chain it has.                                                           *)
(***************************************************************************)
EXTENDS ChainState, FiniteSetTheorems, TLAPS

-----------------------------------------------------------------------------
\* The tree of blocks.

LEMMA TreeTypes ==
    /\ Genesis \in Blocks /\ Parent \in [Blocks -> Blocks]
    /\ Ancestors \in [Blocks -> SUBSET Blocks]
    /\ Height \in [Blocks -> Nat] /\ Work \in [Blocks -> Nat] /\ Addr \in [Blocks -> Nat]
    /\ IsFiniteSet(Blocks)
BY TreeAssumption DEF TreeAssumption

LEMMA TreeRoot ==
    /\ Parent[Genesis] = Genesis /\ Ancestors[Genesis] = {Genesis}
    /\ \A b \in Blocks : Genesis \in Ancestors[b]
BY TreeAssumption DEF TreeAssumption

\* Every block is above all the blocks before it.
LEMMA TreeStep ==
    ASSUME NEW b \in Blocks, b # Genesis
    PROVE  /\ Parent[b] \in Blocks /\ Ancestors[b] = {b} \cup Ancestors[Parent[b]]
           /\ b \notin Ancestors[Parent[b]] /\ Parent[b] # b
           /\ Work[Parent[b]] < Work[b] /\ Height[Parent[b]] < Height[b]
<1>1. /\ Parent[b] \in Blocks /\ Ancestors[b] = {b} \cup Ancestors[Parent[b]]
      /\ Work[Parent[b]] < Work[b] /\ Height[b] = Height[Parent[b]] + 1
  BY TreeAssumption DEF TreeAssumption
<1>2. Height[Parent[b]] \in Nat BY <1>1, TreeTypes
<1>3. \A a \in Ancestors[Parent[b]] : a = Parent[b] \/ Height[a] < Height[Parent[b]]
  BY <1>1, TreeAssumption DEF TreeAssumption
<1> QED BY <1>1, <1>2, <1>3

LEMMA AncestorSelf == \A b \in Blocks : b \in Ancestors[b] /\ Ancestors[b] \subseteq Blocks
<1> SUFFICES ASSUME NEW b \in Blocks PROVE b \in Ancestors[b] /\ Ancestors[b] \subseteq Blocks
  OBVIOUS
<1>1. b \in Ancestors[b]
  <2>1. CASE b = Genesis BY <2>1, TreeRoot
  <2>2. CASE b # Genesis BY <2>2, TreeStep
  <2> QED BY <2>1, <2>2
<1> QED BY <1>1, TreeTypes

LEMMA AncestorTrans ==
    ASSUME NEW b \in Blocks, NEW a \in Ancestors[b]
    PROVE  a \in Blocks /\ Ancestors[a] \subseteq Ancestors[b]
BY TreeTypes, TreeAssumption DEF TreeAssumption

LEMMA AncestorLess ==
    ASSUME NEW b \in Blocks, NEW a \in Ancestors[b], a # b
    PROVE  Height[a] < Height[b] /\ Work[a] < Work[b]
BY TreeAssumption DEF TreeAssumption

\* A chain does not fork.
LEMMA AncestorLinear ==
    ASSUME NEW b \in Blocks, NEW a \in Ancestors[b], NEW c \in Ancestors[b]
    PROVE  a \in Ancestors[c] \/ c \in Ancestors[a]
BY TreeAssumption DEF TreeAssumption

-----------------------------------------------------------------------------
\* CBlockIndexWorkComparator is a strict total order.

LEMMA OrderTotal ==
    ASSUME NEW s \in [Blocks -> Nat], NEW a \in Blocks, NEW b \in Blocks, a # b
    PROVE  WorseBy(s, a, b) \/ WorseBy(s, b, a)
<1>1. Addr[a] # Addr[b] BY TreeAssumption DEF TreeAssumption
<1> QED BY <1>1, TreeTypes DEF WorseBy

LEMMA OrderIrreflexive ==
    ASSUME NEW s \in [Blocks -> Nat], NEW a \in Blocks
    PROVE  ~WorseBy(s, a, a)
BY TreeTypes DEF WorseBy

LEMMA OrderAsymmetric ==
    ASSUME NEW s \in [Blocks -> Nat], NEW a \in Blocks, NEW b \in Blocks, WorseBy(s, a, b)
    PROVE  ~WorseBy(s, b, a)
BY TreeTypes DEF WorseBy

\* Not to be worse is transitive.
LEMMA OrderTransitive ==
    ASSUME NEW s \in [Blocks -> Nat], NEW a \in Blocks, NEW b \in Blocks, NEW c \in Blocks,
           ~WorseBy(s, a, b), ~WorseBy(s, b, c)
    PROVE  ~WorseBy(s, a, c)
BY TreeTypes DEF WorseBy

\* An ancestor is worse than its descendants, whatever the sequence ids.
LEMMA AncestorWorse ==
    ASSUME NEW s \in [Blocks -> Nat], NEW b \in Blocks, NEW a \in Ancestors[b]
    PROVE  a = b \/ WorseBy(s, a, b)
BY AncestorLess DEF WorseBy

-----------------------------------------------------------------------------
\* Type correctness

LEMMA StepNowLinked ==
    ASSUME TypeOK, NEW b \in Blocks
    PROVE  /\ NowLinked(b) \subseteq Blocks /\ IsFiniteSet(NowLinked(b))
           /\ Cardinality(NowLinked(b)) \in Nat
<1>1. NowLinked(b) \subseteq Blocks BY DEF NowLinked, TypeOK
<1> HIDE DEF NowLinked
<1> QED BY <1>1, TreeTypes, FS_Subset, FS_CardinalityType

LEMMA RaiseType ==
    ASSUME TypeOK, NEW b \in Blocks,
           NEW l \in {VALID_TREE, VALID_TRANSACTIONS, VALID_SCRIPTS}, RaiseValidity(b, l)
    PROVE  level' \in [Blocks -> {0, VALID_TREE, VALID_TRANSACTIONS, VALID_SCRIPTS}]
BY DEF TypeOK, RaiseValidity

\* What the system errors, the requests and the moves of a thread leave typed.
LEMMA ControlType ==
    ASSUME TypeOK, NEW t \in Threads, NEW l \in Pcs
    PROVE  /\ Goto(t, l) => pc' \in [Threads -> Pcs]
           /\ Return(t) => pc' \in [Threads -> Pcs] /\ target' \in [Threads -> Blocks]
           /\ SystemError => /\ fault' = fault /\ aborted' \in BOOLEAN
                             /\ ops' \in 0..MaxOps /\ errors' \in 0..MaxErrors
           /\ ReadError => /\ fault' = fault /\ aborted' \in BOOLEAN
                           /\ ops' \in 0..MaxOps /\ errors' \in 0..MaxErrors
           /\ Request => /\ fault' = fault /\ aborted' \in BOOLEAN
                         /\ ops' \in 0..MaxOps /\ errors' \in 0..MaxErrors
<1> USE TreeTypes, BoundsAssumption DEF TypeOK, BoundsAssumption
<1>1. Goto(t, l) => pc' \in [Threads -> Pcs] BY DEF Goto
<1>2. Return(t) => pc' \in [Threads -> Pcs] /\ target' \in [Threads -> Blocks]
  BY DEF Return, Goto, Pcs
<1>3. SystemError => /\ fault' = fault /\ aborted' \in BOOLEAN
                     /\ ops' \in 0..MaxOps /\ errors' \in 0..MaxErrors
  BY DEF SystemError
<1>4. ReadError => /\ fault' = fault /\ aborted' \in BOOLEAN
                   /\ ops' \in 0..MaxOps /\ errors' \in 0..MaxErrors
  BY DEF ReadError
<1>5. Request => /\ fault' = fault /\ aborted' \in BOOLEAN
                 /\ ops' \in 0..MaxOps /\ errors' \in 0..MaxErrors
  BY DEF Request
<1> QED BY <1>1, <1>2, <1>3, <1>4, <1>5

LEMMA InputType ==
    ASSUME TypeOK, NEW t \in Threads, Input(t)
    PROVE  TypeOK'
<1> USE TreeTypes, BoundsAssumption DEF BoundsAssumption
<1>0. /\ \A l \in {"abc", "inv", "recon"} : Goto(t, l) => pc' \in [Threads -> Pcs]
      /\ SystemError => /\ fault' = fault /\ aborted' \in BOOLEAN
                        /\ ops' \in 0..MaxOps /\ errors' \in 0..MaxErrors
      /\ Request => /\ fault' = fault /\ aborted' \in BOOLEAN
                    /\ ops' \in 0..MaxOps /\ errors' \in 0..MaxErrors
  BY ControlType DEF Pcs
<1>1. ASSUME NEW b \in Blocks, AcceptBlock(t, b) PROVE TypeOK'
  <2>1. pc' \in [Threads -> Pcs] BY <1>0, <1>1 DEF AcceptBlock
  <2>2. CASE b \in data BY <1>1, <2>1, <2>2
    DEF AcceptBlock, TypeOK, index, links, chain, local, health, Healthy
  <2>3. CASE b \notin data
    <3>1. ReceivedBlockTransactions(b) BY <1>1, <2>3 DEF AcceptBlock
    <3>2. level' \in [Blocks -> {0, VALID_TREE, VALID_TRANSACTIONS, VALID_SCRIPTS}]
      BY <3>1, RaiseType DEF ReceivedBlockTransactions
    <3>3. data' \subseteq Blocks /\ UNCHANGED <<failedValid, failedChild, unsaved>>
      BY <3>1 DEF ReceivedBlockTransactions, TypeOK
    <3>4. /\ linked' \subseteq Blocks /\ seq' \in [Blocks -> Nat] /\ nextSeq' \in Nat
          /\ candidates' \subseteq Blocks /\ unlinked' \subseteq Blocks
      <4>1. CASE Parent[b] \notin linked BY <4>1, <3>1 DEF ReceivedBlockTransactions, TypeOK
      <4>2. CASE Parent[b] \in linked
        <5> DEFINE new == NowLinked(b)
        <5>1. new \subseteq Blocks /\ Cardinality(new) \in Nat BY StepNowLinked
        <5>2. PICK s \in QueueOrders(new) :
                /\ linked' = linked \cup new /\ unlinked' = unlinked \ new
                /\ seq' = [x \in Blocks |-> IF x \in new THEN s[x] ELSE seq[x]]
                /\ nextSeq' = nextSeq + Cardinality(new)
                /\ candidates' \subseteq candidates \cup new
          BY <3>1, <4>2 DEF ReceivedBlockTransactions
        <5> HIDE DEF new
        <5>3. s \in [new -> Nat] BY <5>1 DEF QueueOrders, TypeOK
        <5> QED BY <5>1, <5>2, <5>3 DEF TypeOK
      <4> QED BY <4>1, <4>2
    <3> QED BY <1>1, <2>1, <3>2, <3>3, <3>4
      DEF AcceptBlock, TypeOK, chain, health, Healthy
  <2> QED BY <2>2, <2>3
<1>2. ASSUME NEW b \in Blocks, AcceptBlockInvalid(t, b) PROVE TypeOK'
  <2>1. level' \in [Blocks -> {0, VALID_TREE, VALID_TRANSACTIONS, VALID_SCRIPTS}]
    BY <1>2, RaiseType DEF AcceptBlockInvalid
  <2> QED BY <1>2, <2>1
    DEF AcceptBlockInvalid, TypeOK, links, chain, local, health, Healthy
<1>3. ASSUME NEW b \in Blocks, AcceptBlockFails(t, b) PROVE TypeOK'
  <2>1. level' \in [Blocks -> {0, VALID_TREE, VALID_TRANSACTIONS, VALID_SCRIPTS}]
    BY <1>3, RaiseType DEF AcceptBlockFails
  <2> QED BY <1>0, <1>3, <2>1 DEF AcceptBlockFails, TypeOK, links, chain, local
<1>4. ASSUME NEW b \in Blocks, InvalidateBlock(t, b) PROVE TypeOK'
  BY <1>0, <1>4 DEF InvalidateBlock, TypeOK, links, chain
<1>5. ASSUME NEW b \in Blocks, Reconsider(t, b) PROVE TypeOK'
  <2>1. candidates' \subseteq Blocks
    BY <1>5 DEF Reconsider, ReconsiderBlock, Readmitted, Descendants, mapBlockIndex, TypeOK
  <2> QED BY <1>0, <1>5, <2>1 DEF Reconsider, ReconsiderBlock, TypeOK, links, chain
<1>6. ASSUME NEW b \in Blocks, ReprocessReconsider(t, b) PROVE TypeOK'
  <2>1. candidates' \subseteq Blocks
    BY <1>6 DEF ReprocessReconsider, ReconsiderBlock, Readmitted, Descendants,
                mapBlockIndex, TypeOK
  <2> QED BY <1>6, <2>1
    DEF ReprocessReconsider, ReconsiderBlock, TypeOK, links, chain, health, Healthy
<1>7. CASE ReprocessBlocks(t)
  BY <1>0, <1>7 DEF ReprocessBlocks, TypeOK, index, links, chain
<1>8. CASE Restart(t)
  <2>1. pc' \in [Threads -> Pcs] BY <1>0, <1>8 DEF Restart
  <2>2. linked' \subseteq Blocks /\ unlinked' \subseteq Blocks /\ candidates' \subseteq Blocks
    BY <1>8 DEF Restart, TypeOK
  <2>3. failedChild' \subseteq Blocks BY <1>8 DEF Restart, TypeOK
  <2>4. seq' \in [Blocks -> Nat] /\ nextSeq' \in Nat BY <1>8 DEF Restart
  <2>5. fault' \in {"none", "coins", "unlinked", "empty"} /\ aborted' \in BOOLEAN
    BY <1>8 DEF Restart, TypeOK
  <2>6. ops' \in 0..MaxOps BY <1>8 DEF Restart, TypeOK
  <2> QED BY <1>8, <2>1, <2>2, <2>3, <2>4, <2>5, <2>6 DEF Restart, TypeOK
<1> QED BY <1>1, <1>2, <1>3, <1>4, <1>5, <1>6, <1>7, <1>8 DEF Input

LEMMA ThreadStepType ==
    ASSUME TypeOK, NEW t \in Threads, ThreadStep(t)
    PROVE  TypeOK'
<1> USE TreeTypes, BoundsAssumption DEF BoundsAssumption
<1>0. /\ \A l \in Pcs : Goto(t, l) => pc' \in [Threads -> Pcs]
      /\ Return(t) => pc' \in [Threads -> Pcs] /\ target' \in [Threads -> Blocks]
      /\ SystemError => /\ fault' = fault /\ aborted' \in BOOLEAN
                        /\ ops' \in 0..MaxOps /\ errors' \in 0..MaxErrors
      /\ ReadError => /\ fault' = fault /\ aborted' \in BOOLEAN
                      /\ ops' \in 0..MaxOps /\ errors' \in 0..MaxErrors
  BY ControlType DEF Pcs
<1>1. CASE TakeLock(t)
  BY <1>0, <1>1 DEF TakeLock, Pcs, TypeOK, index, links, chain, health, Healthy
<1>2. CASE NothingToDo(t)
  BY <1>0, <1>2 DEF NothingToDo, TypeOK, index, links, chain, health, Healthy
<1>3. CASE DropCandidate(t)
  <2>1. PICK c, b \in Blocks :
          /\ candidates' = candidates \ (From(c, b) \cup {b})
          /\ IF b \in Failed
             THEN /\ failedChild' = failedChild \cup From(c, b)
                  /\ unsaved' = unsaved \cup (From(c, b) \ failedChild)
                  /\ UNCHANGED unlinked
             ELSE /\ unlinked' = unlinked \cup From(c, b)
                  /\ UNCHANGED <<failedChild, unsaved>>
          /\ fault' \in {fault, "unlinked"}
    BY <1>3 DEF DropCandidate
  <2>2. From(c, b) \subseteq Blocks BY DEF From, OffChain
  <2>3. /\ failedChild' \subseteq Blocks /\ unsaved' \subseteq Blocks
        /\ unlinked' \subseteq Blocks /\ candidates' \subseteq Blocks
        /\ fault' \in {"none", "coins", "unlinked", "empty"}
    BY <2>1, <2>2 DEF TypeOK
  <2> QED BY <1>3, <2>3 DEF DropCandidate, TypeOK, chain, local
<1>4. CASE ChooseCandidate(t)
  <2>1. /\ target' \in [Threads -> Blocks] /\ pc' \in [Threads -> Pcs] /\ oldTip' \in Blocks
        /\ fault' \in {"none", "coins", "unlinked", "empty"}
    BY <1>0, <1>4 DEF ChooseCandidate, Pcs, TypeOK
  <2> QED BY <1>4, <2>1 DEF ChooseCandidate, TypeOK, index, links, chain
<1>5. CASE StepDisconnect(t)
  BY <1>0, <1>5 DEF StepDisconnect, DisconnectTip, DisconnectTipFails, TypeOK,
                    index, links, health, Healthy
<1>6. CASE StepAtFork(t)
  BY <1>0, <1>6 DEF StepAtFork, Pcs, TypeOK, index, links, chain, health, Healthy
<1>7. CASE LoopAgain(t)
  BY <1>0, <1>7 DEF LoopAgain, Pcs, TypeOK, index, links, chain, health, Healthy
<1>8. ASSUME NEW b \in Blocks, ConnectTip(t, b) PROVE TypeOK'
  <2>1. level' \in [Blocks -> {0, VALID_TREE, VALID_TRANSACTIONS, VALID_SCRIPTS}]
    BY <1>8, RaiseType DEF ConnectTip
  <2>2. candidates' \subseteq Blocks /\ fault' \in {"none", "coins", "unlinked", "empty"}
    BY <1>8 DEF ConnectTip, Pruned, TypeOK
  <2>3. pc' \in [Threads -> Pcs] /\ oldTip' \in Blocks
    BY <1>0, <1>8 DEF ConnectTip, Pcs, TypeOK
  <2> QED BY <1>8, <2>1, <2>2, <2>3 DEF ConnectTip, TypeOK, links
<1>9. ASSUME NEW b \in Blocks, ConnectTipInvalid(t, b) PROVE TypeOK'
  BY <1>0, <1>9 DEF ConnectTipInvalid, Pcs, TypeOK, links, chain, health, Healthy
<1>10. ASSUME NEW b \in Blocks, ConnectTipCorrupt(t, b) PROVE TypeOK'
  BY <1>0, <1>10 DEF ConnectTipCorrupt, Pcs, TypeOK, index, links, chain, health, Healthy
<1>11. ASSUME NEW b \in Blocks, ConnectTipFails(t, b) PROVE TypeOK'
  <2>1. level' \in [Blocks -> {0, VALID_TREE, VALID_TRANSACTIONS, VALID_SCRIPTS}]
    BY <1>11, RaiseType DEF ConnectTipFails, TypeOK
  <2>2. coinsBest' \in Blocks BY <1>11 DEF ConnectTipFails, TypeOK
  <2> QED BY <1>0, <1>11, <2>1, <2>2 DEF ConnectTipFails, TypeOK, links
<1>12. CASE InvalidateTip(t)
  BY <1>0, <1>12 DEF InvalidateTip, DisconnectTip, DisconnectTipFails, TypeOK,
                     links, health, Healthy
<1>13. CASE InvalidateDone(t)
  BY <1>0, <1>13 DEF InvalidateDone, Pcs, TypeOK, index, links, chain, health, Healthy
<1>14. CASE ReplayStart(t)
  BY <1>0, <1>14 DEF ReplayStart, Pcs, TypeOK, index, links, chain, health, Healthy
<1>15. CASE ReplayDisconnect(t)
  BY <1>0, <1>15 DEF ReplayDisconnect, DisconnectTip, DisconnectTipFails, TypeOK,
                     index, links, health, Healthy
<1>16. CASE ReplayDone(t)
  BY <1>0, <1>16 DEF ReplayDone, Pcs, TypeOK, index, links, chain, health, Healthy
<1>17. CASE CoinsAssertion(t)
  BY <1>17 DEF CoinsAssertion, TypeOK, index, links, chain, local
<1> QED BY <1>1, <1>2, <1>3, <1>4, <1>5, <1>6, <1>7, <1>8, <1>9, <1>10, <1>11, <1>12,
           <1>13, <1>14, <1>15, <1>16, <1>17 DEF ThreadStep

(***************************************************************************)
(* Every variable keeps its type, whatever arrives, fails or is requested. *)
(***************************************************************************)
THEOREM TypeCorrect == Spec => []TypeOK
<1>1. ASSUME Init PROVE TypeOK
  <2> USE <1>1, TreeTypes, BoundsAssumption DEF BoundsAssumption, Init
  <2>1. level \in [Blocks -> {0, VALID_TREE, VALID_TRANSACTIONS, VALID_SCRIPTS}] OBVIOUS
  <2>2. seq \in [Blocks -> Nat] /\ nextSeq \in Nat OBVIOUS
  <2>3. pc \in [Threads -> Pcs] /\ target \in [Threads -> Blocks] BY DEF Pcs
  <2>4. ops \in 0..MaxOps /\ errors \in 0..MaxErrors OBVIOUS
  <2>5. aborted \in BOOLEAN BY Zenon
  <2> QED BY <2>1, <2>2, <2>3, <2>4, <2>5 DEF TypeOK
<1>2. TypeOK /\ [Next]_vars => TypeOK'
  <2> SUFFICES ASSUME TypeOK, [Next]_vars PROVE TypeOK' OBVIOUS
  <2>1. ASSUME NEW b \in Blocks, AcceptBlockHeader(b) PROVE TypeOK'
    <3>1. level' \in [Blocks -> {0, VALID_TREE, VALID_TRANSACTIONS, VALID_SCRIPTS}]
      BY <2>1, RaiseType DEF AcceptBlockHeader
    <3> QED BY <2>1, <3>1
      DEF AcceptBlockHeader, TypeOK, links, chain, local, health, Healthy
  <2>2. CASE UNCHANGED vars
    BY <2>2 DEF vars, TypeOK, index, links, chain, local, health
  <2> QED BY <2>1, <2>2, InputType, ThreadStepType DEF Next
<1> QED BY <1>1, <1>2, PTL DEF Spec

-----------------------------------------------------------------------------
(***************************************************************************)
(* The inductive invariant that holds whatever fails.  It strengthens the  *)
(* invariants of ChainState in that it holds while cs_main is held, too.   *)
(***************************************************************************)

\* At most one thread holds cs_main.
Mutex == \A t, u \in Threads : pc[t] \in Holding /\ pc[u] \in Holding => t = u

\* The parts of a block index entry fit together, and mapBlocksUnlinked has just
\* the stored blocks that are not linked.
IndexInv ==
    /\ \A b \in Blocks : b \in data <=> level[b] >= VALID_TRANSACTIONS
    /\ \A b \in Blocks : b \in linked <=> Ancestors[b] \subseteq data
    /\ \A b \in Blocks : b \notin linked => seq[b] = 0
    /\ \A b \in Blocks : level[b] = VALID_SCRIPTS =>
          \A a \in Ancestors[b] \ {Genesis} : level[a] = VALID_SCRIPTS
    /\ unlinked = data \ linked
    /\ Failed \subseteq mapBlockIndex
    /\ Genesis \in data

\* The tip and the block of the coins were connected once; the candidates can be
\* walked down from and do not sort below the tip.
Verified(b) == b = Genesis \/ level[b] = VALID_SCRIPTS
ChainInv ==
    /\ Verified(tip) /\ Verified(coinsBest)
    /\ candidates \subseteq linked /\ \A c \in candidates : ~Worse(c, tip)
    /\ fault # "unlinked"

\* What a thread that holds cs_main relies on: its pindexMostWork is still the best
\* candidate, with a way of good blocks to it; the block it invalidates is marked.
Stepping(t) ==
    /\ pc[t] \in {"disc", "conn"} =>
          IsBest(target[t]) /\ OffChain(target[t]) \cap Failed = {}
    /\ pc[t] = "conn" => AtFork(t)
    /\ pc[t] = "inv" => target[t] \in failedValid \ {Genesis}
StepInv == \A t \in Threads : Stepping(t)

\* Up to the first system error no assertion failed, the coins follow the tip, and
\* the only mark on the active chain is on the block being invalidated.
SafeInv == errors = 0 =>
    /\ fault = "none" /\ coinsBest = tip
    /\ \A b \in Ancestors[tip] \cap Failed : \E t \in Threads : pc[t] = "inv" /\ target[t] = b

Inv == Mutex /\ IndexInv /\ ChainInv /\ StepInv /\ SafeInv

\* Every step moves the program counter of one thread, which takes cs_main only
\* when nobody has it.
LEMMA OneThreadMoves ==
    ASSUME TypeOK, NEW t \in Threads, Input(t) \/ ThreadStep(t)
    PROVE  \E l \in Pcs : /\ pc' = [pc EXCEPT ![t] = l]
                          /\ l \in Holding => LockFree \/ pc[t] \in Holding
<1>1. pc = [pc EXCEPT ![t] = pc[t]] /\ pc[t] \in Pcs BY DEF TypeOK
<1> USE DEF Goto, Return, Pcs, Holding, local
<1>2. CASE Input(t)
  BY <1>1, <1>2 DEF Input, AcceptBlock, AcceptBlockInvalid, AcceptBlockFails, InvalidateBlock,
        Reconsider, ReprocessReconsider, ReprocessBlocks, Restart
<1>3. ASSUME NEW b \in Blocks,
             \/ ConnectTip(t, b) \/ ConnectTipInvalid(t, b)
             \/ ConnectTipCorrupt(t, b) \/ ConnectTipFails(t, b)
      PROVE  \E l \in Pcs : /\ pc' = [pc EXCEPT ![t] = l]
                            /\ l \in Holding => LockFree \/ pc[t] \in Holding
  BY <1>1, <1>3 DEF ConnectTip, ConnectTipInvalid, ConnectTipCorrupt, ConnectTipFails, IsNext
<1>4. CASE \/ TakeLock(t) \/ NothingToDo(t) \/ DropCandidate(t) \/ ChooseCandidate(t)
           \/ StepDisconnect(t) \/ StepAtFork(t) \/ LoopAgain(t)
  BY <1>1, <1>4 DEF TakeLock, NothingToDo, DropCandidate, ChooseCandidate, StepDisconnect,
        StepAtFork, LoopAgain
<1>5. CASE \/ InvalidateTip(t) \/ InvalidateDone(t) \/ ReplayStart(t)
           \/ ReplayDisconnect(t) \/ ReplayDone(t) \/ CoinsAssertion(t)
  BY <1>1, <1>5 DEF InvalidateTip, InvalidateDone, ReplayStart, ReplayDisconnect, ReplayDone,
        CoinsAssertion
<1> QED BY <1>2, <1>3, <1>4, <1>5 DEF ThreadStep

LEMMA MutexStep ==
    ASSUME TypeOK, Mutex, NEW t \in Threads, Input(t) \/ ThreadStep(t)
    PROVE  Mutex'
<1>1. PICK l \in Pcs : /\ pc' = [pc EXCEPT ![t] = l]
                       /\ l \in Holding => LockFree \/ pc[t] \in Holding
  BY OneThreadMoves
<1>2. \A u \in Threads : pc'[u] = IF u = t THEN l ELSE pc[u] BY <1>1 DEF TypeOK
<1> QED BY <1>1, <1>2 DEF Mutex, LockFree

\* The other threads stay where they are, and outside cs_main if t has it.
LEMMA OthersStay ==
    ASSUME TypeOK, Mutex, NEW t \in Threads, Input(t) \/ ThreadStep(t),
           NEW u \in Threads, u # t
    PROVE  pc'[u] = pc[u] /\ (pc[t] \in Holding => pc[u] \notin Holding)
<1>1. PICK l \in Pcs : pc' = [pc EXCEPT ![t] = l] BY OneThreadMoves
<1> QED BY <1>1 DEF TypeOK, Mutex

-----------------------------------------------------------------------------
\* What follows from IndexInv for the blocks of a chain.

LEMMA LinkedDown ==
    ASSUME IndexInv, NEW b \in linked, b \in Blocks, NEW a \in Ancestors[b]
    PROVE  a \in Blocks /\ a \in linked /\ a \in data
<1>1. a \in Blocks /\ Ancestors[a] \subseteq Ancestors[b] BY AncestorTrans
<1>2. Ancestors[b] \subseteq data BY DEF IndexInv
<1> QED BY <1>1, <1>2 DEF IndexInv

LEMMA VerifiedLinked ==
    ASSUME TypeOK, IndexInv, NEW b \in Blocks, Verified(b)
    PROVE  /\ b \in linked /\ b \in data
           /\ \A a \in Ancestors[b] : a \in linked /\ a \in data /\ Verified(a)
<1>1. \A a \in Ancestors[b] : Verified(a) BY TreeRoot DEF Verified, IndexInv
<1>2. \A a \in Ancestors[b] : a \in data
  <2> TAKE a \in Ancestors[b]
  <2>1. a \in Blocks BY AncestorTrans
  <2>2. CASE a = Genesis BY <2>2 DEF IndexInv
  <2>3. CASE level[a] = VALID_SCRIPTS
    BY <2>1, <2>3 DEF IndexInv, VALID_SCRIPTS, VALID_TRANSACTIONS
  <2> QED BY <1>1, <2>2, <2>3 DEF Verified
<1>3. b \in linked BY <1>2 DEF IndexInv
<1> QED BY <1>1, <1>2, <1>3, LinkedDown, AncestorSelf

\* IndexInv when nothing is stored or connected.
LEMMA IndexKeep ==
    ASSUME TypeOK, IndexInv, UNCHANGED <<data, linked, seq, unlinked>>,
           \A x \in Blocks : /\ level'[x] >= VALID_TRANSACTIONS <=> level[x] >= VALID_TRANSACTIONS
                             /\ level'[x] = VALID_SCRIPTS <=> level[x] = VALID_SCRIPTS,
           Failed' \subseteq mapBlockIndex'
    PROVE  IndexInv'
<1>1. \A b \in Blocks : Ancestors[b] \subseteq Blocks BY TreeTypes
<1>2. (\A b \in Blocks : level[b] = VALID_SCRIPTS =>
          \A a \in Ancestors[b] \ {Genesis} : level[a] = VALID_SCRIPTS)'
  BY <1>1 DEF IndexInv
<1>3. (\A b \in Blocks : b \in data <=> level[b] >= VALID_TRANSACTIONS)' BY DEF IndexInv
<1> QED BY <1>2, <1>3 DEF IndexInv

LEMMA IndexFrame ==
    ASSUME TypeOK, IndexInv, UNCHANGED <<level, data, linked, seq, unlinked>>,
           Failed' \subseteq Failed
    PROVE  IndexInv'
<1>1. Failed' \subseteq mapBlockIndex' BY DEF IndexInv, mapBlockIndex
<1> QED BY <1>1, IndexKeep

\* A header is indexed, or is already.
LEMMA RaiseTree ==
    ASSUME TypeOK, IndexInv, NEW b \in Blocks, b \notin data, RaiseValidity(b, VALID_TREE)
    PROVE  /\ \A x \in Blocks :
                 /\ level'[x] >= VALID_TRANSACTIONS <=> level[x] >= VALID_TRANSACTIONS
                 /\ level'[x] = VALID_SCRIPTS <=> level[x] = VALID_SCRIPTS
           /\ mapBlockIndex \subseteq mapBlockIndex' /\ b \in mapBlockIndex'
<1> USE DEF VALID_TREE, VALID_TRANSACTIONS, VALID_SCRIPTS, TypeOK
<1>1. ~(level[b] >= VALID_TRANSACTIONS) BY DEF IndexInv
<1>2. CASE b \notin Failed /\ level[b] < VALID_TREE
  <2>1. level' = [level EXCEPT ![b] = VALID_TREE] BY <1>2 DEF RaiseValidity
  <2> QED BY <1>1, <1>2, <2>1 DEF mapBlockIndex
<1>3. CASE ~(b \notin Failed /\ level[b] < VALID_TREE)
  <2>1. level' = level BY <1>3 DEF RaiseValidity
  <2>2. b \in mapBlockIndex BY <1>3 DEF IndexInv, mapBlockIndex
  <2> QED BY <2>1, <2>2 DEF mapBlockIndex
<1> QED BY <1>2, <1>3

\* A stored block above a verified one is found valid.
LEMMA IndexVerify ==
    ASSUME TypeOK, IndexInv, NEW b \in Blocks \ {Genesis}, b \in data, b \notin Failed,
           Verified(Parent[b]), RaiseValidity(b, VALID_SCRIPTS),
           UNCHANGED <<data, linked, seq, unlinked, failedValid, failedChild>>
    PROVE  /\ IndexInv' /\ Verified(b)'
           /\ \A x \in Blocks : Verified(x) => Verified(x)'
<1> USE DEF VALID_TREE, VALID_TRANSACTIONS, VALID_SCRIPTS
<1>1. level' = [level EXCEPT ![b] = VALID_SCRIPTS]
  <2>1. level[b] < VALID_SCRIPTS \/ level[b] = VALID_SCRIPTS BY DEF TypeOK
  <2>2. level[b] = VALID_SCRIPTS => level = [level EXCEPT ![b] = VALID_SCRIPTS] BY DEF TypeOK
  <2> QED BY <2>1, <2>2 DEF RaiseValidity
<1>2. \A x \in Blocks : level'[x] = IF x = b THEN VALID_SCRIPTS ELSE level[x]
  BY <1>1 DEF TypeOK
<1>3. (\A x \in Blocks : x \in data <=> level[x] >= VALID_TRANSACTIONS)'
  BY <1>2 DEF IndexInv
<1>4. \A x \in Blocks : level'[x] = VALID_SCRIPTS =>
          \A a \in Ancestors[x] \ {Genesis} : level'[a] = VALID_SCRIPTS
  <2> SUFFICES ASSUME NEW x \in Blocks, level'[x] = VALID_SCRIPTS,
                      NEW a \in Ancestors[x] \ {Genesis}, a # b
               PROVE  level[a] = VALID_SCRIPTS
    <3>1. \A x \in Blocks : Ancestors[x] \subseteq Blocks BY TreeTypes
    <3> QED BY <1>2, <3>1
  <2>1. CASE x # b BY <1>2, <2>1 DEF IndexInv
  <2>2. CASE x = b
    <3>1. Parent[b] \in Blocks /\ a \in Ancestors[Parent[b]] BY <2>2, TreeStep
    <3> QED BY <3>1, TreeRoot DEF Verified, IndexInv
  <2> QED BY <2>1, <2>2
<1>5. (Failed \subseteq mapBlockIndex)'
  BY <1>2 DEF IndexInv, Failed, mapBlockIndex, TypeOK
<1>6. IndexInv' BY <1>3, <1>4, <1>5 DEF IndexInv
<1> QED BY <1>2, <1>6 DEF Verified

-----------------------------------------------------------------------------
\* Frames: what a step has to keep for a part of the invariant to survive it.

LEMMA GotoAt ==
    ASSUME TypeOK, NEW t \in Threads, NEW l
    PROVE  /\ Goto(t, l) => pc'[t] = l
           /\ Return(t) => /\ pc'[t] = "idle" /\ target'[t] = Genesis
                           /\ \A u \in Threads \ {t} : target'[u] = target[u]
BY DEF Goto, Return, TypeOK

LEMMA ChainFrame ==
    ASSUME TypeOK, ChainInv, UNCHANGED <<linked, seq, tip>>, candidates' \subseteq candidates,
           \A x \in Blocks : Verified(x) => Verified(x)',
           Verified(coinsBest)', fault' # "unlinked"
    PROVE  ChainInv'
<1>1. Verified(tip)' BY DEF ChainInv, TypeOK, Verified
<1> QED BY <1>1 DEF ChainInv, Worse

\* A step that ends outside the parts that use a target.
LEMMA LeavesLock ==
    ASSUME TypeOK, Mutex, NEW t \in Threads, Input(t) \/ ThreadStep(t),
           LockFree \/ pc[t] \in Holding, pc'[t] \notin {"disc", "conn", "inv"}
    PROVE  StepInv' /\ \A u \in Threads : pc'[u] \notin {"disc", "conn", "inv"}
<1>1. \A u \in Threads : pc'[u] \notin {"disc", "conn", "inv"}
  <2> TAKE u \in Threads
  <2>1. CASE u = t BY <2>1
  <2>2. CASE u # t BY <2>2, OthersStay DEF LockFree, Holding
  <2> QED BY <2>1, <2>2
<1> QED BY <1>1 DEF StepInv, Stepping

LEMMA SafeFrame ==
    ASSUME TypeOK, SafeInv, UNCHANGED chain, Failed' \subseteq Failed,
           errors' = 0 => errors = 0 /\ fault' = "none",
           \A u \in Threads : pc[u] = "inv" => pc'[u] = "inv" /\ target'[u] = target[u]
    PROVE  SafeInv'
BY DEF SafeInv, chain

\* While nobody invalidates a block, the active chain has no mark on it.
LEMMA Unmarked ==
    ASSUME SafeInv, errors = 0, \A u \in Threads : pc[u] # "inv"
    PROVE  Ancestors[tip] \cap Failed = {}
BY DEF SafeInv

\* Steps that only move the thread.
LEMMA MoveInv ==
    ASSUME TypeOK, Inv, NEW t \in Threads, Input(t) \/ ThreadStep(t),
           UNCHANGED <<index, links, candidates, chain>>,
           fault' # "unlinked", errors' = 0 => errors = 0 /\ fault' = "none",
           pc[t] = "inv" => pc'[t] = "inv" /\ target'[t] = target[t],
           \A u \in Threads \ {t} : target'[u] = target[u], Stepping(t)'
    PROVE  Inv'
<1> USE DEF Inv
<1>1. Mutex' BY MutexStep
<1>2. \A u \in Threads \ {t} : pc'[u] = pc[u] BY OthersStay
<1>3. Failed' = Failed /\ UNCHANGED <<level, data, linked, seq, unlinked>>
  BY DEF Failed, index, links
<1>4. IndexInv' BY <1>3, IndexFrame
<1>5. ChainInv' BY <1>3, ChainFrame DEF Verified, ChainInv, chain
<1>6. StepInv'
  <2>1. ASSUME NEW u \in Threads, u # t PROVE Stepping(u)'
    <3>1. Stepping(u) BY DEF StepInv
    <3>2. pc'[u] = pc[u] /\ target'[u] = target[u] /\ tip' = tip /\ seq' = seq
          /\ candidates' = candidates /\ failedValid' = failedValid
      BY <1>2, <1>3, <2>1 DEF chain, index
    <3> QED BY <3>1, <3>2, <1>3 DEF Stepping, IsBest, Worse, OffChain, AtFork
  <2> QED BY <2>1 DEF StepInv
<1>7. SafeInv' BY <1>2, <1>3, SafeFrame
<1> QED BY <1>1, <1>4, <1>5, <1>6, <1>7

LEMMA ThreadMovesInv ==
    ASSUME TypeOK, Inv, NEW t \in Threads, ThreadStep(t),
           \/ TakeLock(t) \/ NothingToDo(t) \/ ChooseCandidate(t) \/ StepAtFork(t)
           \/ LoopAgain(t) \/ ReplayStart(t) \/ ReplayDone(t) \/ CoinsAssertion(t)
           \/ \E b \in Blocks : ConnectTipCorrupt(t, b)
    PROVE  Inv'
<1> USE GotoAt
<1>0. /\ fault # "unlinked" /\ (errors = 0 => fault = "none" /\ coinsBest = tip)
      /\ Stepping(t)
  BY DEF Inv, ChainInv, SafeInv, StepInv
<1>1. CASE TakeLock(t)
  <2>1. Stepping(t)' BY <1>1 DEF TakeLock, Stepping
  <2> QED BY <1>0, <1>1, <2>1, MoveInv DEF TakeLock, Healthy, health
<1>2. CASE NothingToDo(t)
  <2>1. Stepping(t)' BY <1>2 DEF NothingToDo, Stepping
  <2> QED BY <1>0, <1>2, <2>1, MoveInv DEF NothingToDo, Healthy, health
<1>3. CASE ChooseCandidate(t)
  <2>1. PICK c \in Blocks \ {tip} :
          /\ IsBest(c) /\ \A b \in OffChain(c) : ~Unusable(b)
          /\ target' = [target EXCEPT ![t] = c]
          /\ fault' = IF OffChain(c) \subseteq linked THEN fault ELSE "unlinked"
    BY <1>3 DEF ChooseCandidate
  <2>2. OffChain(c) \subseteq linked
    BY <2>1, LinkedDown DEF OffChain, IsBest, Inv, ChainInv
  <2>3. pc'[t] = "disc" /\ target'[t] = c
    BY <1>3, <2>1 DEF ChooseCandidate, TypeOK
  <2>4. UNCHANGED <<candidates, seq, tip, failedValid, failedChild>>
    BY <1>3 DEF ChooseCandidate, index, links, chain
  <2>5. Stepping(t)'
    BY <2>1, <2>3, <2>4 DEF Stepping, IsBest, Worse, OffChain, Unusable, Failed
  <2>6. \A u \in Threads \ {t} : target'[u] = target[u] BY <2>1 DEF TypeOK
  <2>7. fault' = fault BY <2>1, <2>2
  <2> QED BY <1>0, <1>3, <2>5, <2>6, <2>7, MoveInv DEF ChooseCandidate
<1>4. CASE StepAtFork(t)
  <2>1. UNCHANGED <<candidates, seq, tip, failedValid, failedChild>>
    BY <1>4 DEF StepAtFork, index, links, chain
  <2>2. pc[t] = "disc" /\ AtFork(t) /\ pc'[t] \in {"loop", "conn"} /\ UNCHANGED target
    BY <1>4 DEF StepAtFork
  <2>3. Stepping(t)'
    BY <1>0, <2>1, <2>2 DEF Stepping, IsBest, Worse, OffChain, AtFork, Failed
  <2> QED BY <1>0, <1>4, <2>3, MoveInv DEF StepAtFork, Healthy, health
<1>5. CASE LoopAgain(t)
  <2>1. pc[t] = "loop" /\ pc'[t] \in {"abc", "idle"} BY <1>5 DEF LoopAgain
  <2>2. Stepping(t)' BY <2>1 DEF Stepping
  <2>3. \A u \in Threads \ {t} : target'[u] = target[u] BY <1>5 DEF LoopAgain
  <2> QED BY <1>0, <1>5, <2>1, <2>2, <2>3, MoveInv DEF LoopAgain, Healthy, health
<1>6. CASE ReplayStart(t)
  <2>1. Stepping(t)' BY <1>6 DEF ReplayStart, Stepping
  <2> QED BY <1>0, <1>6, <2>1, MoveInv DEF ReplayStart, Healthy, health
<1>7. CASE ReplayDone(t)
  <2>1. Stepping(t)' BY <1>7 DEF ReplayDone, Stepping
  <2> QED BY <1>0, <1>7, <2>1, MoveInv DEF ReplayDone, Healthy, health
<1>8. CASE CoinsAssertion(t)
  <2>1. UNCHANGED <<pc, target, candidates, seq, tip, failedValid, failedChild>>
    BY <1>8 DEF CoinsAssertion, index, links, chain, local
  <2>2. Stepping(t)' BY <1>0, <2>1 DEF Stepping, IsBest, Worse, OffChain, AtFork, Failed
  <2>3. errors' = errors /\ errors # 0 /\ fault' = "coins" BY <1>0, <1>8 DEF CoinsAssertion
  <2> QED BY <1>8, <2>1, <2>2, <2>3, MoveInv DEF CoinsAssertion
<1>9. ASSUME NEW b \in Blocks, ConnectTipCorrupt(t, b) PROVE Inv'
  <2>1. Stepping(t)' BY <1>9 DEF ConnectTipCorrupt, Stepping
  <2> QED BY <1>0, <1>9, <2>1, MoveInv DEF ConnectTipCorrupt, IsNext, Healthy, health
<1> QED BY <1>1, <1>2, <1>3, <1>4, <1>5, <1>6, <1>7, <1>8, <1>9

LEMMA ReprocessBlocksInv ==
    ASSUME TypeOK, Inv, NEW t \in Threads, ReprocessBlocks(t)
    PROVE  Inv'
<1>1. pc[t] = "idle" /\ pc'[t] = "recon" BY GotoAt DEF ReprocessBlocks
<1>2. Stepping(t)' BY <1>1 DEF Stepping
<1>3. fault' # "unlinked" /\ (errors' = 0 => errors = 0 /\ fault' = "none")
  BY DEF ReprocessBlocks, Request, Inv, ChainInv
<1> QED BY <1>1, <1>2, <1>3, MoveInv DEF ReprocessBlocks, Input

-----------------------------------------------------------------------------
\* Headers and blocks arrive.

LEMMA AcceptBlockHeaderInv ==
    ASSUME TypeOK, Inv, NEW b \in Blocks, AcceptBlockHeader(b)
    PROVE  Inv'
<1> USE DEF Inv
<1>1. UNCHANGED <<data, failedValid, failedChild, linked, seq, unlinked, candidates, tip,
                  coinsBest, pc, target, fault, errors>>
  BY DEF AcceptBlockHeader, links, chain, local, Healthy, health
<1>2. b \notin data
  BY DEF AcceptBlockHeader, IndexInv, mapBlockIndex, TypeOK,
         VALID_TREE, VALID_TRANSACTIONS, VALID_SCRIPTS
<1>3. /\ \A x \in Blocks :
            /\ level'[x] >= VALID_TRANSACTIONS <=> level[x] >= VALID_TRANSACTIONS
            /\ level'[x] = VALID_SCRIPTS <=> level[x] = VALID_SCRIPTS
      /\ mapBlockIndex \subseteq mapBlockIndex'
  BY <1>2, RaiseTree DEF AcceptBlockHeader
<1>4. Failed' = Failed BY <1>1 DEF Failed
<1>5. Mutex' BY <1>1 DEF Mutex
<1>6. IndexInv' BY <1>1, <1>3, <1>4, IndexKeep DEF IndexInv
<1>7. ChainInv' BY <1>1, <1>3, ChainFrame DEF Verified, ChainInv, TypeOK
<1>8. StepInv' BY <1>1 DEF StepInv, Stepping, LockFree, Holding, AcceptBlockHeader
<1>9. SafeInv' BY <1>1, <1>4 DEF SafeInv
<1> QED BY <1>5, <1>6, <1>7, <1>8, <1>9

\* Just the blocks whose last missing block is b become linked with it.
LEMMA NewlyLinked ==
    ASSUME TypeOK, IndexInv, NEW b \in Blocks, b # Genesis, b \notin data, Parent[b] \in linked,
           NEW d \in Blocks
    PROVE  d \in NowLinked(b) <=> Ancestors[d] \subseteq data \cup {b} /\ d \notin linked
<1>1. /\ Ancestors[b] = {b} \cup Ancestors[Parent[b]] /\ Parent[b] \in Blocks BY TreeStep
<1>2. Ancestors[Parent[b]] \subseteq data /\ unlinked = data \ linked
      /\ (d \in linked <=> Ancestors[d] \subseteq data)
  BY <1>1 DEF IndexInv
<1>3. d \in Ancestors[d] /\ Ancestors[d] \subseteq Blocks BY AncestorSelf
<1>4. ASSUME d \in NowLinked(b)
      PROVE  Ancestors[d] \subseteq data \cup {b} /\ d \notin linked
  BY <1>1, <1>2, <1>4 DEF NowLinked
<1>5. ASSUME Ancestors[d] \subseteq data \cup {b}, d \notin linked
      PROVE  d \in NowLinked(b)
  <2>1. b \in Ancestors[d] BY <1>2, <1>5
  <2>2. ASSUME NEW x \in Ancestors[d] \ Ancestors[b] PROVE x \in unlinked
    <3>1. b \in Ancestors[x] /\ x \in Blocks BY <2>1, <1>3, AncestorLinear
    <3>2. x \in data /\ x \notin linked BY <3>1, <1>1, <1>5 DEF IndexInv
    <3> QED BY <3>2, <1>2
  <2> QED BY <1>2, <1>3, <1>5, <2>1, <2>2 DEF NowLinked
<1> QED BY <1>4, <1>5

\* What the arrival of b changes: the levels, the links, and the candidates among
\* the blocks that become linked.
LEMMA ReceivedInv ==
    ASSUME TypeOK, TypeOK', IndexInv, ChainInv, NEW b \in Blocks, b # Genesis, b \notin data,
           b \notin Failed, ReceivedBlockTransactions(b), UNCHANGED chain, UNCHANGED fault
    PROVE  /\ IndexInv' /\ ChainInv' /\ Failed' = Failed
           /\ \A x \in Blocks : Verified(x)' <=> Verified(x)
           /\ \A x \in linked : x \in linked' /\ seq'[x] = seq[x]
           /\ candidates \subseteq candidates'
           /\ \A x \in linked' \ linked : x \in candidates' \/ Worse(x, tip)'
<1> USE DEF VALID_TREE, VALID_TRANSACTIONS, VALID_SCRIPTS
<1>1. /\ data' = data \cup {b} /\ UNCHANGED <<failedValid, failedChild, tip, coinsBest>>
      /\ RaiseValidity(b, VALID_TRANSACTIONS)
  BY DEF ReceivedBlockTransactions, chain
<1>2. Failed' = Failed BY <1>1 DEF Failed
<1>3. \A x \in Blocks : level'[x] = IF x = b THEN VALID_TRANSACTIONS ELSE level[x]
  <2>1. level[b] < VALID_TRANSACTIONS BY DEF IndexInv, TypeOK
  <2> QED BY <1>1, <2>1 DEF RaiseValidity, TypeOK
<1>4. level[b] # VALID_SCRIPTS BY DEF IndexInv
<1>5. \A x \in Blocks : level'[x] = VALID_SCRIPTS <=> level[x] = VALID_SCRIPTS
  BY <1>3, <1>4
<1>6. \A x \in Blocks : Verified(x)' <=> Verified(x) BY <1>5 DEF Verified
<1>7. b \in Ancestors[b] /\ Ancestors[b] = {b} \cup Ancestors[Parent[b]]
      /\ b \notin Ancestors[Parent[b]] /\ Parent[b] \in Blocks
  BY AncestorSelf, TreeStep
<1>8. b \notin linked BY <1>7 DEF IndexInv
<1>9. /\ \A x \in Blocks : x \in linked' <=> Ancestors[x] \subseteq data'
      /\ unlinked' = data' \ linked'
      /\ \A x \in linked : x \in linked' /\ seq'[x] = seq[x]
      /\ \A x \in Blocks : x \notin linked' => seq'[x] = seq[x]
      /\ candidates \subseteq candidates' /\ candidates' \subseteq candidates \cup linked'
      /\ \A x \in candidates' \ candidates : ~WorseBy(seq', x, tip)
      /\ \A x \in linked' \ linked : x \in candidates' \/ WorseBy(seq', x, tip)
  <2>1. CASE Parent[b] \in linked
    <3> DEFINE new == NowLinked(b)
    <3>1. \A d \in Blocks : d \in new <=> Ancestors[d] \subseteq data \cup {b} /\ d \notin linked
      BY <2>1, NewlyLinked
    <3>2. PICK s \in QueueOrders(new) :
            /\ linked' = linked \cup new /\ unlinked' = unlinked \ new
            /\ seq' = [x \in Blocks |-> IF x \in new THEN s[x] ELSE seq[x]]
            /\ candidates' = candidates \cup {x \in new : ~WorseBy(seq', x, tip)}
      BY <2>1 DEF ReceivedBlockTransactions
    <3>3. new \subseteq Blocks BY StepNowLinked
    <3> HIDE DEF new
    <3>4. \A x \in Blocks : x \in linked' <=> Ancestors[x] \subseteq data'
      BY <1>1, <3>1, <3>2 DEF IndexInv
    <3>5. b \in new
      <4>1. Ancestors[Parent[b]] \subseteq data BY <2>1, <1>7 DEF IndexInv
      <4> QED BY <3>1, <4>1, <1>7, <1>8
    <3>6. unlinked' = data' \ linked' BY <1>1, <3>2, <3>5 DEF IndexInv
    <3>7. linked \subseteq Blocks /\ linked \cap new = {} BY <3>1 DEF TypeOK
    <3>8. \A x \in linked : x \in linked' /\ seq'[x] = seq[x] BY <3>2, <3>7
    <3>9. \A x \in Blocks : x \notin linked' => seq'[x] = seq[x] BY <3>2
    <3>10. /\ candidates \subseteq candidates' /\ candidates' \subseteq candidates \cup linked'
           /\ \A x \in candidates' \ candidates : ~WorseBy(seq', x, tip)
           /\ \A x \in linked' \ linked : x \in candidates' \/ WorseBy(seq', x, tip)
      BY <3>2
    <3> QED BY <3>4, <3>6, <3>8, <3>9, <3>10
  <2>2. CASE Parent[b] \notin linked
    <3>1. /\ unlinked' = unlinked \cup {b} /\ UNCHANGED <<linked, seq, candidates>>
      BY <2>2 DEF ReceivedBlockTransactions
    <3>2. ASSUME NEW x \in Blocks, Ancestors[x] \subseteq data \cup {b} PROVE b \notin Ancestors[x]
      <4>1. SUFFICES ASSUME b \in Ancestors[x] PROVE FALSE OBVIOUS
      <4>2. Ancestors[b] \subseteq Ancestors[x] BY <4>1, AncestorTrans
      <4>3. Ancestors[Parent[b]] \subseteq data BY <1>7, <3>2, <4>2
      <4> QED BY <2>2, <4>3, <1>7 DEF IndexInv
    <3>3. \A x \in Blocks : x \in linked' <=> Ancestors[x] \subseteq data'
      BY <1>1, <3>1, <3>2 DEF IndexInv
    <3>4. unlinked' = data' \ linked' BY <1>1, <1>8, <3>1 DEF IndexInv
    <3> QED BY <3>1, <3>3, <3>4
  <2> QED BY <2>1, <2>2
<1>10. IndexInv'
  <2>1. (\A x \in Blocks : x \in data <=> level[x] >= VALID_TRANSACTIONS)'
    BY <1>1, <1>3 DEF IndexInv
  <2>2. (\A x \in Blocks : x \notin linked => seq[x] = 0)' BY <1>9 DEF IndexInv, TypeOK
  <2>3. (\A x \in Blocks : level[x] = VALID_SCRIPTS =>
            \A a \in Ancestors[x] \ {Genesis} : level[a] = VALID_SCRIPTS)'
    <3>1. \A x \in Blocks : Ancestors[x] \subseteq Blocks BY TreeTypes
    <3> QED BY <1>5, <3>1 DEF IndexInv
  <2>4. (Failed \subseteq mapBlockIndex)'
    BY <1>2, <1>3 DEF IndexInv, mapBlockIndex, TypeOK
  <2>5. Genesis \in data' BY <1>1 DEF IndexInv
  <2> QED BY <1>9, <2>1, <2>2, <2>3, <2>4, <2>5 DEF IndexInv
<1>11. ChainInv'
  <2>1. Verified(tip)' /\ Verified(coinsBest)' BY <1>1, <1>6 DEF ChainInv, TypeOK, Verified
  <2>2. tip \in linked BY VerifiedLinked DEF ChainInv, TypeOK
  <2>3. candidates' \subseteq linked' BY <1>9 DEF ChainInv
  <2>4. \A c \in candidates' : ~WorseBy(seq', c, tip)
    <3> TAKE c \in candidates'
    <3>1. CASE c \in candidates
      <4>1. seq'[c] = seq[c] /\ seq'[tip] = seq[tip] BY <1>9, <2>2, <3>1 DEF ChainInv
      <4>2. ~WorseBy(seq, c, tip) BY <3>1 DEF ChainInv, Worse
      <4> QED BY <4>1, <4>2 DEF WorseBy
    <3>2. CASE c \notin candidates BY <1>9, <3>2
    <3> QED BY <3>1, <3>2
  <2> QED BY <1>1, <2>1, <2>3, <2>4 DEF ChainInv, Worse
<1>12. \A x \in linked' \ linked : x \in candidates' \/ Worse(x, tip)'
  BY <1>1, <1>9 DEF Worse
<1> QED BY <1>2, <1>6, <1>9, <1>10, <1>11, <1>12

LEMMA AcceptBlockInv ==
    ASSUME TypeOK, TypeOK', Inv, NEW t \in Threads, NEW b \in Blocks, b # Genesis,
           AcceptBlock(t, b), Input(t)
    PROVE  Inv'
<1> USE DEF Inv
<1>1. /\ pc[t] = "idle" /\ pc'[t] = "abc" /\ LockFree
      /\ UNCHANGED <<target, chain, fault, errors>>
  BY GotoAt DEF AcceptBlock, MayAccept, Healthy, health
<1>2. CASE b \in data
  <2>1. Stepping(t)' BY <1>1 DEF Stepping
  <2>2. UNCHANGED <<index, links, candidates, chain>> BY <1>2 DEF AcceptBlock
  <2> QED BY <1>1, <2>1, <2>2, MoveInv DEF SafeInv, ChainInv
<1>3. CASE b \notin data
  <2>1. ReceivedBlockTransactions(b) BY <1>3 DEF AcceptBlock
  <2>2. b \notin Failed
    BY DEF AcceptBlock, MayAccept, HeaderAccepted, IndexInv
  <2>3. IndexInv' /\ ChainInv' /\ Failed' = Failed BY <1>1, <1>3, <2>1, <2>2, ReceivedInv
  <2>4. Mutex' BY MutexStep
  <2>5. StepInv' BY <1>1, LeavesLock
  <2>6. SafeInv' BY <1>1, <2>3, SafeFrame DEF LockFree, Holding, SafeInv
  <2> QED BY <2>3, <2>4, <2>5, <2>6
<1> QED BY <1>2, <1>3

LEMMA AcceptBlockInvalidInv ==
    ASSUME TypeOK, Inv, NEW t \in Threads, NEW b \in Blocks, AcceptBlockInvalid(t, b), Input(t)
    PROVE  Inv'
<1> USE DEF Inv
<1>1. /\ UNCHANGED <<data, failedChild, linked, seq, unlinked, candidates, tip,
                     coinsBest, pc, target, fault, errors>>
      /\ failedValid' = failedValid \cup {b} /\ b \notin data /\ LockFree
  BY DEF AcceptBlockInvalid, MayAccept, links, chain, local, Healthy, health
<1>2. /\ \A x \in Blocks :
            /\ level'[x] >= VALID_TRANSACTIONS <=> level[x] >= VALID_TRANSACTIONS
            /\ level'[x] = VALID_SCRIPTS <=> level[x] = VALID_SCRIPTS
      /\ mapBlockIndex \subseteq mapBlockIndex' /\ b \in mapBlockIndex'
  BY <1>1, RaiseTree DEF AcceptBlockInvalid
<1>3. Failed' = Failed \cup {b} BY <1>1 DEF Failed
<1>4. Mutex' BY <1>1 DEF Mutex
<1>5. IndexInv' BY <1>1, <1>2, <1>3, IndexKeep DEF IndexInv
<1>6. ChainInv' BY <1>1, <1>2, ChainFrame DEF Verified, ChainInv, TypeOK
<1>7. StepInv' BY <1>1 DEF StepInv, Stepping, LockFree, Holding
<1>8. SafeInv'
  <2>1. b \notin Ancestors[tip] BY <1>1, VerifiedLinked DEF ChainInv, TypeOK
  <2> QED BY <1>1, <1>3, <2>1 DEF SafeInv
<1> QED BY <1>4, <1>5, <1>6, <1>7, <1>8

LEMMA AcceptBlockFailsInv ==
    ASSUME TypeOK, Inv, NEW t \in Threads, NEW b \in Blocks, AcceptBlockFails(t, b), Input(t)
    PROVE  Inv'
<1> USE DEF Inv
<1>1. /\ UNCHANGED <<data, failedValid, failedChild, linked, seq, unlinked, candidates, tip,
                     coinsBest, pc, target, fault>>
      /\ b \notin data /\ LockFree /\ errors' = errors + 1
  BY DEF AcceptBlockFails, MayAccept, links, chain, local, SystemError
<1>2. /\ \A x \in Blocks :
            /\ level'[x] >= VALID_TRANSACTIONS <=> level[x] >= VALID_TRANSACTIONS
            /\ level'[x] = VALID_SCRIPTS <=> level[x] = VALID_SCRIPTS
      /\ mapBlockIndex \subseteq mapBlockIndex'
  BY <1>1, RaiseTree DEF AcceptBlockFails
<1>3. Failed' = Failed BY <1>1 DEF Failed
<1>4. Mutex' BY <1>1 DEF Mutex
<1>5. IndexInv' BY <1>1, <1>2, <1>3, IndexKeep DEF IndexInv
<1>6. ChainInv' BY <1>1, <1>2, ChainFrame DEF Verified, ChainInv, TypeOK
<1>7. StepInv' BY <1>1 DEF StepInv, Stepping, LockFree, Holding
<1>8. SafeInv' BY <1>1 DEF SafeInv, TypeOK
<1> QED BY <1>4, <1>5, <1>6, <1>7, <1>8

-----------------------------------------------------------------------------
\* Requests and the restart

LEMMA InvalidateBlockInv ==
    ASSUME TypeOK, Inv, NEW t \in Threads, NEW b \in Blocks, InvalidateBlock(t, b), Input(t)
    PROVE  Inv'
<1> USE DEF Inv
<1>1. /\ UNCHANGED <<level, data, failedChild, linked, seq, unlinked, tip, coinsBest,
                     fault, errors>>
      /\ failedValid' = failedValid \cup {b} /\ candidates' = candidates \ {b}
      /\ LockFree /\ b \in mapBlockIndex \ {Genesis}
  BY DEF InvalidateBlock, links, chain, Request
<1>2. pc'[t] = "inv" /\ target'[t] = b BY GotoAt DEF InvalidateBlock, TypeOK
<1>3. Failed' = Failed \cup {b} BY <1>1 DEF Failed
<1>4. mapBlockIndex' = mapBlockIndex BY <1>1 DEF mapBlockIndex
<1>5. Mutex' BY MutexStep
<1>6. IndexInv' BY <1>1, <1>3, <1>4, IndexKeep DEF IndexInv
<1>7. ChainInv' BY <1>1, ChainFrame DEF Verified, ChainInv
<1>8. StepInv'
  <2>1. \A u \in Threads \ {t} : pc'[u] \notin Holding BY <1>1, OthersStay DEF LockFree
  <2> QED BY <1>1, <1>2, <2>1 DEF StepInv, Stepping, Holding
<1>9. SafeInv'
  <2>1. SUFFICES ASSUME errors = 0
                 PROVE  /\ fault' = "none" /\ coinsBest' = tip'
                        /\ Ancestors[tip'] \cap Failed' \subseteq {b}
    BY <1>1, <1>2 DEF SafeInv
  <2>2. Ancestors[tip] \cap Failed = {} BY <1>1, <2>1, Unmarked DEF LockFree, Holding
  <2> QED BY <1>1, <1>3, <2>1, <2>2 DEF SafeInv
<1> QED BY <1>5, <1>6, <1>7, <1>8, <1>9

\* Marks are cleared, and what is better than the tip is a candidate again.
LEMMA ReconsiderInv ==
    ASSUME TypeOK, Inv, NEW b \in Blocks, ReconsiderBlock(b), LockFree,
           UNCHANGED <<links, chain, target, fault, errors>>
    PROVE  IndexInv' /\ ChainInv'
<1> USE DEF Inv
<1>1. /\ UNCHANGED <<level, data, linked, seq, unlinked, tip, coinsBest>>
      /\ candidates' = candidates \cup Readmitted(b)
  BY DEF ReconsiderBlock, links, chain
<1>2. Failed' \subseteq Failed BY DEF ReconsiderBlock, Failed
<1>3. \A c \in Readmitted(b) : c \in linked /\ ~Worse(c, tip)
  BY OrderAsymmetric DEF Readmitted, Descendants, mapBlockIndex, Worse, TypeOK
<1>4. IndexInv' BY <1>1, <1>2, IndexFrame
<1>5. ChainInv' BY <1>1, <1>3 DEF ChainInv, Verified, Worse
<1> QED BY <1>4, <1>5

LEMMA ReconsiderSafe ==
    ASSUME TypeOK, Inv, NEW b \in Blocks, ReconsiderBlock(b), LockFree,
           UNCHANGED <<chain, fault, errors>>
    PROVE  SafeInv'
<1>1. Failed' \subseteq Failed BY DEF ReconsiderBlock, Failed
<1> QED BY <1>1, SafeFrame DEF Inv, SafeInv, LockFree, Holding

LEMMA ReconsiderStepsInv ==
    ASSUME TypeOK, Inv, NEW t \in Threads, NEW b \in Blocks, Input(t),
           Reconsider(t, b) \/ ReprocessReconsider(t, b)
    PROVE  Inv'
<1>1. /\ LockFree /\ ReconsiderBlock(b) /\ UNCHANGED <<links, chain, target, fault, errors>>
  BY DEF Reconsider, ReprocessReconsider, Request, Healthy, health
<1>2. pc'[t] \in {"abc", "recon"} BY GotoAt DEF Reconsider, ReprocessReconsider
<1>3. IndexInv' /\ ChainInv' BY <1>1, ReconsiderInv
<1>4. SafeInv' BY <1>1, ReconsiderSafe
<1>5. StepInv' BY <1>1, <1>2, LeavesLock DEF Inv
<1>6. Mutex' BY MutexStep DEF Inv
<1> QED BY <1>3, <1>4, <1>5, <1>6 DEF Inv

LEMMA RestartInv ==
    ASSUME TypeOK, TypeOK', Inv, NEW t \in Threads, Restart(t), Input(t)
    PROVE  /\ Inv' /\ linked' = linked /\ Failed' \subseteq Failed
           /\ errors' = 0 => tip' = tip
<1> USE DEF Inv
<1>1. /\ UNCHANGED <<level, data, failedValid, coinsBest, errors>>
      /\ failedChild' \subseteq failedChild /\ tip' = coinsBest
      /\ seq' = [b \in Blocks |-> 0]
  BY DEF Restart
<1>2. Failed' \subseteq Failed BY <1>1 DEF Failed
<1>3. linked' = linked /\ unlinked' = unlinked
  <2>1. linked' = {b \in data : Ancestors[b] \subseteq data}
        /\ unlinked' = {b \in data : ~(Ancestors[b] \subseteq data)}
    BY DEF Restart
  <2>2. data \subseteq Blocks /\ linked \subseteq Blocks BY DEF TypeOK
  <2>3. \A b \in Blocks : b \in linked => b \in data BY AncestorSelf DEF IndexInv
  <2> QED BY <2>1, <2>2, <2>3 DEF IndexInv
<1>4. IndexInv'
  <2>1. Failed' \subseteq mapBlockIndex' BY <1>1, <1>2 DEF IndexInv, mapBlockIndex
  <2>2. \A b \in Blocks : seq'[b] = 0 BY <1>1
  <2> QED BY <1>1, <1>3, <2>1, <2>2 DEF IndexInv
<1>5. candidates' = {b \in linked' : /\ b \notin Failed' /\ level[b] >= VALID_TRANSACTIONS
                                     /\ ~WorseBy(seq', b, tip')}
  BY <1>1 DEF Restart, Failed
<1>6. ChainInv'
  <2>1. Verified(tip)' /\ Verified(coinsBest)' BY <1>1 DEF ChainInv, Verified
  <2>2. fault' # "unlinked" BY DEF Restart, ChainInv
  <2> QED BY <1>5, <2>1, <2>2 DEF ChainInv, Worse
<1>7. LockFree /\ pc'[t] = "abc" BY GotoAt DEF Restart, LockFree, Holding
<1>8. StepInv' BY <1>7, LeavesLock
<1>9. Mutex' BY MutexStep
<1>10. ASSUME errors' = 0
       PROVE  /\ tip' = tip /\ fault' = "none" /\ coinsBest' = tip'
              /\ Ancestors[tip'] \cap Failed' = {}
  <2>1. errors = 0 /\ fault = "none" /\ coinsBest = tip BY <1>1, <1>10 DEF SafeInv
  <2>2. Ancestors[tip] \cap Failed = {} BY <1>7, <2>1, Unmarked DEF LockFree, Holding
  <2>3. tip \in Blocks /\ tip \in linked /\ level[tip] >= VALID_TRANSACTIONS
    BY VerifiedLinked DEF ChainInv, TypeOK, IndexInv
  <2>4. ~WorseBy(seq', tip, tip) BY <2>3, OrderIrreflexive DEF TypeOK
  <2>5. tip \in candidates'
    BY <1>1, <1>2, <1>3, <1>5, <2>1, <2>2, <2>3, <2>4, AncestorSelf
  <2>6. fault' = fault BY <2>5 DEF Restart
  <2> QED BY <1>1, <1>2, <2>1, <2>2, <2>6
<1>11. SafeInv' BY <1>10 DEF SafeInv
<1> QED BY <1>2, <1>3, <1>4, <1>6, <1>8, <1>9, <1>10, <1>11

-----------------------------------------------------------------------------
\* The steps of ActivateBestChain, of InvalidateBlock and of ReprocessBlocks.

\* A candidate is only ever dropped for a block that is marked.
LEMMA DropEffect ==
    ASSUME TypeOK, Inv, NEW t \in Threads, DropCandidate(t)
    PROVE  \E c, b \in Blocks :
              /\ IsBest(c) /\ b \in OffChain(c) /\ b \in Failed
              /\ candidates' = candidates \ (From(c, b) \cup {b})
              /\ failedChild' = failedChild \cup From(c, b)
              /\ Failed' = Failed \cup From(c, b)
              /\ From(c, b) \subseteq linked /\ From(c, b) \subseteq OffChain(c)
              /\ UNCHANGED <<unlinked, fault>>
<1>1. PICK c, b \in Blocks :
         /\ IsBest(c) /\ FirstUnusable(c, b)
         /\ candidates' = candidates \ (From(c, b) \cup {b})
         /\ IF b \in Failed
            THEN /\ failedChild' = failedChild \cup From(c, b)
                 /\ UNCHANGED unlinked
            ELSE /\ unlinked' = unlinked \cup From(c, b)
                 /\ UNCHANGED <<failedChild, unsaved>>
         /\ fault' = IF From(c, b) \cup {b} \subseteq linked THEN fault ELSE "unlinked"
  BY DEF DropCandidate
<1>2. c \in linked BY <1>1 DEF IsBest, Inv, ChainInv
<1>3. \A x \in OffChain(c) : x \in linked /\ x \in data
  BY <1>2, LinkedDown DEF OffChain, Inv
<1>4. b \in OffChain(c) /\ b \in Failed BY <1>1, <1>3 DEF FirstUnusable, Unusable
<1>5. From(c, b) \subseteq OffChain(c) BY DEF From
<1>6. From(c, b) \cup {b} \subseteq linked BY <1>3, <1>4, <1>5
<1>7. Failed' = Failed \cup From(c, b) BY <1>1, <1>4 DEF Failed, DropCandidate
<1> QED BY <1>1, <1>4, <1>5, <1>6, <1>7

LEMMA DropCandidateInv ==
    ASSUME TypeOK, Inv, NEW t \in Threads, DropCandidate(t), ThreadStep(t)
    PROVE  Inv'
<1> USE DEF Inv
<1>1. /\ UNCHANGED <<level, data, failedValid, linked, seq, tip, coinsBest, pc, target, errors>>
      /\ pc[t] = "find"
  BY DEF DropCandidate, chain, local
<1>2. PICK c, b \in Blocks :
              /\ candidates' = candidates \ (From(c, b) \cup {b})
              /\ Failed' = Failed \cup From(c, b)
              /\ From(c, b) \subseteq linked /\ From(c, b) \subseteq OffChain(c)
              /\ UNCHANGED <<unlinked, fault>>
  BY DropEffect
<1>3. Failed' \subseteq mapBlockIndex'
  <2>1. \A x \in linked : x \in mapBlockIndex
    BY AncestorSelf DEF TypeOK, IndexInv, mapBlockIndex, VALID_TREE, VALID_TRANSACTIONS,
                        VALID_SCRIPTS
  <2> QED BY <1>1, <1>2, <2>1 DEF IndexInv, mapBlockIndex
<1>4. IndexInv' BY <1>1, <1>2, <1>3, IndexKeep
<1>5. ChainInv' BY <1>1, <1>2, ChainFrame DEF Verified, ChainInv
<1>6. StepInv' BY <1>1, LeavesLock DEF Holding
<1>7. SafeInv' BY <1>1, <1>2 DEF SafeInv, OffChain
<1>8. Mutex' BY <1>1 DEF Mutex
<1> QED BY <1>4, <1>5, <1>6, <1>7, <1>8

\* Whether it succeeds or not: the tip, if it moves, moves to its parent.
LEMMA Disconnected ==
    ASSUME TypeOK, IndexInv, ChainInv, DisconnectTip \/ DisconnectTipFails,
           UNCHANGED <<level, linked, seq>>, candidates' \subseteq candidates
    PROVE  ChainInv' /\ fault' = fault
<1>1. /\ tip' \in {tip, Parent[tip]} /\ coinsBest' \in {tip, Parent[tip]} /\ fault' = fault
  BY DEF DisconnectTip, DisconnectTipFails, Healthy, health, SystemError, ReadError
<1>2. tip \in Blocks /\ Parent[tip] \in Ancestors[tip]
  BY TreeRoot, TreeStep, AncestorSelf DEF TypeOK
<1>3. Verified(tip) /\ Verified(Parent[tip]) /\ Parent[tip] \in Blocks
  BY <1>2, VerifiedLinked, AncestorSelf DEF ChainInv
<1>4. \A c \in candidates : ~WorseBy(seq, c, tip) BY DEF ChainInv, Worse
<1>5. ~WorseBy(seq, tip, Parent[tip])
  BY <1>2, <1>3, AncestorWorse, OrderAsymmetric, OrderIrreflexive DEF TypeOK
<1>6. \A c \in candidates : ~WorseBy(seq, c, Parent[tip])
  BY <1>2, <1>3, <1>4, <1>5, OrderTransitive DEF TypeOK
<1>7. Verified(tip)' /\ Verified(coinsBest)' BY <1>1, <1>3 DEF Verified
<1> QED BY <1>1, <1>4, <1>6, <1>7 DEF ChainInv, Worse

LEMMA StepDisconnectInv ==
    ASSUME TypeOK, Inv, NEW t \in Threads, StepDisconnect(t), ThreadStep(t)
    PROVE  Inv'
<1> USE DEF Inv
<1>1. /\ UNCHANGED <<level, data, failedValid, failedChild, linked, seq, unlinked, candidates>>
      /\ pc[t] = "disc" /\ ~AtFork(t) /\ (DisconnectTip \/ DisconnectTipFails)
  BY DEF StepDisconnect, index, links
<1>2. Failed' = Failed BY <1>1 DEF Failed
<1>3. IndexInv' BY <1>1, <1>2, IndexFrame
<1>4. ChainInv' BY <1>1, Disconnected
<1>5. Mutex' BY MutexStep
<1>6. CASE DisconnectTip /\ UNCHANGED <<pc, target>>
  <2>1. /\ tip' = Parent[tip] /\ coinsBest' = Parent[tip] /\ UNCHANGED <<fault, errors>>
    BY <1>6 DEF DisconnectTip, Healthy, health
  <2>2. target[t] \in Blocks /\ tip \in Blocks BY DEF TypeOK
  <2>3. tip # Genesis /\ tip \notin Ancestors[target[t]] BY <1>1, <2>2, TreeRoot DEF AtFork
  <2>4. Ancestors[tip] = {tip} \cup Ancestors[tip'] BY <2>1, <2>2, <2>3, TreeStep
  <2>5. Stepping(t)'
    <3>1. IsBest(target[t]) /\ OffChain(target[t]) \cap Failed = {}
      BY <1>1 DEF StepInv, Stepping
    <3>2. OffChain(target[t])' = OffChain(target[t]) BY <1>6, <2>3, <2>4 DEF OffChain
    <3> QED BY <1>1, <1>2, <1>6, <3>1, <3>2 DEF Stepping, IsBest, Worse
  <2>6. StepInv'
    <3>1. \A u \in Threads \ {t} : pc'[u] \notin Holding BY <1>1, OthersStay DEF Holding
    <3> QED BY <2>5, <3>1 DEF StepInv, Stepping, Holding
  <2>7. SafeInv' BY <1>2, <1>6, <2>1, <2>4 DEF SafeInv
  <2> QED BY <1>3, <1>4, <1>5, <2>6, <2>7
<1>7. CASE DisconnectTipFails /\ Return(t)
  <2>1. StepInv' BY <1>1, <1>7, GotoAt, LeavesLock DEF Holding
  <2>2. SafeInv' BY <1>7 DEF DisconnectTipFails, SystemError, ReadError, SafeInv, TypeOK
  <2> QED BY <1>3, <1>4, <1>5, <2>1, <2>2
<1> QED BY <1>6, <1>7 DEF StepDisconnect

LEMMA ReplayDisconnectInv ==
    ASSUME TypeOK, Inv, NEW t \in Threads, ReplayDisconnect(t), ThreadStep(t)
    PROVE  Inv'
<1> USE DEF Inv
<1>1. /\ UNCHANGED <<level, data, failedValid, failedChild, linked, seq, unlinked, candidates,
                     pc, target>>
      /\ pc[t] = "replay" /\ (DisconnectTip \/ DisconnectTipFails)
  BY DEF ReplayDisconnect, index, links
<1>2. Failed' = Failed BY <1>1 DEF Failed
<1>3. IndexInv' BY <1>1, <1>2, IndexFrame
<1>4. ChainInv' BY <1>1, Disconnected
<1>5. Mutex' BY MutexStep
<1>6. StepInv' BY <1>1, LeavesLock DEF Holding
<1>7. SafeInv'
  <2>1. CASE DisconnectTip
    <3>1. /\ tip' = Parent[tip] /\ coinsBest' = Parent[tip] /\ UNCHANGED <<fault, errors>>
      BY <2>1 DEF DisconnectTip, Healthy, health
    <3>2. Ancestors[tip'] \subseteq Ancestors[tip] BY <3>1, TreeRoot, TreeStep DEF TypeOK
    <3> QED BY <1>1, <1>2, <3>1, <3>2 DEF SafeInv
  <2>2. CASE DisconnectTipFails
    BY <2>2 DEF DisconnectTipFails, SystemError, ReadError, SafeInv, TypeOK
  <2> QED BY <1>1, <2>1, <2>2
<1> QED BY <1>3, <1>4, <1>5, <1>6, <1>7

LEMMA InvalidateTipInv ==
    ASSUME TypeOK, Inv, NEW t \in Threads, InvalidateTip(t), ThreadStep(t)
    PROVE  Inv'
<1> USE DEF Inv
<1>1. /\ UNCHANGED <<level, data, failedValid, linked, seq, unlinked>>
      /\ candidates' = candidates \ {tip} /\ failedChild' = failedChild \cup {tip}
      /\ pc[t] = "inv" /\ target[t] \in Ancestors[tip] /\ (DisconnectTip \/ DisconnectTipFails)
  BY DEF InvalidateTip, links, Contains
<1>2. Failed' = Failed \cup {tip} BY <1>1 DEF Failed
<1>3. Failed' \subseteq mapBlockIndex'
  <2>1. tip \in Blocks /\ tip \in data BY VerifiedLinked DEF ChainInv, TypeOK
  <2>2. tip \in mapBlockIndex
    BY <2>1 DEF IndexInv, mapBlockIndex, TypeOK, VALID_TREE, VALID_TRANSACTIONS, VALID_SCRIPTS
  <2> QED BY <1>1, <1>2, <2>2 DEF IndexInv, mapBlockIndex
<1>4. IndexInv' BY <1>1, <1>3, IndexKeep
<1>5. ChainInv' BY <1>1, Disconnected
<1>6. Mutex' BY MutexStep
<1>7. CASE DisconnectTip /\ UNCHANGED <<pc, target>>
  <2>1. /\ tip' = Parent[tip] /\ coinsBest' = Parent[tip] /\ UNCHANGED <<fault, errors>>
    BY <1>7 DEF DisconnectTip, Healthy, health
  <2>2. target[t] \in failedValid \ {Genesis} BY <1>1 DEF StepInv, Stepping
  <2>3. tip \in Blocks \ {Genesis} BY <1>1, <2>2, TreeRoot DEF TypeOK
  <2>4. Ancestors[tip] = {tip} \cup Ancestors[tip'] /\ tip \notin Ancestors[tip']
    BY <2>1, <2>3, TreeStep
  <2>5. StepInv'
    <3>1. \A u \in Threads \ {t} : pc'[u] \notin Holding BY <1>1, OthersStay DEF Holding
    <3> QED BY <1>1, <1>7, <2>2, <3>1 DEF StepInv, Stepping, Holding
  <2>6. SafeInv' BY <1>2, <1>7, <2>1, <2>4 DEF SafeInv
  <2> QED BY <1>4, <1>5, <1>6, <2>5, <2>6
<1>8. CASE DisconnectTipFails /\ Return(t)
  <2>1. StepInv' BY <1>1, <1>8, GotoAt, LeavesLock DEF Holding
  <2>2. SafeInv' BY <1>8 DEF DisconnectTipFails, SystemError, ReadError, SafeInv, TypeOK
  <2> QED BY <1>4, <1>5, <1>6, <2>1, <2>2
<1> QED BY <1>7, <1>8 DEF InvalidateTip

LEMMA InvalidateDoneInv ==
    ASSUME TypeOK, Inv, NEW t \in Threads, InvalidateDone(t), ThreadStep(t)
    PROVE  Inv'
<1> USE DEF Inv
<1>1. /\ UNCHANGED <<level, data, failedValid, failedChild, linked, seq, unlinked, tip,
                     coinsBest, fault, errors>>
      /\ candidates' = candidates \cup {b \in Blocks : Eligible(b)}
      /\ pc[t] = "inv" /\ target[t] \notin Ancestors[tip] /\ pc'[t] = "abc"
  BY GotoAt DEF InvalidateDone, Contains, index, links, chain, Healthy, health
<1>2. Failed' = Failed BY <1>1 DEF Failed
<1>3. IndexInv' BY <1>1, <1>2, IndexFrame
<1>4. ChainInv' BY <1>1 DEF ChainInv, Verified, Eligible, Worse
<1>5. Mutex' BY MutexStep
<1>6. StepInv' BY <1>1, LeavesLock DEF Holding
<1>7. SafeInv'
  <2>1. \A u \in Threads : pc[u] = "inv" => u = t BY <1>1 DEF Mutex, Holding
  <2> QED BY <1>1, <1>2, <2>1 DEF SafeInv
<1> QED BY <1>3, <1>4, <1>5, <1>6, <1>7

\* The block ConnectTip is called with is stored, not marked, and above a verified tip.
LEMMA NextBlock ==
    ASSUME TypeOK, Inv, NEW t \in Threads, NEW b \in Blocks, IsNext(t, b)
    PROVE  /\ b # Genesis /\ Parent[b] = tip /\ coinsBest = tip /\ fault = "none"
           /\ pc[t] = "conn" /\ b \in Ancestors[target[t]] /\ target[t] \in Blocks
           /\ b \in linked /\ b \in data /\ b \notin Failed /\ b \notin Ancestors[tip]
           /\ Ancestors[b] = {b} \cup Ancestors[tip]
           /\ IsBest(target[t]) /\ OffChain(target[t]) \cap Failed = {}
           /\ target[t] # tip
<1> USE DEF Inv
<1>1. /\ b # Genesis /\ Parent[b] = tip /\ coinsBest = tip /\ fault = "none"
      /\ pc[t] = "conn" /\ b \in Ancestors[target[t]] /\ target[t] \in Blocks
  BY DEF IsNext, TypeOK
<1>2. IsBest(target[t]) /\ OffChain(target[t]) \cap Failed = {}
  BY <1>1 DEF StepInv, Stepping
<1>3. b \in linked /\ b \in data BY <1>1, <1>2, LinkedDown DEF IsBest, ChainInv
<1>4. Ancestors[b] = {b} \cup Ancestors[tip] /\ b \notin Ancestors[tip] BY <1>1, TreeStep
<1>5. b \notin Failed BY <1>1, <1>2, <1>4 DEF OffChain
<1> QED BY <1>1, <1>2, <1>3, <1>4, <1>5

LEMMA ConnectTipInv ==
    ASSUME TypeOK, Inv, NEW t \in Threads, NEW b \in Blocks, ConnectTip(t, b), ThreadStep(t)
    PROVE  /\ Inv' /\ IsBest(target[t])'
           /\ Verified(b)' /\ \A x \in Blocks : Verified(x) => Verified(x)'
<1> USE DEF Inv
<1>1. /\ b # Genesis /\ Parent[b] = tip /\ fault = "none"
      /\ pc[t] = "conn" /\ b \in Ancestors[target[t]] /\ target[t] \in Blocks
      /\ b \in data /\ b \notin Failed /\ Ancestors[b] = {b} \cup Ancestors[tip]
      /\ IsBest(target[t]) /\ OffChain(target[t]) \cap Failed = {}
  BY NextBlock DEF ConnectTip
<1>2. /\ UNCHANGED <<data, failedValid, failedChild, linked, seq, unlinked, target, errors>>
      /\ tip' = b /\ coinsBest' = b /\ candidates' = {c \in candidates : ~Worse(c, b)}
      /\ RaiseValidity(b, VALID_SCRIPTS) /\ pc'[t] \in {"loop", "conn"}
  BY <1>1, GotoAt DEF ConnectTip, Pruned, links
<1>3. Failed' = Failed BY <1>2 DEF Failed
<1>4. IndexInv' /\ Verified(b)' /\ \A x \in Blocks : Verified(x) => Verified(x)'
  BY <1>1, <1>2, IndexVerify DEF ChainInv
<1>5. target[t] \in candidates'
  <2>1. ~WorseBy(seq, target[t], b)
    BY <1>1, AncestorWorse, OrderAsymmetric, OrderIrreflexive DEF TypeOK
  <2> QED BY <1>1, <1>2, <2>1 DEF IsBest, Worse
<1>6. fault' = "none" BY <1>1, <1>2, <1>5 DEF ConnectTip
<1>7. ChainInv'
  <2>1. Verified(tip)' /\ Verified(coinsBest)' BY <1>2, <1>4 DEF Verified
  <2> QED BY <1>2, <1>6, <2>1 DEF ChainInv, Worse
<1>8. IsBest(target[t])' BY <1>1, <1>2, <1>5 DEF IsBest, Worse
<1>9. StepInv'
  <2>1. OffChain(target[t])' \subseteq OffChain(target[t]) BY <1>1, <1>2 DEF OffChain
  <2>2. Stepping(t)' BY <1>1, <1>2, <1>3, <1>8, <2>1 DEF Stepping, AtFork
  <2>3. \A u \in Threads \ {t} : pc'[u] \notin Holding BY <1>1, OthersStay DEF Holding
  <2> QED BY <2>2, <2>3 DEF StepInv, Stepping, Holding
<1>10. SafeInv'
  <2>1. SUFFICES ASSUME errors = 0 PROVE Ancestors[b] \cap Failed = {}
    BY <1>2, <1>3, <1>6 DEF SafeInv
  <2>2. \A u \in Threads : pc[u] # "inv" BY <1>1 DEF Mutex, Holding
  <2> QED BY <1>1, <2>1, <2>2, Unmarked
<1>11. Mutex' BY MutexStep
<1> QED BY <1>4, <1>7, <1>8, <1>9, <1>10, <1>11

LEMMA ConnectTipInvalidInv ==
    ASSUME TypeOK, Inv, NEW t \in Threads, NEW b \in Blocks, ConnectTipInvalid(t, b),
           ThreadStep(t)
    PROVE  Inv'
<1> USE DEF Inv
<1>1. pc[t] = "conn" /\ b \in data /\ b \notin Ancestors[tip] BY NextBlock DEF ConnectTipInvalid
<1>2. /\ UNCHANGED <<level, data, failedChild, linked, seq, unlinked, tip, coinsBest, target,
                     fault, errors>>
      /\ failedValid' = failedValid \cup {b} /\ candidates' = candidates \ {b}
      /\ pc'[t] = "loop"
  BY GotoAt DEF ConnectTipInvalid, links, chain, Healthy, health
<1>3. Failed' = Failed \cup {b} BY <1>2 DEF Failed
<1>4. Failed' \subseteq mapBlockIndex'
  <2>1. b \in mapBlockIndex
    BY <1>1 DEF IndexInv, mapBlockIndex, TypeOK, VALID_TREE, VALID_TRANSACTIONS, VALID_SCRIPTS
  <2> QED BY <1>2, <1>3, <2>1 DEF IndexInv, mapBlockIndex
<1>5. IndexInv' BY <1>2, <1>4, IndexKeep
<1>6. ChainInv' BY <1>2, ChainFrame DEF Verified, ChainInv
<1>7. StepInv' BY <1>1, <1>2, LeavesLock DEF Holding
<1>8. SafeInv'
  <2>1. \A u \in Threads : pc[u] # "inv" BY <1>1 DEF Mutex, Holding
  <2> QED BY <1>1, <1>2, <1>3, <2>1 DEF SafeInv
<1>9. Mutex' BY MutexStep
<1> QED BY <1>5, <1>6, <1>7, <1>8, <1>9

LEMMA ConnectTipFailsInv ==
    ASSUME TypeOK, Inv, NEW t \in Threads, NEW b \in Blocks, ConnectTipFails(t, b),
           ThreadStep(t)
    PROVE  Inv'
<1> USE DEF Inv
<1>1. /\ pc[t] = "conn" /\ b \in data /\ b \notin Failed /\ b # Genesis /\ Parent[b] = tip
      /\ coinsBest = tip
  BY NextBlock DEF ConnectTipFails
<1>2. /\ UNCHANGED <<data, failedValid, failedChild, linked, seq, unlinked, tip, candidates, fault>>
      /\ errors' = errors + 1 /\ pc'[t] = "idle"
  BY GotoAt DEF ConnectTipFails, links, SystemError
<1>3. Failed' = Failed BY <1>2 DEF Failed
<1>4. IndexInv' /\ (\A x \in Blocks : Verified(x) => Verified(x)') /\ Verified(coinsBest)'
  <2>1. CASE UNCHANGED <<level, coinsBest>>
    BY <1>2, <1>3, <2>1, IndexFrame DEF Verified, ChainInv
  <2>2. CASE RaiseValidity(b, VALID_SCRIPTS) /\ coinsBest' \in {tip, b}
    <3>1. IndexInv' /\ Verified(b)' /\ \A x \in Blocks : Verified(x) => Verified(x)'
      BY <1>1, <1>2, <2>2, IndexVerify DEF ChainInv
    <3> QED BY <2>2, <3>1 DEF Verified, ChainInv, TypeOK
  <2> QED BY <2>1, <2>2 DEF ConnectTipFails
<1>5. ChainInv' BY <1>2, <1>4, ChainFrame DEF ChainInv
<1>6. StepInv' BY <1>1, <1>2, LeavesLock DEF Holding
<1>7. SafeInv' BY <1>2 DEF SafeInv, TypeOK
<1>8. Mutex' BY MutexStep
<1> QED BY <1>4, <1>5, <1>6, <1>7, <1>8

-----------------------------------------------------------------------------
LEMMA InitInv == Init => Inv
<1> SUFFICES ASSUME Init PROVE Inv OBVIOUS
<1> USE TreeTypes, TreeRoot DEF Init, VALID_TREE, VALID_TRANSACTIONS, VALID_SCRIPTS
<1>1. Mutex BY DEF Mutex, Holding
<1>2. IndexInv
  <2>1. \A b \in Blocks : b \in Ancestors[b] BY AncestorSelf
  <2>2. \A b \in Blocks : b \in linked <=> Ancestors[b] \subseteq data BY <2>1
  <2> QED BY <2>2 DEF IndexInv, Failed
<1>3. ChainInv
  <2>1. ~WorseBy(seq, Genesis, Genesis) BY OrderIrreflexive
  <2> QED BY <2>1 DEF ChainInv, Verified, Worse
<1>4. StepInv BY DEF StepInv, Stepping
<1>5. SafeInv BY DEF SafeInv, Failed
<1> QED BY <1>1, <1>2, <1>3, <1>4, <1>5 DEF Inv

LEMMA NextInv == TypeOK /\ TypeOK' /\ Inv /\ [Next]_vars => Inv'
<1> SUFFICES ASSUME TypeOK, TypeOK', Inv, [Next]_vars PROVE Inv' OBVIOUS
<1>1. ASSUME NEW b \in Blocks, AcceptBlockHeader(b) PROVE Inv' BY <1>1, AcceptBlockHeaderInv
<1>2. ASSUME NEW t \in Threads, Input(t) PROVE Inv'
  BY <1>2, AcceptBlockInv, AcceptBlockInvalidInv, AcceptBlockFailsInv, InvalidateBlockInv,
     ReconsiderStepsInv, ReprocessBlocksInv, RestartInv DEF Input
<1>3. ASSUME NEW t \in Threads, ThreadStep(t) PROVE Inv'
  BY <1>3, ThreadMovesInv, DropCandidateInv, StepDisconnectInv, ConnectTipInv,
     ConnectTipInvalidInv, ConnectTipFailsInv, InvalidateTipInv, InvalidateDoneInv,
     ReplayDisconnectInv DEF ThreadStep
<1>4. CASE UNCHANGED vars
  BY <1>4 DEF vars, index, links, chain, local, health, Inv, Mutex, IndexInv, ChainInv, StepInv,
     Stepping, SafeInv, Verified, IsBest, Worse, OffChain, AtFork, Failed, mapBlockIndex
<1> QED BY <1>1, <1>2, <1>3, <1>4 DEF Next

LEMMA Invariance == Spec => [](TypeOK /\ Inv)
<1>1. TypeOK /\ TypeOK' /\ Inv /\ [Next]_vars => Inv' BY NextInv
<1> QED BY <1>1, InitInv, TypeCorrect, PTL DEF Spec

(***************************************************************************)
(* Whatever fails, whatever is invalidated, reconsidered or replayed, and  *)
(* in whatever order blocks arrive: CheckBlockIndex finds stored data,     *)
(* validity levels, links, sequence ids and mapBlocksUnlinked in accord.   *)
(***************************************************************************)
THEOREM IndexIsConsistent == Spec => []IndexConsistent
<1>1. TypeOK /\ Inv => IndexConsistent
  BY DEF Inv, IndexInv, IndexConsistent, mapBlockIndex
<1> QED BY <1>1, Invariance, PTL

(***************************************************************************)
(* Under the same conditions, setBlockIndexCandidates only has blocks that *)
(* FindMostWorkChain can walk down from, none of them worse than the tip.  *)
(***************************************************************************)
THEOREM CandidatesAreSound == Spec => []CandidatesSound
<1>1. TypeOK /\ Inv => CandidatesSound BY DEF Inv, ChainInv, CandidatesSound
<1> QED BY <1>1, Invariance, PTL

(***************************************************************************)
(* Up to the first system error, whoever takes cs_main finds a chain of    *)
(* stored, verified and unmarked blocks, and the coins of its tip.         *)
(***************************************************************************)
THEOREM ActiveChainIsValid == Spec => [](errors = 0 => ActiveChainValid)
<1>1. TypeOK /\ Inv => (errors = 0 => ActiveChainValid)
  <2> SUFFICES ASSUME TypeOK, Inv, errors = 0, LockFree
               PROVE  /\ coinsBest = tip /\ Ancestors[tip] \subseteq linked \ Failed
                      /\ \A a \in Ancestors[tip] \ {Genesis} : level[a] = VALID_SCRIPTS
    BY DEF ActiveChainValid
  <2>1. coinsBest = tip BY DEF Inv, SafeInv
  <2>2. Ancestors[tip] \cap Failed = {} BY Unmarked DEF Inv, LockFree, Holding
  <2>3. \A a \in Ancestors[tip] : a \in linked /\ Verified(a)
    BY VerifiedLinked DEF Inv, ChainInv, TypeOK
  <2> QED BY <2>1, <2>2, <2>3 DEF Verified
<1> QED BY <1>1, Invariance, PTL

(***************************************************************************)
(* FindMostWorkChain never walks over a block that is not linked, and up   *)
(* to the first system error ConnectBlock and DisconnectBlock find the     *)
(* coins where they expect them.                                           *)
(***************************************************************************)
THEOREM ChainAssertionsHold ==
    Spec => [](fault # "unlinked" /\ (errors = 0 => ChainAssertions))
<1>1. TypeOK /\ Inv => fault # "unlinked" /\ (errors = 0 => ChainAssertions)
  BY DEF Inv, ChainInv, SafeInv, ChainAssertions
<1> QED BY <1>1, Invariance, PTL

(***************************************************************************)
(* Up to the first system error PruneBlockIndexCandidates always leaves a  *)
(* candidate, after ConnectTip and after a restart.                        *)
(***************************************************************************)
THEOREM CandidatesRemain == Spec => [](errors = 0 => CandidatesNeverEmpty)
<1>1. TypeOK /\ Inv => (errors = 0 => CandidatesNeverEmpty)
  BY DEF Inv, SafeInv, CandidatesNeverEmpty
<1> QED BY <1>1, Invariance, PTL

-----------------------------------------------------------------------------
(***************************************************************************)
(* Marks have a cause.  This needs that reconsiderblock is not called      *)
(* below a failed block: it would clear the cause and leave the marks of   *)
(* the other descendants.                                                  *)
(***************************************************************************)
Cause == \A b \in Failed : Ancestors[b] \cap failedValid # {}

LEMMA CauseKept ==
    ASSUME Cause, Failed' \subseteq Failed, failedValid' = failedValid
    PROVE  Cause'
BY DEF Cause

LEMMA CauseOwn ==
    ASSUME Cause, NEW b \in Blocks, failedValid' = failedValid \cup {b},
           UNCHANGED failedChild
    PROVE  Cause'
<1>1. Failed' = Failed \cup {b} BY DEF Failed
<1>2. b \in Ancestors[b] BY AncestorSelf
<1> QED BY <1>1, <1>2 DEF Cause

\* The blocks DropCandidate marks are above the block they are dropped for.
LEMMA FromAbove ==
    ASSUME TypeOK, NEW c \in Blocks, NEW b \in OffChain(c), NEW x \in From(c, b)
    PROVE  x \in Blocks /\ b \in Ancestors[x]
<1>1. x \in Ancestors[c] /\ b \in Ancestors[c] /\ Height[x] > Height[b]
  BY DEF From, OffChain
<1>2. x \in Blocks /\ b \in Blocks BY <1>1, AncestorTrans
<1>3. x \notin Ancestors[b]
  <2>1. x # b BY <1>1, <1>2, TreeTypes
  <2> QED BY <1>1, <1>2, <2>1, AncestorLess, TreeTypes
<1> QED BY <1>1, <1>2, <1>3, AncestorLinear

LEMMA ReconsiderCause ==
    ASSUME ~DeepReconsider, TypeOK, Cause, NEW b \in Blocks, ReconsiderBlock(b),
           Failed \subseteq mapBlockIndex
    PROVE  Cause'
<1>1. /\ failedValid' = failedValid \ Cleared(b) /\ failedChild' = failedChild \ Cleared(b)
      /\ Ancestors[b] \cap Failed \subseteq {b}
  BY DEF ReconsiderBlock
<1>2. SUFFICES ASSUME NEW y \in Failed, y \notin Cleared(b)
               PROVE  Ancestors[y] \cap failedValid' # {}
  BY <1>1 DEF Cause, Failed
<1>3. PICK z \in Ancestors[y] : z \in failedValid BY <1>2 DEF Cause
<1>4. y \in Blocks /\ y \in mapBlockIndex /\ z \in Failed BY <1>2, <1>3 DEF Failed, TypeOK
<1>5. Ancestors[z] \subseteq Ancestors[y] BY <1>3, <1>4, AncestorTrans
<1>6. b \notin Ancestors[y] BY <1>2, <1>4 DEF Cleared, Descendants
<1>7. z \notin Cleared(b)
  BY <1>1, <1>3, <1>4, <1>5, <1>6 DEF Cleared, Descendants
<1> QED BY <1>1, <1>3, <1>7

LEMMA CauseStep ==
    ASSUME ~DeepReconsider, TypeOK, Inv, Cause, [Next]_vars
    PROVE  Cause'
<1> USE DEF index, links, chain, local
<1>1. ASSUME NEW b \in Blocks, AcceptBlockHeader(b) PROVE Cause'
  BY <1>1, CauseKept DEF AcceptBlockHeader, Failed
<1>2. ASSUME NEW t \in Threads, NEW b \in Blocks, AcceptBlock(t, b) PROVE Cause'
  BY <1>2, CauseKept DEF AcceptBlock, ReceivedBlockTransactions, Failed
<1>3. ASSUME NEW t \in Threads, NEW b \in Blocks, AcceptBlockInvalid(t, b) PROVE Cause'
  BY <1>3, CauseOwn DEF AcceptBlockInvalid
<1>4. ASSUME NEW t \in Threads, NEW b \in Blocks, AcceptBlockFails(t, b) PROVE Cause'
  BY <1>4, CauseKept DEF AcceptBlockFails, Failed
<1>5. ASSUME NEW t \in Threads, NEW b \in Blocks, InvalidateBlock(t, b) PROVE Cause'
  BY <1>5, CauseOwn DEF InvalidateBlock
<1>6. ASSUME NEW t \in Threads, NEW b \in Blocks, Reconsider(t, b) \/ ReprocessReconsider(t, b)
      PROVE  Cause'
  BY <1>6, ReconsiderCause DEF Reconsider, ReprocessReconsider, Inv, IndexInv
<1>7. ASSUME NEW t \in Threads, ReprocessBlocks(t) \/ Restart(t) PROVE Cause'
  BY <1>7, CauseKept DEF ReprocessBlocks, Restart, Failed
<1>8. ASSUME NEW t \in Threads,
             \/ TakeLock(t) \/ NothingToDo(t) \/ ChooseCandidate(t) \/ StepDisconnect(t)
             \/ StepAtFork(t) \/ LoopAgain(t) \/ InvalidateDone(t) \/ ReplayStart(t)
             \/ ReplayDisconnect(t) \/ ReplayDone(t) \/ CoinsAssertion(t)
      PROVE  Cause'
  <2>1. UNCHANGED <<failedValid, failedChild>>
    BY <1>8 DEF TakeLock, NothingToDo, ChooseCandidate, StepDisconnect, StepAtFork, LoopAgain,
       InvalidateDone, ReplayStart, ReplayDisconnect, ReplayDone, CoinsAssertion
  <2> QED BY <2>1, CauseKept DEF Failed
<1>9. ASSUME NEW t \in Threads, NEW b \in Blocks,
             ConnectTip(t, b) \/ ConnectTipCorrupt(t, b) \/ ConnectTipFails(t, b)
      PROVE  Cause'
  BY <1>9, CauseKept DEF ConnectTip, ConnectTipCorrupt, ConnectTipFails, Failed
<1>10. ASSUME NEW t \in Threads, NEW b \in Blocks, ConnectTipInvalid(t, b) PROVE Cause'
  BY <1>10, CauseOwn DEF ConnectTipInvalid
<1>11. ASSUME NEW t \in Threads, DropCandidate(t) PROVE Cause'
  <2>1. PICK c, b \in Blocks : /\ b \in OffChain(c) /\ b \in Failed
                               /\ Failed' = Failed \cup From(c, b)
    BY <1>11, DropEffect
  <2>2. failedValid' = failedValid BY <1>11 DEF DropCandidate
  <2>3. Ancestors[b] \cap failedValid # {} BY <2>1 DEF Cause
  <2>4. \A x \in From(c, b) : Ancestors[b] \subseteq Ancestors[x]
    BY <2>1, FromAbove, AncestorTrans
  <2>5. \A x \in From(c, b) : Ancestors[x] \cap failedValid # {} BY <2>3, <2>4
  <2> QED BY <2>1, <2>2, <2>5 DEF Cause
<1>12. ASSUME NEW t \in Threads, InvalidateTip(t) PROVE Cause'
  <2>1. /\ failedChild' = failedChild \cup {tip} /\ UNCHANGED failedValid
        /\ pc[t] = "inv" /\ target[t] \in Ancestors[tip]
    BY <1>12 DEF InvalidateTip, Contains
  <2>2. target[t] \in failedValid BY <2>1 DEF Inv, StepInv, Stepping
  <2>3. Failed' = Failed \cup {tip} BY <2>1 DEF Failed
  <2> QED BY <2>1, <2>2, <2>3 DEF Cause
<1>13. CASE UNCHANGED vars BY <1>13, CauseKept DEF vars, Failed
<1>14. ASSUME NEW t \in Threads, Input(t) PROVE Cause'
  BY <1>2, <1>3, <1>4, <1>5, <1>6, <1>7, <1>14 DEF Input
<1>15. ASSUME NEW t \in Threads, ThreadStep(t) PROVE Cause'
  BY <1>8, <1>9, <1>10, <1>11, <1>12, <1>15 DEF ThreadStep
<1> QED BY <1>1, <1>13, <1>14, <1>15 DEF Next

LEMMA CauseInvariance == ASSUME ~DeepReconsider PROVE Spec => [](TypeOK /\ Inv /\ Cause)
<1>1. Init => Cause BY DEF Init, Cause, Failed
<1>2. TypeOK /\ Inv /\ Cause /\ [Next]_vars => Cause' BY CauseStep
<1> QED BY <1>1, <1>2, Invariance, PTL DEF Spec

(***************************************************************************)
(* As long as nothing below a failed block is reconsidered, every mark of  *)
(* failure comes from an ancestor found or declared invalid: also after    *)
(* system errors, and after a restart that lost marks.                     *)
(***************************************************************************)
THEOREM FailuresHaveCauses == ASSUME ~DeepReconsider PROVE Spec => []FailureHasCause
<1>1. TypeOK /\ Inv /\ Cause => FailureHasCause BY DEF Cause, FailureHasCause
<1> QED BY <1>1, CauseInvariance, PTL

-----------------------------------------------------------------------------
(***************************************************************************)
(* The node comes to rest on the best chain.  Besides the above this needs *)
(* that a verdict stands: a block that was connected once is not rejected  *)
(* later.                                                                  *)
(*                                                                         *)
(* A block that is not a candidate is covered by one that is, and that no  *)
(* verdict can take away; this fails only while InvalidateBlock works.     *)
(* And either the tip is the best candidate, or some thread is still going *)
(* to look for a better one.                                               *)
(***************************************************************************)
Stands(c) == c \in candidates /\ Usable(c) /\ Verified(c)
Covered(b) == b \in candidates \/ \E c \in Blocks : Stands(c) /\ ~Worse(c, b)
CompleteInv ==
    errors = 0 /\ (\A t \in Threads : pc[t] # "inv") => \A b \in linked \ Failed : Covered(b)

OnDuty(t) == pc[t] \notin {"idle", "loop"} \/ (pc[t] = "loop" /\ target[t] # tip)
DutyInv == errors = 0 => IsBest(tip) \/ \E t \in Threads : OnDuty(t)

\* Something that stands is at least as good as the tip.
LEMMA TipCovered ==
    ASSUME TypeOK, Inv, CompleteInv, errors = 0, \A t \in Threads : pc[t] # "inv"
    PROVE  \E c \in Blocks : Stands(c) /\ ~Worse(c, tip)
<1>1. Ancestors[tip] \cap Failed = {} BY Unmarked DEF Inv
<1>2. tip \in Blocks /\ tip \in linked /\ Verified(tip)
  BY VerifiedLinked DEF Inv, ChainInv, TypeOK
<1>3. tip \notin Failed BY <1>1, <1>2, AncestorSelf
<1>4. ~Worse(tip, tip) BY <1>2, OrderIrreflexive DEF Worse, TypeOK
<1>5. tip \in candidates => Stands(tip) BY <1>1, <1>2 DEF Stands, Usable
<1> QED BY <1>2, <1>3, <1>4, <1>5 DEF CompleteInv, Covered

LEMMA CompleteFrame ==
    ASSUME TypeOK, CompleteInv, UNCHANGED <<linked, seq, candidates, failedValid, failedChild>>,
           \A x \in Blocks : Verified(x) => Verified(x)',
           errors' = 0 => errors = 0,
           \A t \in Threads : pc[t] = "inv" => pc'[t] = "inv"
    PROVE  CompleteInv'
<1>1. Failed' = Failed BY DEF Failed
<1>2. \A c \in Blocks : Stands(c) => Stands(c)' BY <1>1 DEF Stands, Usable
<1>3. \A b \in Blocks : Covered(b) => Covered(b)' BY <1>2 DEF Covered, Worse
<1> QED BY <1>1, <1>3 DEF CompleteInv, TypeOK

LEMMA AcceptBlockComplete ==
    ASSUME TypeOK, TypeOK', Inv, CompleteInv, NEW t \in Threads, NEW b \in Blocks, b # Genesis,
           AcceptBlock(t, b)
    PROVE  CompleteInv'
<1> USE DEF Inv
<1>1. /\ LockFree /\ UNCHANGED <<chain, fault, errors, tip>> /\ \A u \in Threads : pc[u] # "inv"
  BY DEF AcceptBlock, MayAccept, Healthy, health, chain, LockFree, Holding
<1>2. CASE b \in data
  BY <1>1, <1>2, CompleteFrame DEF AcceptBlock, index, links, Verified
<1>3. CASE b \notin data
  <2>1. ReceivedBlockTransactions(b) BY <1>3 DEF AcceptBlock
  <2>2. b \notin Failed BY DEF AcceptBlock, MayAccept, HeaderAccepted, IndexInv
  <2>3. /\ Failed' = Failed /\ \A x \in Blocks : Verified(x)' <=> Verified(x)
        /\ \A x \in linked : x \in linked' /\ seq'[x] = seq[x]
        /\ candidates \subseteq candidates'
        /\ \A x \in linked' \ linked : x \in candidates' \/ Worse(x, tip)'
    BY <1>1, <1>3, <2>1, <2>2, ReceivedInv
  <2>4. \A c \in Blocks : Stands(c) => Stands(c)' BY <2>3 DEF Stands, Usable
  <2>5. SUFFICES ASSUME errors = 0, NEW x \in linked' \ Failed, x \notin candidates'
                 PROVE  \E c \in Blocks : Stands(c)' /\ ~WorseBy(seq', c, x)
    BY <1>1, <2>3 DEF CompleteInv, Covered, Worse
  <2>6. x \in Blocks /\ tip \in Blocks /\ seq' \in [Blocks -> Nat] BY <2>5 DEF TypeOK
  <2>7. CASE x \in linked
    <3>1. PICK c \in Blocks : Stands(c) /\ ~WorseBy(seq, c, x)
      BY <1>1, <2>3, <2>5, <2>7 DEF CompleteInv, Covered, Worse
    <3>2. seq'[c] = seq[c] /\ seq'[x] = seq[x] BY <2>3, <2>7, <3>1 DEF Stands, Usable
    <3> QED BY <2>4, <3>1, <3>2 DEF WorseBy
  <2>8. CASE x \notin linked
    <3>1. WorseBy(seq', x, tip) BY <1>1, <2>3, <2>5, <2>8 DEF Worse
    <3>2. PICK c \in Blocks : Stands(c) /\ ~WorseBy(seq, c, tip)
      BY <1>1, <2>5, TipCovered DEF Worse
    <3>3. tip \in linked BY VerifiedLinked DEF ChainInv, TypeOK
    <3>4. seq'[c] = seq[c] /\ seq'[tip] = seq[tip] BY <2>3, <3>2, <3>3 DEF Stands, Usable
    <3>5. ~WorseBy(seq', c, tip) BY <3>2, <3>4 DEF WorseBy
    <3>6. ~WorseBy(seq', tip, x) BY <2>6, <3>1, OrderAsymmetric
    <3>7. ~WorseBy(seq', c, x) BY <2>6, <3>5, <3>6, OrderTransitive
    <3> QED BY <2>4, <3>2, <3>7
  <2> QED BY <2>7, <2>8
<1> QED BY <1>2, <1>3

LEMMA AcceptBlockInvalidComplete ==
    ASSUME TypeOK, Inv, CompleteInv, NEW t \in Threads, NEW b \in Blocks, AcceptBlockInvalid(t, b)
    PROVE  CompleteInv'
<1> USE DEF Inv
<1>1. /\ UNCHANGED <<failedChild, linked, seq, candidates, pc, errors>>
      /\ failedValid' = failedValid \cup {b} /\ b \notin data
  BY DEF AcceptBlockInvalid, links, local, Healthy, health
<1>2. \A x \in Blocks : Verified(x) => Verified(x)'
  BY <1>1, RaiseTree DEF AcceptBlockInvalid, Verified
<1>3. Failed' = Failed \cup {b} BY <1>1 DEF Failed
<1>4. \A c \in Blocks : Stands(c) => Stands(c)'
  <2> SUFFICES ASSUME NEW c \in Blocks, Stands(c) PROVE Stands(c)' OBVIOUS
  <2>1. b \notin Ancestors[c] BY <1>1, LinkedDown DEF Stands, Usable
  <2> QED BY <1>1, <1>2, <1>3, <2>1 DEF Stands, Usable
<1>5. \A x \in Blocks : Covered(x) => Covered(x)' BY <1>1, <1>4 DEF Covered, Worse
<1> QED BY <1>1, <1>3, <1>5 DEF CompleteInv, TypeOK

LEMMA InvalidateDoneComplete ==
    ASSUME TypeOK, Inv, Inv', NEW t \in Threads, InvalidateDone(t)
    PROVE  CompleteInv'
<1> USE DEF Inv
<1>1. /\ UNCHANGED <<level, failedValid, failedChild, linked, seq, tip, errors>>
      /\ candidates' = candidates \cup {b \in Blocks : Eligible(b)}
  BY DEF InvalidateDone, index, links, chain, Healthy, health
<1>2. Failed' = Failed BY <1>1 DEF Failed
<1>3. SUFFICES ASSUME errors = 0, \A u \in Threads : pc'[u] # "inv",
                      NEW b \in linked, b \notin Failed, Worse(b, tip)
               PROVE  \E c \in Blocks : Stands(c)' /\ ~Worse(c, b)
  <2>1. \A b \in linked \ Failed : b \in Blocks /\ level[b] >= VALID_TRANSACTIONS
    BY AncestorSelf DEF IndexInv, TypeOK
  <2>2. \A b \in linked \ Failed : b \in candidates' \/ Worse(b, tip)
    BY <1>1, <2>1 DEF Eligible, IsValid
  <2> QED BY <1>1, <1>2, <2>2 DEF CompleteInv, Covered, Worse
<1>4. Ancestors[tip] \cap Failed = {} BY <1>1, <1>2, <1>3 DEF SafeInv
<1>5. tip \in Blocks /\ tip \in linked /\ tip \in data /\ Verified(tip)
  BY VerifiedLinked DEF ChainInv, TypeOK
<1>6. tip \in candidates'
  <2>1. ~Worse(tip, tip) BY <1>5, OrderIrreflexive DEF Worse, TypeOK
  <2>2. level[tip] >= VALID_TRANSACTIONS /\ tip \notin Failed
    BY <1>4, <1>5, AncestorSelf DEF IndexInv
  <2> QED BY <1>1, <1>5, <2>1, <2>2 DEF Eligible, IsValid
<1>7. Stands(tip)' BY <1>1, <1>2, <1>4, <1>5, <1>6 DEF Stands, Usable, Verified
<1>8. ~Worse(tip, b) BY <1>3, <1>5, OrderAsymmetric DEF Worse, TypeOK
<1> QED BY <1>1, <1>5, <1>7, <1>8

LEMMA ReconsiderComplete ==
    ASSUME ~DeepReconsider, TypeOK, Inv, CompleteInv, NEW b \in Blocks, ReconsiderBlock(b),
           LockFree, UNCHANGED <<links, chain, errors>>
    PROVE  CompleteInv'
<1> USE DEF Inv
<1>1. /\ UNCHANGED <<level, linked, seq, tip>>
      /\ candidates' = candidates \cup Readmitted(b) /\ b \in mapBlockIndex
      /\ Ancestors[b] \cap Failed \subseteq {b} /\ Failed' = Failed \ Cleared(b)
  BY DEF ReconsiderBlock, links, chain, Failed
<1>2. \A c \in Blocks : Stands(c) => Stands(c)' BY <1>1 DEF Stands, Usable, Verified
<1>3. \A x \in Blocks : Covered(x) => Covered(x)' BY <1>1, <1>2 DEF Covered, Worse
<1>4. \A u \in Threads : pc[u] # "inv" BY DEF LockFree, Holding
<1>5. SUFFICES ASSUME errors = 0, NEW x \in linked, x \in Failed, x \in Cleared(b)
               PROVE  Covered(x)'
  BY <1>1, <1>3, <1>4 DEF CompleteInv, TypeOK
<1>6. x \in Blocks /\ level[x] >= VALID_TRANSACTIONS
  BY <1>5, AncestorSelf DEF IndexInv, TypeOK
<1>7. x \in Descendants(b)
  BY <1>1, <1>5, AncestorSelf DEF Cleared, Descendants
<1>8. CASE Worse(tip, x) BY <1>1, <1>5, <1>6, <1>7, <1>8 DEF Readmitted, Covered
<1>9. CASE ~Worse(tip, x)
  <2>1. PICK c \in Blocks : Stands(c) /\ ~Worse(c, tip) BY <1>4, <1>5, TipCovered
  <2>2. ~Worse(c, x) BY <1>6, <1>9, <2>1, OrderTransitive DEF Worse, TypeOK
  <2> QED BY <1>1, <1>2, <2>1, <2>2 DEF Covered, Worse
<1> QED BY <1>8, <1>9

LEMMA RestartComplete ==
    ASSUME TypeOK, TypeOK', Inv, NEW t \in Threads, Restart(t), Input(t)
    PROVE  CompleteInv'
<1>1. SUFFICES ASSUME errors' = 0, NEW b \in linked', b \notin Failed', ~Covered(b)' PROVE FALSE
  BY DEF CompleteInv
<1>2. /\ UNCHANGED level /\ Inv' /\ linked' = linked /\ tip' = tip /\ Failed' \subseteq Failed
  BY <1>1, RestartInv DEF Restart
<1>3. candidates' = {x \in linked' : /\ x \notin Failed' /\ level[x] >= VALID_TRANSACTIONS
                                     /\ ~WorseBy(seq', x, tip')}
  BY DEF Restart, Failed
<1>4. \A x \in linked : x \in Blocks /\ level[x] >= VALID_TRANSACTIONS
  BY AncestorSelf DEF Inv, IndexInv, TypeOK
<1>5. WorseBy(seq', b, tip) BY <1>1, <1>2, <1>3, <1>4 DEF Covered
<1>6. LockFree /\ errors = 0 BY <1>1 DEF Restart, LockFree, Holding
<1>7. Ancestors[tip] \cap Failed = {} BY <1>6, Unmarked DEF Inv, LockFree, Holding
<1>8. tip \in Blocks /\ tip \in linked /\ Verified(tip)
  BY VerifiedLinked DEF Inv, ChainInv, TypeOK
<1>9. ~WorseBy(seq', tip, tip) /\ ~WorseBy(seq', tip, b)
  BY <1>2, <1>1, <1>4, <1>5, <1>8, OrderIrreflexive, OrderAsymmetric DEF TypeOK
<1>10. tip \in candidates'
  BY <1>2, <1>3, <1>4, <1>7, <1>8, <1>9, AncestorSelf
<1>11. Stands(tip)' BY <1>2, <1>7, <1>8, <1>10 DEF Stands, Usable, Verified
<1>12. tip' \in Blocks /\ ~WorseBy(seq', tip', b) BY <1>2, <1>8, <1>9
<1> QED BY <1>1, <1>11, <1>12 DEF Covered, Worse

LEMMA DropCandidateComplete ==
    ASSUME TypeOK, Inv, CompleteInv, NEW t \in Threads, DropCandidate(t)
    PROVE  CompleteInv'
<1>1. UNCHANGED <<level, linked, seq, pc, errors>> BY DEF DropCandidate, local
<1>2. PICK c, b \in Blocks : /\ b \in OffChain(c) /\ b \in Failed
                             /\ candidates' = candidates \ (From(c, b) \cup {b})
                             /\ Failed' = Failed \cup From(c, b)
  BY DropEffect
<1>3. \A x \in From(c, b) : x \in Blocks /\ b \in Ancestors[x] BY <1>2, FromAbove
<1>4. \A s \in Blocks : Stands(s) => Stands(s)'
  <2> SUFFICES ASSUME NEW s \in Blocks, Stands(s) PROVE Stands(s)' OBVIOUS
  <2>1. b \notin Ancestors[s] /\ s \in Ancestors[s]
    BY <1>2, AncestorSelf DEF Stands, Usable
  <2>2. \A x \in From(c, b) : x \notin Ancestors[s] BY <1>3, <2>1, AncestorTrans
  <2>3. s \in candidates' BY <1>2, <2>1, <2>2 DEF Stands
  <2> QED BY <1>1, <1>2, <2>2, <2>3 DEF Stands, Usable, Verified
<1>5. \A x \in Blocks \ Failed' : Covered(x) => Covered(x)'
  BY <1>1, <1>2, <1>4 DEF Covered, Worse
<1> QED BY <1>1, <1>2, <1>5 DEF CompleteInv, TypeOK

LEMMA ConnectTipComplete ==
    ASSUME TypeOK, Inv, CompleteInv, NEW t \in Threads, NEW b \in Blocks, ConnectTip(t, b),
           ThreadStep(t)
    PROVE  CompleteInv'
<1> USE DEF Inv
<1>1. /\ pc[t] = "conn" /\ b \in linked /\ b \notin Failed
      /\ Ancestors[b] = {b} \cup Ancestors[tip]
  BY NextBlock DEF ConnectTip
<1>2. /\ UNCHANGED <<failedValid, failedChild, linked, seq, errors>>
      /\ candidates' = {c \in candidates : ~Worse(c, b)}
  BY DEF ConnectTip, Pruned, links
<1>3. Failed' = Failed BY <1>2 DEF Failed
<1>4. Verified(b)' /\ \A x \in Blocks : Verified(x) => Verified(x)' BY ConnectTipInv
<1>5. \A u \in Threads : pc[u] # "inv" BY <1>1 DEF Mutex, Holding
<1>6. SUFFICES ASSUME errors = 0, NEW y \in linked \ Failed PROVE Covered(y)'
  BY <1>2, <1>3 DEF CompleteInv
<1>7. \A x \in linked \ Failed : Covered(x) BY <1>5, <1>6 DEF CompleteInv
<1>8. Ancestors[b] \cap Failed = {} BY <1>1, <1>5, <1>6, Unmarked
<1>9. \A c \in Blocks : Stands(c) /\ ~Worse(c, b) => Stands(c)'
  BY <1>2, <1>3, <1>4 DEF Stands, Usable
<1>10. PICK s \in Blocks : Stands(s)' /\ ~Worse(s, b)
  <2>1. CASE b \in candidates
    <3>1. ~Worse(b, b) BY OrderIrreflexive DEF Worse, TypeOK
    <3>2. Stands(b)' BY <1>1, <1>2, <1>3, <1>4, <1>8, <2>1, <3>1 DEF Stands, Usable
    <3> QED BY <3>1, <3>2
  <2>2. CASE b \notin candidates BY <1>1, <1>7, <1>9, <2>2 DEF Covered
  <2> QED BY <2>1, <2>2
<1>11. ASSUME NEW z \in Blocks, Worse(z, b), ~Worse(z, y) PROVE Covered(y)'
  <2>1. ~Worse(b, z) BY <1>11, OrderAsymmetric DEF Worse, TypeOK
  <2>2. ~Worse(s, z) BY <1>10, <2>1, OrderTransitive DEF Worse, TypeOK
  <2>3. ~Worse(s, y) BY <1>11, <2>2, OrderTransitive DEF Worse, TypeOK
  <2> QED BY <1>2, <1>10, <2>3 DEF Covered, Worse
<1>12. y \in Blocks BY DEF TypeOK
<1>13. CASE y \in candidates
  <2>1. ~Worse(y, y) BY <1>12, OrderIrreflexive DEF Worse, TypeOK
  <2> QED BY <1>2, <1>11, <1>12, <1>13, <2>1 DEF Covered
<1>14. CASE y \notin candidates
  <2>1. PICK c \in Blocks : Stands(c) /\ ~Worse(c, y) BY <1>7, <1>14 DEF Covered
  <2>2. CASE ~Worse(c, b) BY <1>2, <1>9, <2>1, <2>2 DEF Covered, Worse
  <2>3. CASE Worse(c, b) BY <1>11, <2>1, <2>3
  <2> QED BY <2>2, <2>3
<1> QED BY <1>13, <1>14

\* A rejected block was never connected, so that nothing that stands is above it.
LEMMA ConnectTipInvalidComplete ==
    ASSUME ~FickleVerdicts, TypeOK, Inv, CompleteInv, NEW t \in Threads, NEW b \in Blocks,
           ConnectTipInvalid(t, b)
    PROVE  CompleteInv'
<1> USE DEF Inv
<1>1. pc[t] = "conn" /\ b # Genesis BY NextBlock DEF ConnectTipInvalid
<1>2. /\ UNCHANGED <<level, failedChild, linked, seq, errors>>
      /\ failedValid' = failedValid \cup {b} /\ candidates' = candidates \ {b}
      /\ level[b] < VALID_SCRIPTS
  BY DEF ConnectTipInvalid, MayReject, links, Healthy, health
<1>3. Failed' = Failed \cup {b} BY <1>2 DEF Failed
<1>4. ~Verified(b) BY <1>1, <1>2 DEF Verified, VALID_SCRIPTS
<1>5. \A c \in Blocks : Stands(c) => Stands(c)'
  <2> SUFFICES ASSUME NEW c \in Blocks, Stands(c) PROVE Stands(c)' OBVIOUS
  <2>1. b \notin Ancestors[c] /\ c \in Ancestors[c]
    BY <1>4, VerifiedLinked, AncestorSelf DEF Stands
  <2> QED BY <1>2, <1>3, <2>1 DEF Stands, Usable, Verified
<1>6. \A x \in Blocks \ {b} : Covered(x) => Covered(x)' BY <1>2, <1>5 DEF Covered, Worse
<1>7. \A u \in Threads : pc[u] # "inv" BY <1>1 DEF Mutex, Holding
<1> QED BY <1>2, <1>3, <1>6, <1>7 DEF CompleteInv, TypeOK

LEMMA CompleteStep ==
    ASSUME ~DeepReconsider, ~FickleVerdicts, TypeOK, TypeOK', Inv, Inv', CompleteInv, [Next]_vars
    PROVE  CompleteInv'
<1> USE DEF index, links, chain, local, health, Healthy
<1>1. ASSUME NEW b \in Blocks, AcceptBlockHeader(b) PROVE CompleteInv'
  <2>1. b \notin data
    BY <1>1 DEF AcceptBlockHeader, Inv, IndexInv, mapBlockIndex, TypeOK,
                VALID_TREE, VALID_TRANSACTIONS, VALID_SCRIPTS
  <2>2. \A x \in Blocks : Verified(x) => Verified(x)'
    BY <1>1, <2>1, RaiseTree DEF AcceptBlockHeader, Verified, Inv
  <2> QED BY <1>1, <2>2, CompleteFrame DEF AcceptBlockHeader
<1>2. ASSUME NEW t \in Threads, NEW b \in Blocks, AcceptBlockFails(t, b) \/ ConnectTipFails(t, b)
      PROVE  CompleteInv'
  BY <1>2 DEF AcceptBlockFails, ConnectTipFails, SystemError, CompleteInv, TypeOK
<1>3. ASSUME NEW t \in Threads, NEW b \in Blocks, InvalidateBlock(t, b) PROVE CompleteInv'
  BY <1>3, GotoAt DEF InvalidateBlock, CompleteInv
<1>4. ASSUME NEW t \in Threads, NEW b \in Blocks, Reconsider(t, b) \/ ReprocessReconsider(t, b)
      PROVE  CompleteInv'
  BY <1>4, ReconsiderComplete DEF Reconsider, ReprocessReconsider, Request
<1>5. ASSUME NEW t \in Threads, ReprocessBlocks(t) PROVE CompleteInv'
  <2>1. \A u \in Threads : pc[u] = "inv" => pc'[u] = "inv"
    BY <1>5 DEF ReprocessBlocks, Goto, TypeOK
  <2> QED BY <1>5, <2>1, CompleteFrame DEF ReprocessBlocks, Request, Verified
<1>6. ASSUME NEW t \in Threads, ThreadStep(t),
             \/ TakeLock(t) \/ NothingToDo(t) \/ ChooseCandidate(t)
             \/ StepAtFork(t) \/ LoopAgain(t) \/ ReplayStart(t)
             \/ ReplayDisconnect(t) \/ ReplayDone(t) \/ CoinsAssertion(t) \/ StepDisconnect(t)
      PROVE  CompleteInv'
  <2>1. UNCHANGED <<level, linked, seq, candidates, failedValid, failedChild>>
    BY <1>6 DEF TakeLock, NothingToDo, ChooseCandidate, StepDisconnect, StepAtFork, LoopAgain,
       ReplayStart, ReplayDisconnect, ReplayDone, CoinsAssertion
  <2>2. errors' = errors \/ errors' = errors + 1
    BY <1>6 DEF TakeLock, NothingToDo, ChooseCandidate, StepDisconnect, StepAtFork, LoopAgain,
       ReplayStart, ReplayDisconnect, ReplayDone, CoinsAssertion, DisconnectTip,
       DisconnectTipFails, SystemError, ReadError
  <2>3. pc[t] # "inv" \/ UNCHANGED pc
    BY <1>6 DEF TakeLock, NothingToDo, ChooseCandidate, StepDisconnect, StepAtFork, LoopAgain,
       ReplayStart, ReplayDisconnect, ReplayDone, CoinsAssertion
  <2>4. \A u \in Threads : pc[u] = "inv" => pc'[u] = "inv"
    BY <1>6, <2>3, OthersStay DEF Inv
  <2>5. errors' = 0 => errors = 0 BY <2>2 DEF TypeOK
  <2> QED BY <2>1, <2>4, <2>5, CompleteFrame DEF Verified
<1>7. ASSUME NEW t \in Threads, NEW b \in Blocks, ConnectTipCorrupt(t, b) PROVE CompleteInv'
  <2>1. \A u \in Threads : pc[u] = "inv" => pc'[u] = "inv"
    BY <1>7 DEF ConnectTipCorrupt, IsNext, Goto, TypeOK
  <2> QED BY <1>7, <2>1, CompleteFrame DEF ConnectTipCorrupt, Verified
<1>8. ASSUME NEW t \in Threads, InvalidateTip(t) PROVE CompleteInv'
  BY <1>8 DEF InvalidateTip, DisconnectTipFails, SystemError, ReadError, CompleteInv, TypeOK
<1>9. CASE UNCHANGED vars BY <1>9, CompleteFrame DEF vars, Verified
<1>10. ASSUME NEW t \in Threads, Input(t) PROVE CompleteInv'
  BY <1>2, <1>3, <1>4, <1>5, <1>10, AcceptBlockComplete, AcceptBlockInvalidComplete,
     RestartComplete DEF Input
<1>11. ASSUME NEW t \in Threads, ThreadStep(t) PROVE CompleteInv'
  BY <1>2, <1>6, <1>7, <1>8, <1>11, DropCandidateComplete, ConnectTipComplete,
     ConnectTipInvalidComplete, InvalidateDoneComplete DEF ThreadStep
<1> QED BY <1>1, <1>9, <1>10, <1>11 DEF Next

LEMMA DutyStep ==
    ASSUME TypeOK, Inv, Inv', CompleteInv, DutyInv, [Next]_vars
    PROVE  DutyInv'
<1> USE DEF index, links, chain, local, health, Healthy
<1>0. ASSUME UNCHANGED <<candidates, seq, tip, pc, target>>, errors' = 0 => errors = 0
      PROVE  DutyInv'
  BY <1>0 DEF DutyInv, OnDuty, IsBest, Worse
<1>1. ASSUME NEW b \in Blocks, AcceptBlockHeader(b) PROVE DutyInv'
  BY <1>0, <1>1 DEF AcceptBlockHeader
<1>2. ASSUME NEW t \in Threads, pc'[t] \notin {"idle", "loop"} PROVE DutyInv'
  BY <1>2 DEF DutyInv, OnDuty
<1>3. ASSUME NEW t \in Threads, NEW b \in Blocks, AcceptBlockInvalid(t, b) PROVE DutyInv'
  BY <1>0, <1>3 DEF AcceptBlockInvalid
<1>4. ASSUME errors' = errors + 1 PROVE DutyInv' BY <1>4 DEF DutyInv, TypeOK
<1>5. ASSUME NEW t \in Threads, Input(t) PROVE DutyInv'
  <2>1. ASSUME NEW b \in Blocks, AcceptBlockFails(t, b) PROVE DutyInv'
    BY <1>4, <2>1 DEF AcceptBlockFails, SystemError
  <2>2. ASSUME NEW b \in Blocks,
               \/ AcceptBlock(t, b) \/ InvalidateBlock(t, b) \/ Reconsider(t, b)
               \/ ReprocessReconsider(t, b) \/ ReprocessBlocks(t) \/ Restart(t)
        PROVE  pc'[t] \notin {"idle", "loop"}
    BY <2>2, GotoAt DEF AcceptBlock, InvalidateBlock, Reconsider, ReprocessReconsider,
       ReprocessBlocks, Restart
  <2> QED BY <1>2, <1>3, <1>5, <2>1, <2>2, TreeTypes DEF Input
<1>6. ASSUME NEW t \in Threads, NothingToDo(t) PROVE DutyInv'
  <2>1. SUFFICES ASSUME errors = 0 PROVE IsBest(tip)
    BY <1>6 DEF NothingToDo, DutyInv, IsBest, Worse
  <2>2. \A u \in Threads : pc[u] # "inv" BY <1>6 DEF NothingToDo, Inv, Mutex, Holding
  <2>3. candidates # {} BY <2>1, <2>2, TipCovered DEF Stands
  <2> QED BY <1>6, <2>3 DEF NothingToDo
<1>7. ASSUME NEW t \in Threads, StepAtFork(t) PROVE DutyInv'
  <2>1. CASE tip = target[t]
    <3>1. IsBest(tip) BY <1>7, <2>1 DEF StepAtFork, Inv, StepInv, Stepping
    <3> QED BY <1>7, <3>1 DEF StepAtFork, DutyInv, IsBest, Worse
  <2>2. CASE tip # target[t]
    <3>1. pc'[t] = "conn" BY <1>7, <2>2, GotoAt DEF StepAtFork
    <3> QED BY <1>2, <3>1
  <2> QED BY <2>1, <2>2
<1>8. ASSUME NEW t \in Threads, LoopAgain(t), ThreadStep(t) PROVE DutyInv'
  <2>1. CASE target[t] # tip
    <3>1. pc'[t] = "abc" BY <1>8, <2>1, GotoAt DEF LoopAgain
    <3> QED BY <1>2, <3>1
  <2>2. CASE target[t] = tip
    <3>1. /\ pc[t] = "loop" /\ UNCHANGED <<candidates, seq, tip, errors>>
          /\ \A u \in Threads \ {t} : target'[u] = target[u]
      BY <1>8, <2>2, GotoAt DEF LoopAgain
    <3>2. \A u \in Threads \ {t} : pc'[u] = pc[u] BY <1>8, OthersStay DEF Inv
    <3>3. ~OnDuty(t) BY <2>2, <3>1 DEF OnDuty
    <3>4. \A u \in Threads : OnDuty(u) => OnDuty(u)' BY <3>1, <3>2, <3>3 DEF OnDuty
    <3> QED BY <3>1, <3>4 DEF DutyInv, IsBest, Worse
  <2> QED BY <2>1, <2>2
<1>9. ASSUME NEW t \in Threads, NEW b \in Blocks, ConnectTip(t, b), ThreadStep(t) PROVE DutyInv'
  <2>1. IsBest(target[t])' /\ tip' = b /\ target' = target BY <1>9, ConnectTipInv DEF ConnectTip
  <2>2. CASE b = target[t]
    <3>1. IsBest(tip)' BY <2>1, <2>2 DEF IsBest
    <3> QED BY <3>1 DEF DutyInv
  <2>3. CASE b # target[t]
    <3>1. pc'[t] \in {"loop", "conn"} BY <1>9, GotoAt DEF ConnectTip, IsNext
    <3> QED BY <2>1, <2>3, <3>1 DEF DutyInv, OnDuty
  <2> QED BY <2>2, <2>3
<1>10. ASSUME NEW t \in Threads, NEW b \in Blocks, ConnectTipInvalid(t, b) \/ ConnectTipCorrupt(t, b)
       PROVE  DutyInv'
  <2>1. target[t] # tip BY <1>10, NextBlock DEF ConnectTipInvalid, ConnectTipCorrupt
  <2>2. pc'[t] = "loop" /\ tip' = tip /\ target' = target
    BY <1>10, GotoAt DEF ConnectTipInvalid, ConnectTipCorrupt
  <2> QED BY <2>1, <2>2 DEF DutyInv, OnDuty
<1>11. ASSUME NEW t \in Threads, NEW b \in Blocks, ConnectTipFails(t, b) PROVE DutyInv'
  BY <1>4, <1>11 DEF ConnectTipFails, SystemError
<1>12. ASSUME NEW t \in Threads,
              \/ TakeLock(t) \/ DropCandidate(t) \/ ChooseCandidate(t) \/ InvalidateDone(t)
              \/ ReplayStart(t) \/ ReplayDisconnect(t) \/ ReplayDone(t)
       PROVE  DutyInv'
  <2>1. pc'[t] \notin {"idle", "loop"}
    BY <1>12, GotoAt DEF TakeLock, DropCandidate, ChooseCandidate, InvalidateDone, ReplayStart,
       ReplayDisconnect, ReplayDone
  <2> QED BY <1>2, <2>1
<1>13. ASSUME NEW t \in Threads, StepDisconnect(t) \/ InvalidateTip(t) PROVE DutyInv'
  <2>1. CASE DisconnectTip /\ UNCHANGED pc
    <3>1. pc'[t] \notin {"idle", "loop"} BY <1>13, <2>1 DEF StepDisconnect, InvalidateTip
    <3> QED BY <1>2, <3>1
  <2>2. CASE DisconnectTipFails BY <1>4, <2>2 DEF DisconnectTipFails, SystemError, ReadError
  <2> QED BY <1>13, <2>1, <2>2 DEF StepDisconnect, InvalidateTip
<1>14. ASSUME NEW t \in Threads, CoinsAssertion(t) PROVE DutyInv'
  BY <1>0, <1>14 DEF CoinsAssertion
<1>15. CASE UNCHANGED vars BY <1>0, <1>15 DEF vars
<1>16. ASSUME NEW t \in Threads, ThreadStep(t) PROVE DutyInv'
  BY <1>6, <1>7, <1>8, <1>9, <1>10, <1>11, <1>12, <1>13, <1>14, <1>16 DEF ThreadStep
<1> QED BY <1>1, <1>5, <1>15, <1>16 DEF Next

\* At rest the tip is the best candidate, and covers every block that is not marked.
RestInv == CompleteInv /\ DutyInv

LEMMA RestInvariance ==
    ASSUME ~DeepReconsider, ~FickleVerdicts
    PROVE  Spec => [](TypeOK /\ Inv /\ Cause /\ RestInv)
<1>1. Init => RestInv
  <2> SUFFICES ASSUME Init PROVE RestInv OBVIOUS
  <2>1. CompleteInv BY DEF Init, CompleteInv, Covered
  <2>2. seq \in [Blocks -> Nat] /\ Genesis \in Blocks BY TreeTypes DEF Init
  <2>3. IsBest(tip) BY <2>2, OrderIrreflexive DEF Init, IsBest, Worse
  <2> QED BY <2>1, <2>3 DEF RestInv, DutyInv
<1>2. TypeOK /\ TypeOK' /\ Inv /\ Inv' /\ RestInv /\ [Next]_vars => RestInv'
  BY CompleteStep, DutyStep DEF RestInv
<1> QED BY <1>1, <1>2, CauseInvariance, PTL DEF Spec

LEMMA AtRest ==
    ASSUME TypeOK, Inv, RestInv, errors = 0, Quiet, NEW b \in linked \ Failed
    PROVE  IsBest(tip) /\ (b \in candidates \/ Worse(b, tip))
<1>1. /\ \A t \in Threads : ~OnDuty(t) /\ pc[t] # "inv"
  BY DEF Quiet, OnDuty
<1>2. IsBest(tip) /\ Covered(b) BY <1>1 DEF RestInv, DutyInv, CompleteInv
<1>3. ASSUME NEW c \in Blocks, Stands(c), ~Worse(c, b), ~Worse(b, tip) PROVE b = c
  <2>1. ~Worse(tip, c) BY <1>2, <1>3 DEF IsBest, Stands
  <2>2. b \in Blocks /\ tip \in Blocks /\ seq \in [Blocks -> Nat] BY DEF TypeOK
  <2>3. ~Worse(b, c) BY <1>3, <2>1, <2>2, OrderTransitive DEF Worse
  <2> QED BY <1>3, <2>2, <2>3, OrderTotal DEF Worse
<1> QED BY <1>2, <1>3 DEF Covered, Stands

(***************************************************************************)
(* "The result is either failure or an activated best chain": once every   *)
(* thread has left ActivateBestChain, no usable block sorts above the tip, *)
(* for any number of threads, any order of arrivals, reorganizations,      *)
(* requests and restarts, up to the first system error.                    *)
(***************************************************************************)
THEOREM TipIsTheBest ==
    ASSUME ~DeepReconsider, ~FickleVerdicts
    PROVE  Spec => [](errors = 0 => TipIsBest)
<1>1. TypeOK /\ Inv /\ Cause /\ RestInv => (errors = 0 => TipIsBest)
  <2> SUFFICES ASSUME TypeOK, Inv, RestInv, errors = 0, Quiet, NEW b \in Blocks, Usable(b)
               PROVE  ~Worse(tip, b)
    BY DEF TipIsBest
  <2>1. b \in linked \ Failed BY AncestorSelf DEF Usable
  <2>2. IsBest(tip) /\ (b \in candidates \/ Worse(b, tip)) BY <2>1, AtRest
  <2>3. CASE b \in candidates BY <2>2, <2>3 DEF IsBest
  <2>4. CASE Worse(b, tip) BY <2>4, OrderAsymmetric DEF Worse, TypeOK
  <2> QED BY <2>2, <2>3, <2>4
<1> QED BY <1>1, RestInvariance, PTL

(***************************************************************************)
(* Under the same conditions, every block at least as good as the tip and  *)
(* without an invalid ancestor is in setBlockIndexCandidates at rest: the  *)
(* next reorganization, and CheckBlockIndex, will find it.                 *)
(***************************************************************************)
THEOREM CandidatesAreComplete ==
    ASSUME ~DeepReconsider, ~FickleVerdicts
    PROVE  Spec => [](errors = 0 => CandidatesComplete)
<1>1. TypeOK /\ Inv /\ Cause /\ RestInv => (errors = 0 => CandidatesComplete)
  <2> SUFFICES ASSUME TypeOK, Inv, Cause, RestInv, errors = 0, Quiet, NEW b \in linked,
                      Ancestors[b] \cap failedValid = {}, ~Worse(b, tip)
               PROVE  b \in candidates
    BY DEF CandidatesComplete
  <2>1. b \notin Failed BY DEF Cause
  <2> QED BY <2>1, AtRest
<1> QED BY <1>1, RestInvariance, PTL
=============================================================================
