----------------------------- MODULE ChainState -----------------------------
(***************************************************************************)
(* The block tree and the active chain of main.cpp: mapBlockIndex and the  *)
(* status of its entries, setBlockIndexCandidates, mapBlocksUnlinked,      *)
(* chainActive, and the best block of pcoinsTip.  Threads deliver headers  *)
(* and blocks, invalidate and reconsider blocks over RPC, replay blocks    *)
(* for a spork or a transaction lock, and run ActivateBestChain, which     *)
(* gives cs_main up between its steps.                                     *)
(*                                                                         *)
(* A run of ActivateBestChainStep, of InvalidateBlock or of                *)
(* DisconnectBlocksAndReprocess is a sequence of steps here, one for each  *)
(* ConnectTip, DisconnectTip or iteration of FindMostWorkChain, all with   *)
(* cs_main held.  Left out: pindexBestHeader and pindexBestInvalid, which  *)
(* only feed header download and warnings, the mempool and the wallets.    *)
(***************************************************************************)
EXTENDS Naturals, FiniteSets

CONSTANTS
    Blocks, Genesis,
    Parent,          \* pprev; the genesis block is its own parent here
    Ancestors,       \* a block and all the blocks before it
    Height,          \* nHeight
    Work,            \* nChainWork
    Addr,            \* where the CBlockIndex lies in memory, the last tie breaker
    Threads,
    CorruptBlocks,   \* blocks whose bytes on disk are damaged after they arrived
    FickleVerdicts,  \* CheckBlock may reject a block that was connected before,
                     \* because a transaction lock or a payment vote came since
    DeepReconsider,  \* reconsiderblock is also called below a failed block
    ReplayBlocks,    \* the argument of ReprocessBlocks
    MaxRejected,     \* bound on the recent entries of mapRejectedBlocks
    MaxOps,          \* bound on operator requests, replays and restarts
    MaxErrors        \* bound on system errors (disk full, failed read or write)

ASSUME TreeAssumption ==
    /\ Genesis \in Blocks
    /\ Parent \in [Blocks -> Blocks]
    /\ Ancestors \in [Blocks -> SUBSET Blocks]
    /\ Height \in [Blocks -> Nat] /\ Work \in [Blocks -> Nat] /\ Addr \in [Blocks -> Nat]
    /\ Parent[Genesis] = Genesis /\ Ancestors[Genesis] = {Genesis}
    /\ \A b \in Blocks \ {Genesis} :
          /\ Ancestors[b] = {b} \cup Ancestors[Parent[b]]
          /\ Height[b] = Height[Parent[b]] + 1
          /\ Work[b] > Work[Parent[b]]
    /\ \A a, b \in Blocks : Addr[a] = Addr[b] => a = b
    /\ IsFiniteSet(Blocks)
    \* What follows from the above by induction on the height, which the prover
    \* cannot do: every chain starts at the genesis block, contains the chains of
    \* its blocks, gains work with each block and does not fork.
    /\ \A b \in Blocks : Genesis \in Ancestors[b]
    /\ \A b \in Blocks : \A a \in Ancestors[b] :
          /\ Ancestors[a] \subseteq Ancestors[b]
          /\ a = b \/ (Height[a] < Height[b] /\ Work[a] < Work[b])
          /\ \A c \in Ancestors[b] : a \in Ancestors[c] \/ c \in Ancestors[a]

ASSUME BoundsAssumption ==
    /\ CorruptBlocks \subseteq Blocks
    /\ FickleVerdicts \in BOOLEAN /\ DeepReconsider \in BOOLEAN
    /\ ReplayBlocks \in Nat /\ MaxRejected \in Nat /\ MaxOps \in Nat /\ MaxErrors \in Nat

VARIABLES
    level,        \* nStatus & BLOCK_VALID_MASK; 0 when not in mapBlockIndex
    data,         \* BLOCK_HAVE_DATA
    failedValid,  \* BLOCK_FAILED_VALID
    failedChild,  \* BLOCK_FAILED_CHILD
    unsaved,      \* entries marked BLOCK_FAILED_CHILD and not made dirty since
    linked,       \* nChainTx # 0
    seq, nextSeq, \* nSequenceId, nBlockSequenceId
    candidates,   \* setBlockIndexCandidates
    unlinked,     \* mapBlocksUnlinked, by its second component
    tip,          \* chainActive.Tip()
    coinsBest,    \* pcoinsTip->GetBestBlock()
    pc,           \* what each thread is doing
    target,       \* its pindexMostWork, or the block InvalidateBlock is about
    oldTip,       \* pindexOldTip of the thread that holds cs_main
    left,         \* rounds left in a loop of ReprocessBlocks
    fault,        \* the assertion that ended the process
    aborted,      \* AbortNode was called: the node is shutting down
    ops, errors

index == <<level, data, failedValid, failedChild, unsaved>>
links == <<linked, seq, nextSeq, unlinked>>
chain == <<tip, coinsBest>>
local == <<pc, target, oldTip, left>>
health == <<fault, aborted, ops, errors>>
vars == <<index, links, candidates, chain, local, health>>

VALID_TREE == 2
VALID_TRANSACTIONS == 3
VALID_SCRIPTS == 5

mapBlockIndex == {b \in Blocks : level[b] > 0}
Failed == failedValid \cup failedChild
Contains(b) == b \in Ancestors[tip]

\* ActivateBestChain: wants cs_main, finds the best candidate, disconnects,
\* connects, has released cs_main; InvalidateBlock; ReprocessBlocks before and
\* after it takes cs_main.
Pcs == {"idle", "abc", "find", "disc", "conn", "loop", "inv", "recon", "replay"}
Holding == {"find", "disc", "conn", "inv", "replay"}
LockFree == \A t \in Threads : pc[t] \notin Holding
Goto(t, l) == pc' = [pc EXCEPT ![t] = l]
Return(t) == Goto(t, "idle") /\ target' = [target EXCEPT ![t] = Genesis]

TypeOK ==
    /\ level \in [Blocks -> {0, VALID_TREE, VALID_TRANSACTIONS, VALID_SCRIPTS}]
    /\ data \subseteq Blocks /\ linked \subseteq Blocks
    /\ failedValid \subseteq Blocks /\ failedChild \subseteq Blocks
    /\ unsaved \subseteq Blocks
    /\ seq \in [Blocks -> Nat] /\ nextSeq \in Nat
    /\ candidates \subseteq Blocks /\ unlinked \subseteq Blocks
    /\ tip \in Blocks /\ coinsBest \in Blocks /\ oldTip \in Blocks
    /\ pc \in [Threads -> Pcs] /\ target \in [Threads -> Blocks]
    /\ left \in Nat
    /\ fault \in {"none", "coins", "unlinked", "empty"} /\ aborted \in BOOLEAN
    /\ ops \in 0..MaxOps /\ errors \in 0..MaxErrors

-----------------------------------------------------------------------------
\* CBlockIndexWorkComparator, with the sequence ids s: a sorts before b.
WorseBy(s, a, b) ==
    \/ Work[a] < Work[b]
    \/ Work[a] = Work[b] /\ s[a] > s[b]
    \/ Work[a] = Work[b] /\ s[a] = s[b] /\ Addr[a] > Addr[b]

Worse(a, b) == WorseBy(seq, a, b)

\* CBlockIndex::IsValid and CBlockIndex::RaiseValidity
IsValid(b, upTo) == b \notin Failed /\ level[b] >= upTo

\* Variant: the new level is or-ed to the old one (3 | 5 = 7).
RaiseValidityOr(b, upTo) ==
    level' = [level EXCEPT ![b] = IF @ = VALID_TRANSACTIONS /\ upTo = VALID_SCRIPTS
                                  THEN 7 ELSE upTo]

RaiseValidity(b, upTo) ==
    level' = IF b \notin Failed /\ level[b] < upTo THEN [level EXCEPT ![b] = upTo] ELSE level

\* Variants: nothing is pruned; the tip is pruned as well.
PrunedNothing(t) == candidates
PrunedWithTip(t) == {c \in candidates : Worse(t, c)}

\* PruneBlockIndexCandidates when t is the tip.
Pruned(t) == {c \in candidates : ~Worse(c, t)}

\* The state InitBlockIndex leaves: the genesis block is stored and active.
Init ==
    /\ level = [b \in Blocks |-> IF b = Genesis THEN VALID_TRANSACTIONS ELSE 0]
    /\ data = {Genesis} /\ linked = {Genesis}
    /\ failedValid = {} /\ failedChild = {} /\ unsaved = {}
    /\ seq = [b \in Blocks |-> IF b = Genesis THEN 1 ELSE 0] /\ nextSeq = 2
    /\ candidates = {Genesis} /\ unlinked = {}
    /\ tip = Genesis /\ coinsBest = Genesis
    /\ pc = [t \in Threads |-> "idle"] /\ target = [t \in Threads |-> Genesis]
    /\ oldTip = Genesis /\ left = 0
    /\ fault = "none" /\ aborted = FALSE /\ ops = 0 /\ errors = 0

\* state.Abort and AbortNode: the node is asked to stop, and goes on until then.
SystemError ==
    /\ errors < MaxErrors
    /\ errors' = errors + 1 /\ aborted' = TRUE
    /\ UNCHANGED <<fault, ops>>
\* An error that is only returned.
ReadError ==
    /\ errors < MaxErrors
    /\ errors' = errors + 1 /\ UNCHANGED <<fault, aborted, ops>>
Healthy == UNCHANGED health
Request == ops < MaxOps /\ ops' = ops + 1 /\ UNCHANGED <<fault, aborted, errors>>

-----------------------------------------------------------------------------
\* Headers and blocks arrive.

\* Variant: a known header is accepted even when it is marked failed.
HeaderAcceptedIfKnown(b) ==
    b \in mapBlockIndex \/ (Parent[b] \in mapBlockIndex /\ Parent[b] \notin Failed)

\* AcceptBlockHeader returns true: the header is known and not failed, or its
\* parent is.
HeaderAccepted(b) ==
    IF b \in mapBlockIndex THEN b \notin Failed
    ELSE Parent[b] \in mapBlockIndex /\ Parent[b] \notin Failed

\* A header of a headers message: AcceptBlockHeader and AddToBlockIndex.
AcceptBlockHeader(b) ==
    /\ fault = "none" /\ LockFree
    /\ b \notin mapBlockIndex /\ HeaderAccepted(b)
    /\ RaiseValidity(b, VALID_TREE)
    /\ UNCHANGED <<data, failedValid, failedChild, unsaved, links, candidates, chain, local>>
    /\ Healthy

\* Variant: the blocks that waited for b stay unlinked.
NowLinkedAlone(b) == {b}

\* The blocks ReceivedBlockTransactions takes off its queue when b arrives.
NowLinked(b) ==
    {d \in unlinked \cup {b} :
        b \in Ancestors[d] /\ Ancestors[d] \ Ancestors[b] \subseteq unlinked \cup {b}}

\* The sequence ids it may hand out: the queue is first in, first out, and the
\* children of one block come in the order of the multimap, which is left open.
QueueOrders(new) ==
    {s \in [new -> nextSeq..(nextSeq + Cardinality(new) - 1)] :
        \A x, y \in new : x # y =>
            /\ s[x] # s[y]
            /\ Height[x] < Height[y] => s[x] < s[y]
            /\ Height[x] = Height[y] /\ Parent[x] # Parent[y] /\ s[Parent[x]] < s[Parent[y]]
                  => s[x] < s[y]}

\* The bytes of b are stored; b and what waited for it become connectable.
ReceivedBlockTransactions(b) ==
    /\ data' = data \cup {b}
    /\ RaiseValidity(b, VALID_TRANSACTIONS)
    /\ UNCHANGED <<failedValid, failedChild, unsaved>>
    /\ IF Parent[b] \in linked
       THEN \E s \in QueueOrders(NowLinked(b)) :
              LET newSeq == [x \in Blocks |-> IF x \in NowLinked(b) THEN s[x] ELSE seq[x]]
              IN  /\ linked' = linked \cup NowLinked(b)
                  /\ seq' = newSeq
                  /\ nextSeq' = nextSeq + Cardinality(NowLinked(b))
                  /\ unlinked' = unlinked \ NowLinked(b)
                  /\ candidates' = candidates \cup
                        {x \in NowLinked(b) : ~WorseBy(newSeq, x, tip)}
       ELSE /\ unlinked' = unlinked \cup {b}
            /\ UNCHANGED <<linked, seq, nextSeq, candidates>>

\* The guard of AcceptBlock, up to the call of AcceptBlockHeader.
MayAccept(t, b) ==
    /\ fault = "none" /\ LockFree /\ pc[t] = "idle"
    /\ Parent[b] \in mapBlockIndex /\ Parent[b] \notin Failed
    /\ HeaderAccepted(b)

\* ProcessNewBlock: the block is new and good, or already stored; either way
\* ActivateBestChain follows.
AcceptBlock(t, b) ==
    /\ MayAccept(t, b)
    /\ IF b \in data THEN UNCHANGED <<index, links, candidates>>
       ELSE ReceivedBlockTransactions(b)
    /\ Goto(t, "abc") /\ UNCHANGED <<target, oldTip, left, chain>>
    /\ Healthy

\* CheckBlock or ContextualCheckBlock finds the block invalid, after its header
\* was accepted.
AcceptBlockInvalid(t, b) ==
    /\ MayAccept(t, b) /\ b \notin data
    /\ RaiseValidity(b, VALID_TREE)
    /\ failedValid' = failedValid \cup {b}
    /\ UNCHANGED <<data, failedChild, unsaved, links, candidates, chain, local>>
    /\ Healthy

\* The block cannot be written: only its header stays.
AcceptBlockFails(t, b) ==
    /\ MayAccept(t, b) /\ b \notin data
    /\ RaiseValidity(b, VALID_TREE)
    /\ UNCHANGED <<data, failedValid, failedChild, unsaved, links, candidates, chain, local>>
    /\ SystemError

-----------------------------------------------------------------------------
\* DisconnectTip and ConnectTip

AtFork(t) == tip \in Ancestors[target[t]]
Disconnecting(t) ==
    \/ pc[t] = "disc" /\ ~AtFork(t)
    \/ pc[t] = "inv" /\ Contains(target[t])
    \/ pc[t] = "replay" /\ left > 0

\* DisconnectBlock and ConnectBlock assert that pcoinsTip stands at the tip.
CoinsAssertion(t) ==
    /\ fault = "none" /\ coinsBest # tip
    /\ Disconnecting(t) \/ pc[t] = "conn"
    /\ fault' = "coins" /\ UNCHANGED <<aborted, ops, errors>>
    /\ UNCHANGED <<index, links, candidates, chain, local>>

\* Variant: the view of the block is not flushed into pcoinsTip.
DisconnectTipUnflushed ==
    /\ fault = "none" /\ coinsBest = tip
    /\ tip' = Parent[tip] /\ UNCHANGED coinsBest
    /\ Healthy

\* DisconnectTip, up to UpdateTip.
DisconnectTip ==
    /\ fault = "none" /\ coinsBest = tip
    /\ coinsBest' = Parent[tip] /\ tip' = Parent[tip]
    /\ Healthy

\* ReadBlockFromDisk fails, or FlushStateToDisk does, which comes after the coins were
\* moved and before the tip is; or DisconnectBlock cannot read the undo data, which
\* stops nobody.
DisconnectTipFails ==
    /\ fault = "none" /\ coinsBest = tip /\ UNCHANGED tip
    /\ \/ coinsBest' \in {tip, Parent[tip]} /\ SystemError
       \/ UNCHANGED coinsBest /\ ReadError

-----------------------------------------------------------------------------
\* ActivateBestChain

TakeLock(t) ==
    /\ fault = "none" /\ LockFree /\ pc[t] = "abc"
    /\ Goto(t, "find")
    /\ UNCHANGED <<index, links, candidates, chain, target, oldTip, left>>
    /\ Healthy

\* setBlockIndexCandidates.rbegin(), and the first block on its way down to the
\* active chain that is failed or has no data.
IsBest(c) == c \in candidates /\ \A d \in candidates : ~Worse(c, d)
OffChain(c) == Ancestors[c] \ Ancestors[tip]
\* Variant of the test of a block: only the data count.
UnusableNoData(b) == b \notin data
Unusable(b) == b \in Failed \/ b \notin data
FirstUnusable(c, b) ==
    /\ b \in OffChain(c) /\ Unusable(b)
    /\ \A x \in OffChain(c) : Unusable(x) => Height[x] <= Height[b]
From(c, b) == {x \in OffChain(c) : Height[x] > Height[b]}

\* No candidate, or the tip is the best one: ActivateBestChain returns true.
NothingToDo(t) ==
    /\ fault = "none" /\ pc[t] = "find"
    /\ candidates = {} \/ IsBest(tip)
    /\ Return(t)
    /\ UNCHANGED <<index, links, candidates, chain, oldTip, left>>
    /\ Healthy

\* One round of FindMostWorkChain that discards its candidate.  The marks it
\* leaves are not put in setDirtyBlockIndex.
DropCandidate(t) ==
    /\ fault = "none" /\ pc[t] = "find"
    /\ \E c, b \in Blocks :
         /\ IsBest(c) /\ FirstUnusable(c, b)
         /\ candidates' = candidates \ (From(c, b) \cup {b})
         /\ IF b \in Failed
            THEN /\ failedChild' = failedChild \cup From(c, b)
                 /\ unsaved' = unsaved \cup (From(c, b) \ failedChild)
                 /\ UNCHANGED unlinked
            ELSE /\ unlinked' = unlinked \cup From(c, b)
                 /\ UNCHANGED <<failedChild, unsaved>>
         \* assert(pindexTest->nChainTx || pindexTest->nHeight == 0)
         /\ fault' = IF From(c, b) \cup {b} \subseteq linked THEN fault ELSE "unlinked"
    /\ UNCHANGED <<level, data, failedValid, linked, seq, nextSeq, chain, local>>
    /\ UNCHANGED <<aborted, ops, errors>>

\* FindMostWorkChain returns a candidate: ActivateBestChainStep starts.
ChooseCandidate(t) ==
    /\ fault = "none" /\ pc[t] = "find"
    /\ \E c \in Blocks \ {tip} :
         /\ IsBest(c) /\ \A b \in OffChain(c) : ~Unusable(b)
         /\ target' = [target EXCEPT ![t] = c]
         /\ fault' = IF OffChain(c) \subseteq linked THEN fault ELSE "unlinked"
    /\ oldTip' = tip
    /\ Goto(t, "disc")
    /\ UNCHANGED <<index, links, candidates, chain, left, aborted, ops, errors>>

StepDisconnect(t) ==
    /\ pc[t] = "disc" /\ ~AtFork(t)
    /\ UNCHANGED <<index, links, candidates, left>>
    /\ \/ DisconnectTip /\ UNCHANGED <<pc, target, oldTip>>
       \/ DisconnectTipFails /\ Return(t) /\ oldTip' = Genesis

\* The fork is reached: connect, or nothing is left to do in this step.
StepAtFork(t) ==
    /\ fault = "none" /\ pc[t] = "disc" /\ AtFork(t)
    /\ IF tip = target[t] THEN Goto(t, "loop") /\ oldTip' = Genesis
       ELSE Goto(t, "conn") /\ UNCHANGED oldTip
    /\ UNCHANGED <<index, links, candidates, chain, target, left>>
    /\ Healthy

\* The block ConnectTip is called with: on the way to the target, above the tip.
IsNext(t, b) ==
    /\ fault = "none" /\ pc[t] = "conn" /\ coinsBest = tip
    /\ b \in Ancestors[target[t]] /\ b # Genesis /\ Parent[b] = tip

\* ConnectTip and PruneBlockIndexCandidates.  cs_main is given up once the tip
\* has more work than before, or is the target.
ConnectTip(t, b) ==
    /\ IsNext(t, b)
    /\ RaiseValidity(b, VALID_SCRIPTS)
    /\ coinsBest' = b /\ tip' = b
    /\ candidates' = Pruned(b)
    /\ fault' = IF Pruned(b) = {} THEN "empty" ELSE fault
    /\ IF b = target[t] \/ Work[b] > Work[oldTip]
       THEN Goto(t, "loop") /\ oldTip' = Genesis
       ELSE UNCHANGED <<pc, oldTip>>
    /\ UNCHANGED <<data, failedValid, failedChild, unsaved, links, target, left>>
    /\ UNCHANGED <<aborted, ops, errors>>

\* The verdict of ConnectBlock on a block is open until it was once connected.
MayReject(b) == FickleVerdicts \/ level[b] < VALID_SCRIPTS

\* Variant: the rejected block is not marked.
ConnectTipInvalidUnmarked(t, b) ==
    /\ IsNext(t, b) /\ MayReject(b)
    /\ Goto(t, "loop") /\ oldTip' = Genesis
    /\ UNCHANGED <<index, links, candidates, chain, target, left>>
    /\ Healthy

\* ConnectBlock rejects the block: InvalidBlockFound, and the step ends.
ConnectTipInvalid(t, b) ==
    /\ IsNext(t, b) /\ MayReject(b)
    /\ failedValid' = failedValid \cup {b}
    /\ candidates' = candidates \ {b}
    /\ Goto(t, "loop") /\ oldTip' = Genesis
    /\ UNCHANGED <<level, data, failedChild, unsaved, links, chain, target, left>>
    /\ Healthy

\* It rejects bytes that do not belong to the header: CorruptionPossible.
ConnectTipCorrupt(t, b) ==
    /\ IsNext(t, b) /\ b \in CorruptBlocks
    /\ Goto(t, "loop") /\ oldTip' = Genesis
    /\ UNCHANGED <<index, links, candidates, chain, target, left>>
    /\ Healthy

\* A read or a write fails: before the block counts as valid, after that, or in
\* FlushStateToDisk, when the coins are already those of the block.
ConnectTipFails(t, b) ==
    /\ IsNext(t, b)
    /\ \/ UNCHANGED <<level, coinsBest>>
       \/ RaiseValidity(b, VALID_SCRIPTS) /\ coinsBest' \in {tip, b}
    /\ Return(t) /\ oldTip' = Genesis
    /\ UNCHANGED <<data, failedValid, failedChild, unsaved, links, candidates, tip, left>>
    /\ SystemError

\* Variant: ActivateBestChain takes a single step.
LoopOnce(t) ==
    /\ fault = "none" /\ pc[t] = "loop"
    /\ Return(t)
    /\ UNCHANGED <<index, links, candidates, chain, oldTip, left>>
    /\ Healthy

\* The condition of the outer loop reads chainActive.Tip() without cs_main.
LoopAgain(t) ==
    /\ fault = "none" /\ pc[t] = "loop"
    /\ IF target[t] # tip THEN Goto(t, "abc") /\ UNCHANGED target ELSE Return(t)
    /\ UNCHANGED <<index, links, candidates, chain, oldTip, left>>
    /\ Healthy

-----------------------------------------------------------------------------
\* invalidateblock, reconsiderblock and ReprocessBlocks

\* InvalidateBlock up to its loop.
InvalidateBlock(t, b) ==
    /\ fault = "none" /\ LockFree /\ pc[t] = "idle"
    /\ b \in mapBlockIndex \ {Genesis}
    /\ failedValid' = failedValid \cup {b}
    /\ unsaved' = unsaved \ {b}
    /\ candidates' = candidates \ {b}
    /\ Goto(t, "inv") /\ target' = [target EXCEPT ![t] = b]
    /\ UNCHANGED <<level, data, failedChild, links, chain, oldTip, left>>
    /\ Request

\* One round of the loop: the tip is marked and disconnected.
InvalidateTip(t) ==
    /\ pc[t] = "inv" /\ Contains(target[t])
    /\ failedChild' = failedChild \cup {tip}
    /\ unsaved' = unsaved \ {tip}
    /\ candidates' = candidates \ {tip}
    /\ UNCHANGED <<level, data, failedValid, links, oldTip, left>>
    /\ \/ DisconnectTip /\ UNCHANGED <<pc, target>>
       \/ DisconnectTipFails /\ Return(t)

\* Variant: only what is better than the new tip is put back.
EligibleIfBetter(b) == IsValid(b, VALID_TRANSACTIONS) /\ b \in linked /\ Worse(tip, b)

\* What InvalidateBlock puts back into setBlockIndexCandidates.
Eligible(b) == IsValid(b, VALID_TRANSACTIONS) /\ b \in linked /\ ~Worse(b, tip)

InvalidateDone(t) ==
    /\ fault = "none" /\ pc[t] = "inv" /\ ~Contains(target[t])
    /\ candidates' = candidates \cup {b \in Blocks : Eligible(b)}
    /\ Goto(t, "abc") /\ target' = [target EXCEPT ![t] = Genesis]
    /\ UNCHANGED <<index, links, chain, oldTip, left>>
    /\ Healthy

\* ReconsiderBlock: descendants are cleared and may become candidates again,
\* ancestors are only cleared.
\* Variants: descendants keep their marks; all cleared blocks become candidates.
DescendantsNone(b) == {b}
Descendants(b) == {x \in mapBlockIndex : b \in Ancestors[x]}
Cleared(b) == Descendants(b) \cup Ancestors[b]
ReadmittedAll(b) ==
    {x \in Descendants(b) : x \in Failed /\ level[x] >= VALID_TRANSACTIONS /\ x \in linked}
Readmitted(b) ==
    {x \in Descendants(b) : /\ x \in Failed /\ level[x] >= VALID_TRANSACTIONS
                            /\ x \in linked /\ Worse(tip, x)}
ReconsiderBlock(b) ==
    /\ b \in mapBlockIndex
    /\ DeepReconsider \/ Ancestors[b] \cap Failed \subseteq {b}
    /\ failedValid' = failedValid \ Cleared(b)
    /\ failedChild' = failedChild \ Cleared(b)
    /\ unsaved' = unsaved \ Cleared(b)
    /\ candidates' = candidates \cup Readmitted(b)
    /\ UNCHANGED <<level, data>>

Reconsider(t, b) ==
    /\ fault = "none" /\ LockFree /\ pc[t] = "idle"
    /\ ReconsiderBlock(b)
    /\ Goto(t, "abc")
    /\ UNCHANGED <<links, chain, target, oldTip, left>>
    /\ Request

\* ReprocessBlocks, called for SPORK_12_RECONSIDER_BLOCKS or a complete
\* transaction lock, by the one thread that handles messages.  It goes through
\* mapRejectedBlocks, which can hold any block, and takes cs_main for each one.
ReprocessBlocks(t) ==
    /\ fault = "none" /\ pc[t] = "idle"
    /\ \A u \in Threads : pc[u] \notin {"recon", "replay"}
    /\ Goto(t, "recon") /\ left' = MaxRejected
    /\ UNCHANGED <<index, links, candidates, chain, target, oldTip>>
    /\ Request

ReprocessReconsider(t, b) ==
    /\ fault = "none" /\ LockFree /\ pc[t] = "recon" /\ left > 0
    /\ ReconsiderBlock(b)
    /\ left' = left - 1
    /\ UNCHANGED <<links, chain, pc, target, oldTip>>
    /\ Healthy

\* DisconnectBlocksAndReprocess takes cs_main.  The chain is assumed longer than
\* what is replayed.
ReplayStart(t) ==
    /\ fault = "none" /\ LockFree /\ pc[t] = "recon"
    /\ Height[tip] > ReplayBlocks
    /\ Goto(t, "replay") /\ left' = ReplayBlocks + 1
    /\ UNCHANGED <<index, links, candidates, chain, target, oldTip>>
    /\ Healthy

\* What DisconnectTip returns is ignored.
ReplayDisconnect(t) ==
    /\ pc[t] = "replay" /\ left > 0
    /\ left' = left - 1
    /\ DisconnectTip \/ DisconnectTipFails
    /\ UNCHANGED <<index, links, candidates, pc, target, oldTip>>

ReplayDone(t) ==
    /\ fault = "none" /\ pc[t] = "replay" /\ left = 0
    /\ Goto(t, "abc")
    /\ UNCHANGED <<index, links, candidates, chain, target, oldTip, left>>
    /\ Healthy

-----------------------------------------------------------------------------
(***************************************************************************)
(* Shutdown, which joins the threads and writes the index and the coins,   *)
(* and LoadBlockIndexDB in the next process, whose first ActivateBestChain *)
(* is run by thread t.  A mark that FindMostWorkChain did not make dirty   *)
(* is on disk only if its entry was written for another reason.            *)
(***************************************************************************)
Restart(t) ==
    /\ fault = "none" /\ \A u \in Threads : pc[u] = "idle"
    /\ \E lost \in SUBSET unsaved : failedChild' = failedChild \ lost
    /\ unsaved' = {}
    /\ UNCHANGED <<level, data, failedValid>>
    /\ linked' = {b \in data : Ancestors[b] \subseteq data}
    /\ unlinked' = {b \in data : ~(Ancestors[b] \subseteq data)}
    /\ seq' = [b \in Blocks |-> 0] /\ nextSeq' = 1
    /\ tip' = coinsBest /\ UNCHANGED coinsBest
    /\ candidates' = {b \in linked' : /\ b \notin failedValid \cup failedChild'
                                      /\ level[b] >= VALID_TRANSACTIONS
                                      /\ ~WorseBy(seq', b, tip')}
    /\ fault' = IF candidates' = {} THEN "empty" ELSE fault
    /\ Goto(t, "abc") /\ UNCHANGED <<target, oldTip, left>>
    /\ ops < MaxOps /\ ops' = ops + 1
    /\ aborted' = FALSE /\ UNCHANGED errors

-----------------------------------------------------------------------------
\* The steps of a thread that has something to finish.
ThreadStep(t) ==
    \/ TakeLock(t) \/ NothingToDo(t) \/ DropCandidate(t) \/ ChooseCandidate(t)
    \/ StepDisconnect(t) \/ StepAtFork(t) \/ LoopAgain(t)
    \/ \E b \in Blocks : \/ ConnectTip(t, b) \/ ConnectTipInvalid(t, b)
                         \/ ConnectTipCorrupt(t, b) \/ ConnectTipFails(t, b)
    \/ InvalidateTip(t) \/ InvalidateDone(t)
    \/ ReplayStart(t) \/ ReplayDisconnect(t) \/ ReplayDone(t)
    \/ CoinsAssertion(t)

Input(t) ==
    \/ \E b \in Blocks \ {Genesis} :
          \/ AcceptBlock(t, b) \/ AcceptBlockInvalid(t, b) \/ AcceptBlockFails(t, b)
          \/ InvalidateBlock(t, b)
    \/ \E b \in Blocks : Reconsider(t, b) \/ ReprocessReconsider(t, b)
    \/ ReprocessBlocks(t) \/ Restart(t)

Next ==
    \/ \E b \in Blocks \ {Genesis} : AcceptBlockHeader(b)
    \/ \E t \in Threads : Input(t) \/ ThreadStep(t)

Spec == Init /\ [][Next]_vars

\* A thread that has work goes on.  ActivateBestChain polls cs_main with TRY_LOCK
\* every 50 ms: strong fairness says that it is not beaten to it forever.
FairSpec ==
    /\ Spec
    /\ \A t \in Threads : WF_vars(ThreadStep(t)) /\ SF_vars(TakeLock(t))

-----------------------------------------------------------------------------
Quiet == fault = "none" /\ ~aborted /\ \A t \in Threads : pc[t] = "idle"

\* No ancestor, and not the block itself, is known to be invalid.
Usable(b) == b \in linked /\ Ancestors[b] \cap Failed = {}

(***************************************************************************)
(* The assertions of CheckBlockIndex on single entries, at every point     *)
(* where a thread may call it: stored data, transaction validity, links,   *)
(* sequence ids, script validity and mapBlocksUnlinked fit together.       *)
(***************************************************************************)
IndexConsistent ==
    LockFree => \A b \in mapBlockIndex :
        /\ b \in data <=> level[b] >= VALID_TRANSACTIONS
        /\ b \in linked <=> Ancestors[b] \subseteq data
        /\ b \notin linked => seq[b] = 0
        /\ level[b] = VALID_SCRIPTS =>
              \A a \in Ancestors[b] \ {Genesis} : level[a] = VALID_SCRIPTS
        /\ b \in unlinked => b \in data /\ b \notin linked
        /\ b \in data /\ b \notin linked /\ Ancestors[b] \cap failedValid = {} => b \in unlinked

\* FindMostWorkChain only ever meets candidates it can walk down from, and none
\* sorts below the tip: the other half of the candidate check of CheckBlockIndex.
CandidatesSound ==
    LockFree => \A c \in candidates : c \in linked /\ ~Worse(c, tip)

\* A mark of failure always has a cause: CheckBlockIndex asserts that it is not
\* set on a block without an invalid ancestor.
FailureHasCause ==
    LockFree => \A b \in Failed : Ancestors[b] \cap failedValid # {}

\* Whoever holds cs_main finds an active chain of stored, verified blocks, none
\* of them marked invalid, and the coins of its tip.
ActiveChainValid ==
    LockFree /\ ~aborted =>
        /\ coinsBest = tip
        /\ Ancestors[tip] \subseteq linked \ Failed
        /\ \A a \in Ancestors[tip] \ {Genesis} : level[a] = VALID_SCRIPTS

\* "The result is either failure or an activated best chain": once every thread
\* has left ActivateBestChain, no usable block sorts above the tip.
TipIsBest == Quiet => \A b \in Blocks : Usable(b) => ~Worse(tip, b)

\* At rest, every block that sorts at least as good as the tip and has no invalid
\* ancestor is a candidate, so the next reorganization finds it.
CandidatesComplete ==
    Quiet => \A b \in linked : Ancestors[b] \cap failedValid = {} /\ ~Worse(b, tip)
                                 => b \in candidates

\* PruneBlockIndexCandidates asserts that something is left.
CandidatesNeverEmpty == fault # "empty"

\* ConnectBlock and DisconnectBlock assert that the coins are those of the tip,
\* FindMostWorkChain that what it walks over is linked.
ChainAssertions == fault \notin {"coins", "unlinked"}

\* The best candidate lies beyond a block whose bytes on disk are damaged.
BlockedByDamage == \E c \in candidates : IsBest(c) /\ OffChain(c) \cap CorruptBlocks # {}

\* Every call of ActivateBestChain, with what comes before it, returns, whatever
\* fails and whatever the other threads do in between.  The exceptions: an
\* assertion ended the process, or the best candidate is for ever beyond a
\* damaged block, which is rejected and never marked.
ActivationReturns ==
    \A t \in Threads :
        \/ pc[t] \in {"abc", "inv"} ~> pc[t] = "idle"
        \/ <>[](fault # "none" \/ BlockedByDamage)
=============================================================================
