--------------------------- MODULE MasternodeSync ---------------------------
(***************************************************************************)
(* CMasternodeSync (masternode-sync.cpp): the stages in which a node asks  *)
(* its peers for sporks, the masternode list, the winners and the budget.  *)
(* ThreadCheckObfuScationPool calls Process, which does something every    *)
(* five seconds: one step here is one such round, and time is counted in   *)
(* rounds.  Items arrive on the message handler's thread, peers come and   *)
(* go, and Reset is called from other threads without a lock, so that it   *)
(* may fall between the decision of a round and what it assigns.           *)
(*                                                                         *)
(* The numbers of "ssc" and the branch for REGTEST are left out.  One item *)
(* stands for all of an asset; its receivers record it before they report  *)
(* it.  SPORK_8 does not change during a run.                              *)
(***************************************************************************)
EXTENDS Naturals

CONSTANTS
    Peers,
    Current,       \* the peers whose version is recent enough for all but sporks
    Never, None,
    Threshold,     \* MASTERNODE_SYNC_THRESHOLD
    Quiet,         \* MASTERNODE_SYNC_TIMEOUT * 2, in rounds
    AssetTimeout,  \* MASTERNODE_SYNC_TIMEOUT * 5, in rounds
    Retry,         \* the minute after a failure, in rounds
    MaxResets      \* bound on the calls of Reset by others

ASSUME SyncAssumption ==
    /\ Current \subseteq Peers
    /\ Never \notin Nat
    /\ None \notin {"SPORKS", "LIST", "MNW", "BUDGET", "FINISHED", "FAILED"}
    /\ Threshold \in Nat \ {0} /\ Quiet \in Nat /\ AssetTimeout \in Nat /\ Retry \in Nat /\ MaxResets \in Nat

Listed == {"LIST", "MNW", "BUDGET"}     \* the assets that come as items
Stages == {"SPORKS"} \cup Listed
Assets == {"INITIAL", "FAILED", "FINISHED"} \cup Stages

VARIABLES
    asset,         \* RequestedMasternodeAssets
    attempt,       \* RequestedMasternodeAttempt
    age,           \* rounds since lastMasternodeList, lastMasternodeWinner, lastBudgetItem
    since,         \* rounds since nAssetSyncStarted, or since lastFailure
    connected,     \* vNodes
    asked,         \* vecRequestsFulfilled, by asset
    recent,        \* the tip is less than an hour old
    chainSynced,   \* fBlockchainSynced
    enforced,      \* SPORK_8_MASTERNODE_PAYMENT_ENFORCEMENT
    target,        \* what the round is about to assign to asset
    raced,         \* the last Reset fell into a round
    resets

peers == <<connected, asked>>
vars == <<asset, attempt, age, since, peers, recent, chainSynced, enforced,
          target, raced, resets>>

Larger(m, n) == IF m < n THEN n ELSE m
Longest == Larger(AssetTimeout, Retry) + 1

\* The attempts are bounded whatever the peers do.
TypeOK ==
    /\ asset \in Assets /\ attempt \in 0..Larger(3 * Threshold, 2)
    /\ age \in [Listed -> (0..(Quiet + 1)) \cup {Never}]
    /\ since \in 0..Longest
    /\ connected \subseteq Peers /\ asked \in [Peers -> SUBSET Stages]
    /\ recent \in BOOLEAN /\ chainSynced \in BOOLEAN /\ enforced \in BOOLEAN
    /\ target \in {None, "FAILED", "FINISHED"} \cup Listed
    /\ raced \in BOOLEAN /\ resets \in 0..MaxResets

NoItems == [x \in Listed |-> Never]
NobodyAsked == [p \in Peers |-> {}]

Init ==
    /\ asset = "INITIAL" /\ attempt = 0 /\ age = NoItems /\ since = 0
    /\ connected = {} /\ asked = NobodyAsked
    /\ recent = FALSE /\ chainSynced = FALSE /\ enforced \in BOOLEAN
    /\ target = None /\ raced = FALSE /\ resets = 0

-----------------------------------------------------------------------------
\* What happens around it

Connect(p) ==
    /\ p \notin connected /\ connected' = connected \cup {p}
    /\ UNCHANGED <<asset, attempt, age, since, asked, recent, chainSynced, enforced,
                   target, raced, resets>>

\* The CNode goes, and with it what was asked of it.
Disconnect(p) ==
    /\ p \in connected /\ connected' = connected \ {p}
    /\ asked' = [asked EXCEPT ![p] = {}]
    /\ UNCHANGED <<asset, attempt, age, since, recent, chainSynced, enforced,
                   target, raced, resets>>

\* AddedMasternodeList, AddedMasternodeWinner, AddedBudgetItem: an item that is new, or
\* that came fewer than Threshold times since the last Reset (mapSeenSync*).  There is no
\* end to new ones.
Added(x) ==
    /\ age' = [age EXCEPT ![x] = 0]
    /\ UNCHANGED <<asset, attempt, since, peers, recent, chainSynced, enforced,
                   target, raced, resets>>

\* The chain catches up with the present, or falls behind it again.
CatchUp ==
    /\ recent' = ~recent
    /\ UNCHANGED <<asset, attempt, age, since, peers, chainSynced, enforced,
                   target, raced, resets>>

\* Reset by another thread, also between the decision of a round and what it assigns.
Reset ==
    /\ resets < MaxResets /\ resets' = resets + 1
    /\ asset' = "INITIAL" /\ attempt' = 0 /\ since' = 0
    /\ age' = NoItems /\ raced' = (target # None)
    /\ UNCHANGED <<peers, enforced, target>>

\* "mnsync reset"
ResetByOperator == Reset /\ UNCHANGED <<recent, chainSynced>>

\* IsBlockchainSynced after "client was in sleep mode"
ResetAfterSleep == Reset /\ recent' = FALSE /\ chainSynced' = FALSE

-----------------------------------------------------------------------------
\* Process, a round

Older(n, limit) == IF n = Never \/ n > limit THEN n ELSE n + 1
\* The clocks at this round.
Age(x) == Older(age[x], Quiet)
Since == IF since < Longest THEN since + 1 ELSE since

\* A round has begun and time has passed.
Passed ==
    /\ target = None
    /\ age' = [x \in Listed |-> Age(x)] /\ since' = Since
    /\ UNCHANGED <<connected, recent, enforced, raced, resets>>

IsBlockchainSynced == chainSynced \/ recent
\* It was called; cs_main may have been taken by another thread.
MayNotice == chainSynced' \in {chainSynced, IsBlockchainSynced}

\* Synchronized, or waiting after a failure.
Rest ==
    /\ asset = "FINISHED" \/ (asset = "FAILED" /\ Since <= Retry)
    /\ Passed /\ UNCHANGED <<asset, attempt, asked, chainSynced, target>>

\* Variant: the time of the failure is not looked at.
BeginsUnlessFailed == asset \in {"INITIAL", "FINISHED"}

\* CountEnabled() == 0 after the end, "try syncing again", or a first start.
Begins == asset \in {"INITIAL", "FINISHED"} \/ (asset = "FAILED" /\ Since > Retry)

\* Reset, GetNextAsset with ClearFulfilledRequest if cs_vNodes is free, and then the
\* first request for sporks if it is free again.
Begin ==
    /\ target = None /\ Begins
    /\ asset' = "SPORKS" /\ since' = 0
    /\ IF asset = "INITIAL"
       THEN age' = [x \in Listed |-> Age(x)] /\ UNCHANGED raced
       ELSE age' = NoItems /\ raced' = FALSE
    /\ \E before \in {asked, NobodyAsked} :
          \/ asked' = before /\ attempt' = 0
          \/ \E p \in connected :
                /\ "SPORKS" \notin before[p]
                /\ asked' = [before EXCEPT ![p] = @ \cup {"SPORKS"}] /\ attempt' = 1
    /\ MayNotice
    /\ UNCHANGED <<connected, recent, enforced, target, resets>>

\* The chain is not there yet, cs_vNodes is taken, or everybody was asked.
Wait == asset \in Stages /\ Passed /\ MayNotice /\ UNCHANGED <<asset, attempt, asked, target>>

AskForSporks(p) ==
    /\ asset = "SPORKS" /\ Passed /\ MayNotice
    /\ p \in connected /\ "SPORKS" \notin asked[p]
    /\ asked' = [asked EXCEPT ![p] = @ \cup {"SPORKS"}]
    /\ IF attempt >= 2
       THEN target' = "LIST" /\ UNCHANGED attempt
       ELSE attempt' = attempt + 1 /\ UNCHANGED target
    /\ UNCHANGED asset

\* Variant: the chain is not waited for.
AtItemsAnyway == asset \in Listed /\ connected \cap Current # {} /\ Passed /\ MayNotice

\* "wait until we're almost at a recent block to continue"
AtItems ==
    /\ asset \in Listed /\ connected \cap Current # {} /\ Passed
    /\ IsBlockchainSynced /\ chainSynced' = TRUE

NextAsset == CASE asset = "LIST" -> "MNW" [] asset = "MNW" -> "BUDGET" [] OTHER -> "FINISHED"

\* Variant: it waits for more requests than are ever made.
IsQuietLate == age[asset] # Never /\ Age(asset) > Quiet /\ attempt > 3 * Threshold

\* "hasn't received a new item in the last five seconds, so we'll move to the" next
IsQuiet == age[asset] # Never /\ Age(asset) > Quiet /\ attempt >= Threshold

MoveOn ==
    /\ AtItems /\ IsQuiet
    /\ target' = NextAsset /\ UNCHANGED <<asset, attempt, asked>>

IsOverdue == age[asset] = Never /\ (attempt >= 3 * Threshold \/ Since > AssetTimeout)

\* "maybe there is no budgets at all, so just finish syncing"
FinishWithoutBudget ==
    /\ asset = "BUDGET" /\ AtItems /\ IsOverdue
    /\ target' = "FINISHED" /\ UNCHANGED <<asset, attempt, asked>>

\* Variant: SPORK_8 is not looked at.
AfterTimeoutAnyway == NextAsset

AfterTimeout == IF enforced THEN "FAILED" ELSE NextAsset

\* Variant: no limit.
MayAskAlways == TRUE

MayAsk == attempt < 3 * Threshold

\* The list and the winners: a peer that was not asked is marked, and only then the
\* timeout is looked at.
Ask(p) ==
    /\ AtItems /\ ~IsQuiet /\ ~(asset = "BUDGET" /\ IsOverdue)
    /\ p \in connected \cap Current /\ asset \notin asked[p]
    /\ asked' = [asked EXCEPT ![p] = @ \cup {asset}]
    /\ \/ IsOverdue /\ target' = AfterTimeout /\ UNCHANGED attempt
       \/ ~IsOverdue /\ MayAsk /\ attempt' = attempt + 1 /\ UNCHANGED target
       \/ ~IsOverdue /\ ~MayAsk /\ UNCHANGED <<attempt, target>>
    /\ UNCHANGED asset

\* The end of the round: GetNextAsset, or the failure.  Where Reset fell into the round,
\* GetNextAsset finds either the old asset or INITIAL, and then it clears the requests
\* (cs_vNodes is held already).  Coming from the sporks, the attempt is counted after it
\* was set to zero.
Assign ==
    /\ target # None /\ target' = None
    /\ asset' \in {target} \cup (IF asset = "INITIAL" /\ target # "FAILED" THEN {"SPORKS"} ELSE {})
    /\ asked' = IF asset' = "SPORKS" THEN NobodyAsked ELSE asked
    /\ attempt' = IF target = "LIST" THEN 1 ELSE 0
    /\ since' = 0
    /\ UNCHANGED <<age, connected, recent, chainSynced, enforced, raced, resets>>

-----------------------------------------------------------------------------
Asking == \E p \in Peers : AskForSporks(p) \/ Ask(p)
Round == Rest \/ Begin \/ Wait \/ Asking \/ MoveOn \/ FinishWithoutBudget

Next ==
    \/ \E p \in Peers : Connect(p) \/ Disconnect(p)
    \/ \E x \in Listed : Added(x)
    \/ CatchUp \/ ResetByOperator \/ ResetAfterSleep
    \/ Round \/ Assign

Spec == Init /\ [][Next]_vars

\* ThreadCheckObfuScationPool goes on.  What a round does depends on a lock and on peers
\* that come and go, but not each round finds cs_vNodes taken or the peers gone.
FairSpec ==
    /\ Spec /\ WF_vars(Round) /\ WF_vars(Assign)
    /\ SF_vars(Asking) /\ SF_vars(MoveOn) /\ SF_vars(FinishWithoutBudget)

-----------------------------------------------------------------------------
Beyond(x) == IF x = "LIST" THEN {"MNW", "BUDGET", "FINISHED"} ELSE {"BUDGET", "FINISHED"}

\* Where payments are enforced, no stage is left without a single item of the list
\* and of the winners: the node fails and starts again.  (Unless Reset fell into the
\* round, which then assigns the stage after the one that was reset.)
EnforcedNeverSkips ==
    enforced /\ ~raced =>
        \A x \in {"LIST", "MNW"} : {asset, target} \cap Beyond(x) # {} => age[x] # Never

\* What comes after the list is taken up, and a failure declared, only with a chain that
\* was recent since the last sleep.  (Unless Reset fell into the round.)
StagesNeedChain ==
    ~raced =>
        ({asset, target} \cap {"MNW", "BUDGET", "FINISHED", "FAILED"} # {} => chainSynced)

\* A moment at which the sync could do something: the tip is recent, a peer that was not
\* asked for the asset is there, and no item came for a while.
Favourable ==
    /\ recent
    /\ \E p \in connected \cap Current : asset \notin asked[p]
    /\ \A x \in Listed : age[x] = Never \/ age[x] > Quiet

\* If such moments come again and again, the sync ends, one way or the other, and does so
\* again whenever it is started again.  (Peers that were all asked are not asked again:
\* until a new one comes, neither the list nor the winners time out.  And new items that
\* never pause keep it from going on.)
SyncEnds == []<>Favourable => []<>(asset \in {"FAILED", "FINISHED"})

\* "Sync has failed, will retry later"
FailedRetried == asset = "FAILED" ~> asset = "SPORKS"
=============================================================================
