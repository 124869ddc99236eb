------------------------ MODULE MasternodeSyncProofs ------------------------
(***************************************************************************)
(* Proofs about MasternodeSync, for any set of peers and any timeouts.     *)
(***************************************************************************)
EXTENDS MasternodeSync, TLAPS

Inv == TypeOK /\ EnforcedNeverSkips /\ StagesNeedChain

LEMMA Bounds ==
    /\ Never \notin Nat
    /\ Threshold \in Nat /\ 0 < Threshold
    /\ Quiet \in Nat /\ AssetTimeout \in Nat /\ Retry \in Nat /\ MaxResets \in Nat
    /\ None \notin {"SPORKS", "LIST", "MNW", "BUDGET", "FINISHED", "FAILED"}
BY SyncAssumption DEF SyncAssumption

LEMMA LongestType == Longest \in Nat /\ 0 < Longest
BY Bounds DEF Longest, Larger

LEMMA MostAttempts ==
    /\ Larger(3 * Threshold, 2) \in Nat
    /\ 2 <= Larger(3 * Threshold, 2) /\ 3 * Threshold <= Larger(3 * Threshold, 2)
BY Bounds DEF Larger

LEMMA InitInv == Init => Inv
<1> SUFFICES ASSUME Init PROVE Inv OBVIOUS
<1> USE Bounds, LongestType, MostAttempts DEF Init
<1>1. TypeOK
  <2>1. age \in [Listed -> (0..(Quiet + 1)) \cup {Never}] BY DEF NoItems
  <2>2. asked \in [Peers -> SUBSET Stages] BY DEF NobodyAsked
  <2>3. attempt \in 0..Larger(3 * Threshold, 2) /\ since \in 0..Longest /\ resets \in 0..MaxResets
    OBVIOUS
  <2> QED BY <2>1, <2>2, <2>3 DEF TypeOK, Assets
<1>2. EnforcedNeverSkips BY DEF EnforcedNeverSkips, Beyond
<1>3. StagesNeedChain BY DEF StagesNeedChain
<1> QED BY <1>1, <1>2, <1>3 DEF Inv

\* The clocks of a round stay in their ranges, and one that runs goes on.
LEMMA PassedClocks ==
    ASSUME TypeOK, age' = [x \in Listed |-> Age(x)]
    PROVE  /\ age' \in [Listed -> (0..(Quiet + 1)) \cup {Never}]
           /\ \A x \in Listed : age'[x] = Never <=> age[x] = Never
<1> USE Bounds DEF TypeOK
<1> SUFFICES ASSUME NEW x \in Listed
             PROVE  Age(x) \in (0..(Quiet + 1)) \cup {Never} /\ (Age(x) = Never <=> age[x] = Never)
  OBVIOUS
<1>1. age[x] \in (0..(Quiet + 1)) \cup {Never} OBVIOUS
<1> QED BY <1>1 DEF Age, Older

LEMMA SinceType == ASSUME TypeOK PROVE Since \in 0..Longest
BY LongestType DEF TypeOK, Since

\* Steps that leave the round's variables alone.
LEMMA AroundInv ==
    ASSUME Inv,
           \/ \E p \in Peers : Connect(p) \/ Disconnect(p)
           \/ \E x \in Listed : Added(x)
           \/ CatchUp
    PROVE  Inv'
<1> USE Bounds DEF Inv, peers
<1>1. CASE \E p \in Peers : Connect(p) \/ Disconnect(p)
  <2>1. TypeOK'
    <3> PICK p \in Peers : Connect(p) \/ Disconnect(p) BY <1>1
    <3>1. CASE Connect(p) BY <3>1 DEF TypeOK, Connect
    <3>2. CASE Disconnect(p)
      <4>1. asked' \in [Peers -> SUBSET Stages] BY <3>2 DEF TypeOK, Disconnect
      <4> QED BY <3>2, <4>1 DEF TypeOK, Disconnect
    <3> QED BY <3>1, <3>2
  <2>2. UNCHANGED <<asset, target, age, enforced, raced, chainSynced>>
    BY <1>1 DEF Connect, Disconnect
  <2>3. EnforcedNeverSkips' /\ StagesNeedChain' BY <2>2 DEF EnforcedNeverSkips, StagesNeedChain
  <2> QED BY <2>1, <2>3
<1>2. CASE \E x \in Listed : Added(x)
  <2>1. TypeOK' BY <1>2 DEF TypeOK, Added
  <2>2. EnforcedNeverSkips'
    <3> PICK x \in Listed : Added(x) BY <1>2
    <3>1. \A y \in {"LIST", "MNW"} : age[y] # Never => age'[y] # Never
      BY DEF TypeOK, Added, Listed
    <3> QED BY <3>1 DEF EnforcedNeverSkips, Added
  <2>3. StagesNeedChain' BY <1>2 DEF StagesNeedChain, Added
  <2> QED BY <2>1, <2>2, <2>3
<1>3. CASE CatchUp
  <2>1. TypeOK' BY <1>3 DEF TypeOK, CatchUp
  <2>2. EnforcedNeverSkips' BY <1>3 DEF EnforcedNeverSkips, CatchUp
  <2>3. StagesNeedChain' BY <1>3 DEF StagesNeedChain, CatchUp
  <2> QED BY <2>1, <2>2, <2>3
<1> QED BY <1>1, <1>2, <1>3

LEMMA ResetInv ==
    ASSUME Inv, ResetByOperator \/ ResetAfterSleep PROVE Inv'
<1> USE Bounds, LongestType, MostAttempts DEF Inv, Reset, ResetByOperator, ResetAfterSleep, peers
<1>1. TypeOK'
  <2>1. age' \in [Listed -> (0..(Quiet + 1)) \cup {Never}] BY DEF NoItems
  <2>2. attempt' \in 0..Larger(3 * Threshold, 2) /\ since' \in 0..Longest
    OBVIOUS
  <2>3. resets' \in 0..MaxResets BY DEF TypeOK
  <2>4. target' \in {None, "FAILED", "FINISHED"} \cup Listed BY DEF TypeOK
  <2>5. asset' \in Assets /\ raced' \in BOOLEAN BY DEF Assets
  <2>6. recent' \in BOOLEAN /\ chainSynced' \in BOOLEAN BY DEF TypeOK
  <2> QED BY <2>1, <2>2, <2>3, <2>4, <2>5, <2>6 DEF TypeOK
<1>2. ~raced' => target' = None OBVIOUS
<1>3. EnforcedNeverSkips' BY <1>2 DEF EnforcedNeverSkips, Beyond
<1>4. StagesNeedChain' BY <1>2 DEF StagesNeedChain
<1> QED BY <1>1, <1>3, <1>4

\* A round that assigns nothing yet.
LEMMA QuietRoundInv ==
    ASSUME Inv, Passed, asset' = asset, target' = None,
           asked' \in [Peers -> SUBSET Stages], attempt' \in 0..Larger(3 * Threshold, 2),
           chainSynced' \in BOOLEAN, chainSynced => chainSynced'
    PROVE  Inv'
<1> USE Bounds DEF Inv, Passed
<1>1. /\ age' \in [Listed -> (0..(Quiet + 1)) \cup {Never}]
      /\ \A x \in Listed : age'[x] = Never <=> age[x] = Never
  BY PassedClocks
<1>2. since' \in 0..Longest BY SinceType
<1>3. TypeOK' BY <1>1, <1>2 DEF TypeOK
<1>4. EnforcedNeverSkips' BY <1>1 DEF EnforcedNeverSkips, Listed
<1>5. StagesNeedChain' BY DEF StagesNeedChain
<1> QED BY <1>3, <1>4, <1>5

\* A round that decides: what it is about to assign obeys the same rules.
LEMMA DecidingRoundInv ==
    ASSUME Inv, Passed, asset' = asset, attempt' = attempt,
           asked' \in [Peers -> SUBSET Stages],
           target' \in {"FAILED", "FINISHED"} \cup Listed,
           chainSynced' \in BOOLEAN, chainSynced => chainSynced',
           target' \in {"MNW", "BUDGET", "FINISHED", "FAILED"} => chainSynced',
           enforced => \A x \in {"LIST", "MNW"} :
              target' \in Beyond(x) => age[x] # Never \/ asset \in Beyond(x)
    PROVE  Inv'
<1> USE Bounds DEF Inv, Passed
<1>1. /\ age' \in [Listed -> (0..(Quiet + 1)) \cup {Never}]
      /\ \A x \in Listed : age'[x] = Never <=> age[x] = Never
  BY PassedClocks
<1>2. since' \in 0..Longest BY SinceType
<1>3. TypeOK' BY <1>1, <1>2 DEF TypeOK
<1>4. EnforcedNeverSkips' BY <1>1 DEF EnforcedNeverSkips, Listed
<1>5. StagesNeedChain' BY DEF StagesNeedChain
<1> QED BY <1>3, <1>4, <1>5

LEMMA BeginInv ==
    ASSUME Inv, Begin PROVE Inv'
<1> USE Bounds, LongestType, MostAttempts DEF Inv, Begin
<1>1. age' \in [Listed -> (0..(Quiet + 1)) \cup {Never}]
  <2>1. CASE asset = "INITIAL" BY <2>1, PassedClocks
  <2>2. CASE asset # "INITIAL" BY <2>2 DEF NoItems
  <2> QED BY <2>1, <2>2
<1>2. raced' \in BOOLEAN BY DEF TypeOK
<1>3. asked' \in [Peers -> SUBSET Stages] /\ attempt' \in 0..Larger(3 * Threshold, 2)
  <2>1. "SPORKS" \in Stages BY DEF Stages
  <2>2. PICK before \in {asked, NobodyAsked} :
           \/ asked' = before /\ attempt' = 0
           \/ \E p \in connected :
                 asked' = [before EXCEPT ![p] = @ \cup {"SPORKS"}] /\ attempt' = 1
    OBVIOUS
  <2>3. before \in [Peers -> SUBSET Stages] BY DEF TypeOK, NobodyAsked
  <2>4. asked' \in [Peers -> SUBSET Stages] BY <2>1, <2>2, <2>3 DEF TypeOK
  <2>5. attempt' \in {0, 1} BY <2>2
  <2> QED BY <2>4, <2>5
<1>4. chainSynced' \in BOOLEAN BY DEF TypeOK, MayNotice, IsBlockchainSynced
<1>5. asset' \in Assets /\ since' \in 0..Longest BY DEF Assets, Stages
<1>6. TypeOK' BY <1>1, <1>2, <1>3, <1>4, <1>5 DEF TypeOK
<1>7. EnforcedNeverSkips' BY DEF EnforcedNeverSkips, Beyond
<1>8. StagesNeedChain' BY DEF StagesNeedChain
<1> QED BY <1>6, <1>7, <1>8

LEMMA RoundInv ==
    ASSUME Inv, Round PROVE Inv'
<1> USE Bounds, MostAttempts
<1>1. TypeOK BY DEF Inv
<1>2. /\ attempt \in 0..Larger(3 * Threshold, 2) /\ asked \in [Peers -> SUBSET Stages]
      /\ chainSynced \in BOOLEAN /\ IsBlockchainSynced \in BOOLEAN
      /\ chainSynced => IsBlockchainSynced
  BY <1>1 DEF TypeOK, IsBlockchainSynced
<1>3. CASE Rest
  <2>1. target' = None BY <1>3 DEF Rest, Passed
  <2> QED BY <1>2, <1>3, <2>1, QuietRoundInv DEF Rest
<1>4. CASE Begin BY <1>4, BeginInv
<1>5. CASE Wait
  <2>1. target' = None BY <1>5 DEF Wait, MayNotice, Passed
  <2> QED BY <1>2, <1>5, <2>1, QuietRoundInv DEF Wait, MayNotice
<1>6. ASSUME NEW p \in Peers, AskForSporks(p) PROVE Inv'
  <2>1. asked' \in [Peers -> SUBSET Stages] BY <1>2, <1>6 DEF AskForSporks, Stages
  <2>2. asset' = asset /\ Passed /\ chainSynced' \in BOOLEAN /\ (chainSynced => chainSynced')
    BY <1>2, <1>6 DEF AskForSporks, MayNotice
  <2>3. CASE attempt >= 2
    <3>1. attempt' = attempt /\ target' = "LIST" BY <1>6, <2>3 DEF AskForSporks
    <3>2. target' \in Listed BY <3>1 DEF Listed
    <3>3. \A x \in {"LIST", "MNW"} : target' \notin Beyond(x) BY <3>1 DEF Beyond
    <3> QED BY <1>2, <2>1, <2>2, <3>1, <3>2, <3>3, DecidingRoundInv
  <2>4. CASE ~(attempt >= 2)
    <3>1. attempt' = attempt + 1 /\ target' = None
      BY <1>6, <2>4 DEF AskForSporks, Passed
    <3>2. attempt' \in 0..Larger(3 * Threshold, 2) BY <1>2, <2>4, <3>1
    <3> QED BY <1>2, <2>1, <2>2, <3>1, <3>2, QuietRoundInv
  <2> QED BY <2>3, <2>4
<1>7. ASSUME AtItems
      PROVE  /\ asset \in Listed /\ IsBlockchainSynced /\ Passed /\ target = None
             /\ chainSynced' = TRUE
  BY <1>7 DEF AtItems, Passed
<1>8. ASSUME asset \in Listed
      PROVE  /\ NextAsset \in {"FINISHED"} \cup Listed
             /\ \A x \in {"LIST", "MNW"} :
                   NextAsset \in Beyond(x) => x = asset \/ asset \in Beyond(x)
  BY <1>8 DEF NextAsset, Listed, Beyond
<1>9. CASE MoveOn
  BY <1>2, <1>7, <1>8, <1>9, DecidingRoundInv DEF MoveOn, IsQuiet
<1>10. CASE FinishWithoutBudget
  <2>1. \A x \in {"LIST", "MNW"} : asset \in Beyond(x) BY <1>10 DEF FinishWithoutBudget, Beyond
  <2> QED BY <1>2, <1>7, <1>10, <2>1, DecidingRoundInv DEF FinishWithoutBudget
<1>11. ASSUME NEW p \in Peers, Ask(p) PROVE Inv'
  <2>1. asset \in Listed /\ Passed /\ target = None /\ asset' = asset /\ IsBlockchainSynced
        /\ chainSynced' = TRUE
    BY <1>7, <1>11 DEF Ask
  <2>2. asked' \in [Peers -> SUBSET Stages] BY <1>2, <1>11, <2>1 DEF Ask, Stages
  <2>3. CASE IsOverdue
    <3>1. target' = AfterTimeout /\ attempt' = attempt BY <1>11, <2>3 DEF Ask
    <3>2. target' \in {"FAILED", "FINISHED"} \cup Listed BY <1>8, <2>1, <3>1 DEF AfterTimeout
    <3>3. enforced => \A x \in {"LIST", "MNW"} : target' \notin Beyond(x)
      BY <3>1 DEF AfterTimeout, Beyond
    <3> QED BY <1>2, <2>1, <2>2, <3>1, <3>2, <3>3, DecidingRoundInv
  <2>4. CASE ~IsOverdue
    <3>1. target' = None /\ (attempt' = attempt \/ (MayAsk /\ attempt' = attempt + 1))
      BY <1>11, <2>1, <2>4 DEF Ask
    <3>2. attempt' \in 0..Larger(3 * Threshold, 2) BY <1>2, <3>1 DEF MayAsk
    <3> QED BY <1>2, <2>1, <2>2, <3>1, <3>2, QuietRoundInv
  <2> QED BY <2>3, <2>4
<1> QED BY <1>3, <1>4, <1>5, <1>6, <1>9, <1>10, <1>11 DEF Round, Asking

LEMMA AssignInv ==
    ASSUME Inv, Assign PROVE Inv'
<1> USE Bounds, LongestType, MostAttempts DEF Inv, Assign, peers
<1>1. TypeOK'
  <2>1. asset' \in Assets BY DEF TypeOK, Assets, Stages
  <2>2. attempt' \in 0..Larger(3 * Threshold, 2) /\ since' \in 0..Longest OBVIOUS
  <2>3. asked' \in [Peers -> SUBSET Stages] BY DEF TypeOK, NobodyAsked
  <2> QED BY <2>1, <2>2, <2>3 DEF TypeOK
<1>2. {asset', target'} \subseteq {"SPORKS", target, None} OBVIOUS
<1>3. EnforcedNeverSkips' BY <1>2 DEF EnforcedNeverSkips, Beyond
<1>4. StagesNeedChain' BY <1>2 DEF StagesNeedChain
<1> QED BY <1>1, <1>3, <1>4

LEMMA NextInv == Inv /\ [Next]_vars => Inv'
<1> SUFFICES ASSUME Inv, [Next]_vars PROVE Inv' OBVIOUS
<1>1. CASE Next
  BY <1>1, AroundInv, ResetInv, RoundInv, AssignInv DEF Next
<1>2. CASE UNCHANGED vars
  <2> USE <1>2 DEF vars, peers, Inv
  <2>1. TypeOK' BY DEF TypeOK
  <2>2. EnforcedNeverSkips' BY DEF EnforcedNeverSkips
  <2>3. StagesNeedChain' BY DEF StagesNeedChain
  <2> QED BY <2>1, <2>2, <2>3
<1> QED BY <1>1, <1>2

LEMMA SpecInv == Spec => []Inv
BY InitInv, NextInv, PTL DEF Spec

-----------------------------------------------------------------------------
\* The counters and clocks of CMasternodeSync stay in their ranges: no more requests are
\* counted than the three times MASTERNODE_SYNC_THRESHOLD that Process looks for.
THEOREM AttemptsBounded == Spec => []TypeOK
<1>1. Inv => TypeOK BY DEF Inv
<1> QED BY <1>1, SpecInv, PTL

\* With SPORK_8 active, Process reaches the winners only with an item of the list, and
\* the budget only with an item of both.
THEOREM EnforcementNeedsItems == Spec => []EnforcedNeverSkips
<1>1. Inv => EnforcedNeverSkips BY DEF Inv
<1> QED BY <1>1, SpecInv, PTL

\* Process neither leaves the list nor fails before IsBlockchainSynced has held.
THEOREM ChainComesFirst == Spec => []StagesNeedChain
<1>1. Inv => StagesNeedChain BY DEF Inv
<1> QED BY <1>1, SpecInv, PTL
=============================================================================
