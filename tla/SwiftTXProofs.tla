--------------------------- MODULE SwiftTXProofs ---------------------------
(***************************************************************************)
(* Inv is an inductive invariant of SwiftTX, for any set of transactions,  *)
(* masternodes and heights.  Each action is shown to preserve one conjunct *)
(* at a time; what changes a lock other than by a vote only touches its    *)
(* height or its time.                                                     *)
(***************************************************************************)
EXTENDS SwiftTX, TLAPS

\* A lock whose height is not known is not complete, however many votes it has.
LEMMA HeightUnknown ==
    ASSUME NEW l, l.height = 0 PROVE ~Complete(l)
  BY LocksAssumption DEF LocksAssumption, Complete, CountSignatures

\* CreateNewLock makes no lock but that of its transaction, keeps the votes of
\* every lock, and gives a height to that one only.
LEMMA CreateNewLockEffect ==
    ASSUME TypeOK, NEW t \in Txs, NEW h \in LockHeights[t] \cup {0}, CreateNewLock(t, h)
    PROVE  /\ mapTxLocks' \subseteq Txs /\ lock' \in [Txs -> Locks]
           /\ mapTxLocks \subseteq mapTxLocks' /\ mapTxLocks' \subseteq mapTxLocks \cup {t}
           /\ \A u \in mapTxLocks : lock'[u].votes = lock[u].votes
           /\ t \in mapTxLocks' \ mapTxLocks => lock'[t].votes = <<>>
           /\ \A u \in mapTxLocks : u # t => lock'[u] = lock[u]
  <1>1. h \in Nat /\ Lifetime \in Nat
    BY LocksAssumption DEF LocksAssumption
  <1>2. CASE h = 0
    BY <1>2 DEF CreateNewLock, TypeOK
  <1>3. CASE h # 0
    <2>1. NewLock(h) \in Locks /\ NewLock(h).votes = <<>>
      BY <1>1 DEF NewLock, Locks
    <2>2. [lock[t] EXCEPT !.height = h] \in Locks
          /\ [lock[t] EXCEPT !.height = h].votes = lock[t].votes
      BY <1>1 DEF TypeOK, Locks
    <2>3. /\ mapTxLocks' = mapTxLocks \cup {t}
          /\ lock' = [lock EXCEPT ![t] = IF t \in mapTxLocks THEN [lock[t] EXCEPT !.height = h]
                                         ELSE NewLock(h)]
      BY <1>3 DEF CreateNewLock
    <2> QED
      BY <2>1, <2>2, <2>3 DEF TypeOK
  <1> QED
    BY <1>2, <1>3

\* A step that adds no vote to a lock and forgets none that was seen.
LEMMA VotesKept ==
    ASSUME VotesSeen, OneVoteEach, mapTxLockVote \subseteq mapTxLockVote',
           \A u \in mapTxLocks' : \/ u \in mapTxLocks /\ lock'[u].votes = lock[u].votes
                                  \/ lock'[u].votes = <<>>
    PROVE  VotesSeen' /\ OneVoteEach'
  <1> SUFFICES ASSUME NEW u \in mapTxLocks'
               PROVE  /\ \A i \in DOMAIN lock'[u].votes :
                            <<lock'[u].votes[i].mn, u>> \in mapTxLockVote'
                      /\ \A i, j \in DOMAIN lock'[u].votes :
                            lock'[u].votes[i].mn = lock'[u].votes[j].mn => i = j
    BY DEF VotesSeen, OneVoteEach
  <1>1. CASE u \in mapTxLocks /\ lock'[u].votes = lock[u].votes
    BY <1>1 DEF VotesSeen, OneVoteEach
  <1>2. CASE lock'[u].votes = <<>>
    <2>1. DOMAIN lock'[u].votes = {}
      BY <1>2
    <2> QED
      BY <2>1
  <1> QED
    BY <1>1, <1>2

\* Changing the time of a lock changes nothing else.
LEMMA TimeOnly ==
    ASSUME NEW l \in Locks, NEW time \in -1..Lifetime
    PROVE  /\ [l EXCEPT !.ttl = time] \in Locks
           /\ [l EXCEPT !.ttl = time].votes = l.votes
           /\ [l EXCEPT !.ttl = time].height = l.height
  BY DEF Locks

\* CheckForConflictingLocks changes nothing but the time of two locks.
LEMMA CancelledEffect ==
    ASSUME NEW locks \in [Txs -> Locks], NEW present \in SUBSET Txs,
           NEW t \in Txs, NEW o \in Outpoints
    PROVE  /\ CancelledBy(locks, present, t, o) \in [Txs -> Locks]
           /\ \A u \in Txs : /\ CancelledBy(locks, present, t, o)[u].votes = locks[u].votes
                             /\ CancelledBy(locks, present, t, o)[u].height = locks[u].height
  <1>1. 0 \in -1..Lifetime
    BY LocksAssumption DEF LocksAssumption
  <1>2. ASSUME NEW u \in Txs
        PROVE  /\ [locks[u] EXCEPT !.ttl = 0] \in Locks
               /\ [locks[u] EXCEPT !.ttl = 0].votes = locks[u].votes
               /\ [locks[u] EXCEPT !.ttl = 0].height = locks[u].height
    BY <1>1, TimeOnly
  <1>3. ASSUME NEW u \in Txs
        PROVE  CancelledBy(locks, present, t, o)[u] \in {locks[u], [locks[u] EXCEPT !.ttl = 0]}
    BY DEF CancelledBy
  <1>4. CancelledBy(locks, present, t, o) = [u \in Txs |-> CancelledBy(locks, present, t, o)[u]]
    BY DEF CancelledBy
  <1> HIDE DEF CancelledBy
  <1> QED
    BY <1>2, <1>3, <1>4

-----------------------------------------------------------------------------
LEMMA LockRequestPreserves ==
    ASSUME Inv, NEW t \in Txs, LockRequest(t) PROVE Inv'
  <1> USE DEF Inv
  <1>1. PICK h \in LockHeights[t] \cup {0} : CreateNewLock(t, h)
    BY DEF LockRequest
  <1>2. /\ mapTxLocks' \subseteq Txs /\ lock' \in [Txs -> Locks]
        /\ mapTxLocks \subseteq mapTxLocks' /\ mapTxLocks' \subseteq mapTxLocks \cup {t}
        /\ \A u \in mapTxLocks : lock'[u].votes = lock[u].votes
        /\ t \in mapTxLocks' \ mapTxLocks => lock'[t].votes = <<>>
        /\ \A u \in mapTxLocks : u # t => lock'[u] = lock[u]
    BY <1>1, CreateNewLockEffect
  <1>3. pending = None /\ pending' = t /\ None \notin Txs
    BY LocksAssumption DEF LockRequest, LocksAssumption
  <1>4. UNCHANGED <<requests, mapTxLockVote, mapLockedInputs, unsent>>
    BY DEF LockRequest
  <1>5. TypeOK'
    BY <1>2, <1>3, <1>4 DEF TypeOK, requests
  <1>6. VotesSeen' /\ OneVoteEach'
    BY <1>2, <1>4, VotesKept
  <1>7. LocksHaveRequests'
    BY <1>2, <1>3, <1>4 DEF LocksHaveRequests, TypeOK, requests
  <1>8. HoldersKnown' /\ ReleasedWithLock'
    BY <1>2, <1>4 DEF HoldersKnown, ReleasedWithLock, requests
  <1> QED
    BY <1>5, <1>6, <1>7, <1>8

LEMMA RequestAcceptedPreserves ==
    ASSUME Inv, RequestAccepted PROVE Inv'
  <1> USE DEF Inv
  <1>1. pending \in Txs
    BY DEF RequestAccepted, TypeOK
  <1>2. mapTxLockVote \subseteq mapTxLockVote' /\ mapTxLockVote' \subseteq Masternodes \X Txs
    BY <1>1, LocksAssumption DEF RequestAccepted, DoConsensusVote, TypeOK, LocksAssumption
  <1>3. /\ mapTxLockReq' = mapTxLockReq \cup {pending} /\ pending' = None
        /\ UNCHANGED <<blank, mapTxLockReqRejected, rejectedOnce>>
        /\ UNCHANGED <<mapTxLocks, lock, mapLockedInputs, unsent>>
    BY DEF RequestAccepted
  <1>4. TypeOK'
    BY <1>1, <1>2, <1>3 DEF TypeOK
  <1>5. VotesSeen' /\ OneVoteEach'
    BY <1>2, <1>3, VotesKept
  <1>6. LocksHaveRequests' /\ HoldersKnown' /\ ReleasedWithLock'
    BY <1>3 DEF LocksHaveRequests, HoldersKnown, ReleasedWithLock
  <1> QED
    BY <1>4, <1>5, <1>6

LEMMA RequestRejectedPreserves ==
    ASSUME Inv, RequestRejected PROVE Inv'
  <1> USE DEF Inv
  <1>1. pending \in Txs /\ None \notin Txs
    BY LocksAssumption DEF RequestRejected, TypeOK, LocksAssumption
  <1>2. /\ mapTxLockReqRejected' = mapTxLockReqRejected \cup {pending}
        /\ rejectedOnce' = rejectedOnce \cup {pending} /\ pending' = None
        /\ UNCHANGED <<blank, mapTxLockVote, mapTxLocks, unsent>>
        /\ Reserve(pending, Spends[pending])
    BY DEF RequestRejected
  <1>3. /\ mapTxLockReq \subseteq mapTxLockReq' /\ mapTxLockReq' \subseteq mapTxLockReq \cup {pending}
        /\ lock' \in [Txs -> Locks]
        /\ \A u \in Txs : lock'[u].votes = lock[u].votes /\ lock'[u].height = lock[u].height
    <2>1. ASSUME NEW o \in Conflicts(pending, Spends[pending]),
                 lock' = CancelledBy(lock, mapTxLocks, pending, o), UNCHANGED mapTxLockReq
          PROVE  /\ mapTxLockReq' = mapTxLockReq
                 /\ lock' \in [Txs -> Locks]
                 /\ \A u \in Txs : /\ lock'[u].votes = lock[u].votes
                                   /\ lock'[u].height = lock[u].height
      <3>1. o \in Outpoints
        BY <1>1, LocksAssumption DEF Conflicts, LocksAssumption
      <3>2. lock \in [Txs -> Locks] /\ mapTxLocks \in SUBSET Txs
        BY DEF TypeOK
      <3> QED
        BY <1>1, <2>1, <3>1, <3>2, CancelledEffect
    <2>2. CASE UNCHANGED lock
      BY <2>2 DEF RequestRejected, TypeOK
    <2> QED
      BY <2>1, <2>2 DEF RequestRejected
  <1>4. TypeOK'
    BY <1>1, <1>2, <1>3 DEF TypeOK, Reserve
  <1>5. VotesSeen' /\ OneVoteEach'
    BY <1>2, <1>3, VotesKept DEF TypeOK
  <1>6. LocksHaveRequests'
    BY <1>2, <1>3 DEF LocksHaveRequests, TypeOK
  <1>7. HoldersKnown' /\ ReleasedWithLock'
    BY <1>1, <1>2, <1>3 DEF HoldersKnown, ReleasedWithLock, Reserve, TypeOK
  <1> QED
    BY <1>4, <1>5, <1>6, <1>7

LEMMA SendLockRequestPreserves ==
    ASSUME Inv, NEW t \in Txs, SendLockRequest(t) PROVE Inv'
  <1> USE DEF Inv
  <1>1. PICK h \in LockHeights[t] \cup {0} : CreateNewLock(t, h)
    BY DEF SendLockRequest
  <1>2. /\ mapTxLocks' \subseteq Txs /\ lock' \in [Txs -> Locks]
        /\ mapTxLocks \subseteq mapTxLocks' /\ mapTxLocks' \subseteq mapTxLocks \cup {t}
        /\ \A u \in mapTxLocks : lock'[u].votes = lock[u].votes
        /\ t \in mapTxLocks' \ mapTxLocks => lock'[t].votes = <<>>
        /\ \A u \in mapTxLocks : u # t => lock'[u] = lock[u]
    BY <1>1, CreateNewLockEffect
  <1>3. /\ mapTxLockReq' = mapTxLockReq \cup {t} /\ unsent' = unsent \ {t}
        /\ UNCHANGED <<blank, mapTxLockReqRejected, rejectedOnce>>
        /\ UNCHANGED <<mapTxLockVote, mapLockedInputs, pending>>
    BY DEF SendLockRequest
  <1>4. TypeOK'
    BY <1>2, <1>3 DEF TypeOK
  <1>5. VotesSeen' /\ OneVoteEach'
    BY <1>2, <1>3, VotesKept
  <1>6. LocksHaveRequests'
    BY <1>2, <1>3 DEF LocksHaveRequests
  <1>7. HoldersKnown' /\ ReleasedWithLock'
    BY <1>2, <1>3 DEF HoldersKnown, ReleasedWithLock
  <1> QED
    BY <1>4, <1>5, <1>6, <1>7

LEMMA VoteRefusedPreserves ==
    ASSUME Inv, NEW mn \in Masternodes, NEW t \in Txs, VoteRefused(mn, t) PROVE Inv'
  <1> USE DEF Inv
  <1>1. /\ mapTxLockVote' = mapTxLockVote \cup {<<mn, t>>}
        /\ UNCHANGED <<requests, mapTxLocks, lock, mapLockedInputs, pending, unsent>>
    BY DEF VoteRefused
  <1>2. TypeOK'
    BY <1>1 DEF TypeOK, requests
  <1>3. VotesSeen' /\ OneVoteEach'
    BY <1>1, VotesKept
  <1>4. LocksHaveRequests' /\ HoldersKnown' /\ ReleasedWithLock'
    BY <1>1 DEF LocksHaveRequests, HoldersKnown, ReleasedWithLock, requests
  <1> QED
    BY <1>2, <1>3, <1>4

\* What a vote does to the lock that it is for: one vote more, of a masternode that
\* had none there, and the height as it was.
LEMMA WithVoteEffect ==
    ASSUME TypeOK, NEW mn \in Masternodes, NEW t \in Txs, NEW h \in Nat
    PROVE  LET new == WithVote(mn, t, h)
               old == IF t \in mapTxLocks THEN lock[t].votes ELSE <<>>
           IN  /\ new \in Locks /\ old \in Seq(Votes)
               /\ new.votes = Append(old, [mn |-> mn, height |-> h])
               /\ new.height = IF t \in mapTxLocks THEN lock[t].height ELSE 0
  <1> DEFINE base == IF t \in mapTxLocks THEN lock[t] ELSE NewLock(0)
  <1>1. NewLock(0) \in Locks /\ NewLock(0).votes = <<>> /\ NewLock(0).height = 0
    BY LocksAssumption DEF LocksAssumption, NewLock, Locks
  <1>2. base \in Locks
    BY <1>1 DEF TypeOK
  <1>3. [mn |-> mn, height |-> h] \in Votes
    BY DEF Votes
  <1>4. WithVote(mn, t, h) = [base EXCEPT !.votes = Append(base.votes, [mn |-> mn, height |-> h])]
    BY DEF WithVote
  <1>5. /\ base.votes = IF t \in mapTxLocks THEN lock[t].votes ELSE <<>>
        /\ base.height = IF t \in mapTxLocks THEN lock[t].height ELSE 0
    BY <1>1
  <1> HIDE DEF base
  <1>6. base.votes \in Seq(Votes)
    BY <1>2 DEF Locks
  <1>7. Append(base.votes, [mn |-> mn, height |-> h]) \in Seq(Votes)
    BY <1>3, <1>6
  <1>8. /\ WithVote(mn, t, h) \in Locks
        /\ WithVote(mn, t, h).votes = Append(base.votes, [mn |-> mn, height |-> h])
        /\ WithVote(mn, t, h).height = base.height
    BY <1>2, <1>4, <1>7 DEF Locks
  <1> QED
    BY <1>5, <1>6, <1>8

LEMMA ConsensusVotePreserves ==
    ASSUME Inv, NEW mn \in Masternodes, NEW t \in Txs, NEW h \in VoteHeights[t],
           ConsensusVote(mn, t, h)
    PROVE  Inv'
  <1> USE DEF Inv
  <1> DEFINE new == WithVote(mn, t, h)
             vote == [mn |-> mn, height |-> h]
             old == IF t \in mapTxLocks THEN lock[t].votes ELSE <<>>
             locks == [lock EXCEPT ![t] = new]
  <1>0. h \in Nat /\ None \notin Txs /\ Spends[t] \subseteq Outpoints
    BY LocksAssumption DEF LocksAssumption
  <1>1. /\ new \in Locks /\ old \in Seq(Votes) /\ new.votes = Append(old, vote)
        /\ new.height = IF t \in mapTxLocks THEN lock[t].height ELSE 0
    BY <1>0, WithVoteEffect
  <1>2. /\ <<mn, t>> \notin mapTxLockVote /\ pending = None
        /\ mapTxLockVote' = mapTxLockVote \cup {<<mn, t>>}
        /\ mapTxLocks' = mapTxLocks \cup {t}
        /\ UNCHANGED <<mapTxLockReqRejected, rejectedOnce, pending, unsent>>
    BY DEF ConsensusVote, NewVote
  <1>3. Ins(t) \subseteq Spends[t]
    BY DEF Ins
  \* The locks: the vote is added to one, and at most the time of two changes.
  <1>4. locks \in [Txs -> Locks] /\ mapTxLocks' \in SUBSET Txs
    BY <1>1, <1>2 DEF TypeOK
  <1>5. /\ lock' \in [Txs -> Locks]
        /\ \A u \in Txs : lock'[u].votes = locks[u].votes /\ lock'[u].height = locks[u].height
    <2> HIDE DEF new
    <2>1. CASE lock' = locks
      BY <1>4, <2>1
    <2>2. ASSUME NEW o \in Conflicts(t, Ins(t)),
                 lock' = CancelledBy(locks, mapTxLocks \cup {t}, t, o)
          PROVE  /\ lock' \in [Txs -> Locks]
                 /\ \A u \in Txs : /\ lock'[u].votes = locks[u].votes
                                   /\ lock'[u].height = locks[u].height
      <3>1. o \in Outpoints /\ mapTxLocks \cup {t} \in SUBSET Txs
        BY <1>0, <1>2, <1>3, <1>4 DEF Conflicts
      <3> HIDE DEF locks
      <3> QED
        BY <1>4, <2>2, <3>1, CancelledEffect
    <2> QED
      BY <2>1, <2>2 DEF ConsensusVote, new
  <1>6. /\ lock'[t].votes = Append(old, vote) /\ lock'[t].height = new.height
        /\ \A u \in Txs \ {t} : lock'[u].votes = lock[u].votes /\ lock'[u].height = lock[u].height
    <2> HIDE DEF new, old
    <2> QED
      BY <1>1, <1>5 DEF TypeOK
  \* The requests: a new one is blank, and its lock is complete.
  <1>7. \/ mapTxLockReq' = mapTxLockReq /\ blank' = blank
        \/ /\ Complete(new) /\ mapTxLockReq' = mapTxLockReq \cup {t}
           /\ blank' = blank \cup ({t} \ mapTxLockReq)
    BY DEF ConsensusVote
  <1>8. \/ mapLockedInputs' = mapLockedInputs
        \/ Reserve(t, Ins(t))
    BY DEF ConsensusVote
  <1>9. TypeOK'
    <2>1. mapLockedInputs' \in [Outpoints -> Txs \cup {None}]
      BY <1>8 DEF TypeOK, Reserve
    <2> HIDE DEF new
    <2> QED
      BY <1>2, <1>5, <1>7, <2>1 DEF TypeOK
  <1>10. VotesSeen' /\ OneVoteEach'
    <2> HIDE DEF new
    <2>1. \A i \in DOMAIN old : <<old[i].mn, t>> \in mapTxLockVote
      BY DEF VotesSeen
    <2>2. \A i, j \in DOMAIN old : old[i].mn = old[j].mn => i = j
      BY DEF OneVoteEach
    <2> HIDE DEF old
    <2>3. /\ Len(old) \in Nat /\ DOMAIN old = 1..Len(old)
          /\ DOMAIN Append(old, vote) = 1..(Len(old) + 1)
          /\ \A i \in 1..Len(old) : Append(old, vote)[i] = old[i]
          /\ Append(old, vote)[Len(old) + 1].mn = mn
      BY <1>1
    <2>4. \A i \in DOMAIN Append(old, vote) :
            <<Append(old, vote)[i].mn, t>> \in mapTxLockVote'
      BY <1>2, <2>1, <2>3
    <2>5. \A i \in 1..Len(old) : old[i].mn # mn
      BY <1>2, <2>1, <2>3
    <2>6. \A i, j \in DOMAIN Append(old, vote) :
            Append(old, vote)[i].mn = Append(old, vote)[j].mn => i = j
      BY <2>2, <2>3, <2>5
    <2>7. \A u \in mapTxLocks : u \in Txs
      BY DEF TypeOK
    <2> HIDE DEF vote
    <2>8. VotesSeen'
      BY <1>2, <1>6, <2>4, <2>7 DEF VotesSeen
    <2>9. OneVoteEach'
      BY <1>2, <1>6, <2>6, <2>7 DEF OneVoteEach
    <2> QED
      BY <2>8, <2>9
  <1>11. LocksHaveRequests'
    <2>1. Complete(new) => t \in mapTxLocks /\ lock[t].height # 0
      BY <1>1, HeightUnknown
    <2>2. Complete(new) => t \in mapTxLockReq \/ t \in rejectedOnce
      BY <1>0, <1>2, <2>1 DEF LocksHaveRequests
    <2>3. blank' \subseteq rejectedOnce'
      <3> HIDE DEF new
      <3> QED
        BY <1>2, <1>7, <2>2 DEF LocksHaveRequests
    <2>4. ASSUME NEW u \in mapTxLocks', lock'[u].height # 0
          PROVE  u \in mapTxLockReq' \/ u \in rejectedOnce'
      <3> HIDE DEF new, old, vote
      <3>1. u \in mapTxLocks /\ lock[u].height # 0
        BY <1>1, <1>2, <1>6, <2>4 DEF TypeOK
      <3>2. u \in mapTxLockReq \/ u \in rejectedOnce
        BY <1>0, <1>2, <3>1 DEF LocksHaveRequests, TypeOK
      <3> QED
        BY <1>2, <1>7, <3>2
    <2> QED
      BY <2>3, <2>4 DEF LocksHaveRequests
  <1>12. HoldersKnown' /\ ReleasedWithLock'
    <2> HIDE DEF new
    <2>1. \A o \in Outpoints :
            \/ mapLockedInputs'[o] = mapLockedInputs[o]
            \/ mapLockedInputs'[o] = t /\ o \in Ins(t)
      BY <1>8 DEF Reserve
    <2>2. mapTxLockReq \subseteq mapTxLockReq' /\ (Ins(t) # {} => t \in mapTxLockReq)
      BY <1>7 DEF Ins
    <2> QED
      BY <1>2, <1>3, <2>1, <2>2 DEF HoldersKnown, ReleasedWithLock
  <1> QED
    BY <1>9, <1>10, <1>11, <1>12

LEMMA CleanPreserves ==
    ASSUME Inv, CleanTransactionLocksList PROVE Inv'
  <1> USE DEF Inv
  <1> DEFINE gone == Expired \cap mapTxLockReq
  <1>1. /\ mapTxLocks' = mapTxLocks \ Expired
        /\ lock' = [t \in Txs |-> IF t \in Expired THEN Erased ELSE lock[t]]
        /\ mapLockedInputs' = [o \in Outpoints |-> IF o \in Unlocked(gone) THEN None
                                                  ELSE mapLockedInputs[o]]
        /\ mapTxLockReq' = mapTxLockReq \ gone /\ blank' = blank \ gone
        /\ mapTxLockReqRejected' = mapTxLockReqRejected \ gone
        /\ mapTxLockVote' = mapTxLockVote \ VotesOf(gone)
        /\ UNCHANGED <<rejectedOnce, pending, unsent>>
    BY DEF CleanTransactionLocksList
  <1>2. Erased \in Locks
    BY LocksAssumption DEF LocksAssumption, Erased, Locks
  <1>3. \A t \in mapTxLocks' : t \in Txs /\ t \in mapTxLocks /\ t \notin Expired /\ lock'[t] = lock[t]
    BY <1>1 DEF TypeOK
  <1>4. \A v \in VotesOf(gone) : v[2] \in Expired
    BY DEF VotesOf
  <1> HIDE DEF gone
  <1>5. gone \subseteq Expired /\ gone \subseteq mapTxLockReq
    BY DEF gone
  <1>6. TypeOK'
    BY <1>1, <1>2 DEF TypeOK
  <1>7. VotesSeen'
    <2> SUFFICES ASSUME NEW t \in mapTxLocks', NEW i \in DOMAIN lock'[t].votes
                 PROVE  <<lock'[t].votes[i].mn, t>> \in mapTxLockVote'
      BY DEF VotesSeen
    <2>1. <<lock[t].votes[i].mn, t>> \in mapTxLockVote
      BY <1>3 DEF VotesSeen
    <2>2. <<lock[t].votes[i].mn, t>> \notin VotesOf(gone)
      BY <1>3, <1>4
    <2> QED
      BY <1>1, <1>3, <2>1, <2>2
  <1>8. OneVoteEach'
    BY <1>3 DEF OneVoteEach
  <1>9. LocksHaveRequests'
    <2>1. \A t \in mapTxLocks' : t \in mapTxLockReq => t \in mapTxLockReq'
      BY <1>1, <1>3, <1>5
    <2> QED
      BY <1>1, <1>3, <2>1 DEF LocksHaveRequests
  <1>10. ASSUME NEW o \in Outpoints, mapLockedInputs'[o] # None, mapLockedInputs[o] \notin rejectedOnce
         PROVE  /\ mapLockedInputs'[o] = mapLockedInputs[o]
                /\ mapLockedInputs[o] \notin Expired
    <2> DEFINE t == mapLockedInputs[o]
    <2>1. mapLockedInputs'[o] = t /\ o \notin Unlocked(gone) /\ t # None
      BY <1>1, <1>10
    <2>2. o \in Spends[t] /\ t \in mapTxLockReq
      BY <1>10, <2>1 DEF HoldersKnown
    <2>3. t \notin blank
      BY <1>10 DEF LocksHaveRequests
    <2>4. t \in Expired => t \in gone
      BY <2>2 DEF gone
    <2>5. o \in Ins(t)
      BY <2>2, <2>3 DEF Ins
    <2>6. t \notin gone
      BY <2>1, <2>5 DEF Unlocked
    <2> QED
      BY <2>1, <2>4, <2>6
  <1>11. HoldersKnown' /\ ReleasedWithLock'
    <2>1. \A o \in Outpoints : mapLockedInputs'[o] # None => mapLockedInputs'[o] = mapLockedInputs[o]
      BY <1>1
    <2>2. HoldersKnown'
      BY <1>1, <1>5, <1>10, <2>1 DEF HoldersKnown
    <2>3. ReleasedWithLock'
      BY <1>1, <1>10, <2>1 DEF ReleasedWithLock
    <2> QED
      BY <2>2, <2>3
  <1> QED
    BY <1>6, <1>7, <1>8, <1>9, <1>11

LEMMA TickPreserves ==
    ASSUME Inv, Tick PROVE Inv'
  <1> USE DEF Inv
  <1>1. /\ lock' = [t \in Txs |-> IF lock[t].ttl < 0 THEN lock[t]
                                  ELSE [lock[t] EXCEPT !.ttl = lock[t].ttl - 1]]
        /\ UNCHANGED <<requests, mapTxLockVote, mapTxLocks, mapLockedInputs, pending, unsent>>
    BY DEF Tick
  <1>2. ASSUME NEW t \in Txs
        PROVE  lock'[t] \in Locks /\ lock'[t].votes = lock[t].votes
                                 /\ lock'[t].height = lock[t].height
    <2>1. lock[t] \in Locks /\ lock[t].ttl \in -1..Lifetime /\ Lifetime \in Nat
      BY LocksAssumption DEF TypeOK, Locks, LocksAssumption
    <2>2. CASE lock[t].ttl < 0
      BY <1>1, <2>1, <2>2
    <2>3. CASE ~(lock[t].ttl < 0)
      <3>1. lock[t].ttl - 1 \in -1..Lifetime
        BY <2>1, <2>3
      <3>2. lock'[t] = [lock[t] EXCEPT !.ttl = lock[t].ttl - 1]
        BY <1>1, <2>3
      <3> QED
        BY <2>1, <3>1, <3>2, TimeOnly
    <2> QED
      BY <2>2, <2>3
  <1>3. TypeOK'
    <2>1. lock' \in [Txs -> Locks]
      BY <1>1, <1>2
    <2> QED
      BY <1>1, <2>1 DEF TypeOK, requests
  <1>4. VotesSeen' /\ OneVoteEach'
    BY <1>1, <1>2, VotesKept DEF TypeOK
  <1>5. LocksHaveRequests' /\ HoldersKnown' /\ ReleasedWithLock'
    BY <1>1, <1>2 DEF LocksHaveRequests, HoldersKnown, ReleasedWithLock, requests, TypeOK
  <1> QED
    BY <1>3, <1>4, <1>5

-----------------------------------------------------------------------------
\* No order of requests, votes, expiry and the wallet's sends leads out of Inv.
THEOREM SwiftInvariant == Spec => []Inv
  <1>1. Init => Inv
    <2> SUFFICES ASSUME Init PROVE Inv
      OBVIOUS
    <2>1. Erased \in Locks
      BY LocksAssumption DEF LocksAssumption, Erased, Locks
    <2>2. TypeOK
      BY <2>1 DEF Init, TypeOK
    <2>3. VotesSeen /\ OneVoteEach /\ LocksHaveRequests
      BY DEF Init, VotesSeen, OneVoteEach, LocksHaveRequests
    <2>4. HoldersKnown /\ ReleasedWithLock
      BY DEF Init, HoldersKnown, ReleasedWithLock
    <2> QED
      BY <2>2, <2>3, <2>4 DEF Inv
  <1>2. Inv /\ [Next]_vars => Inv'
    <2> SUFFICES ASSUME Inv, [Next]_vars PROVE Inv'
      OBVIOUS
    <2>1. CASE UNCHANGED vars
      BY <2>1 DEF vars, requests, Inv, TypeOK, VotesSeen, OneVoteEach, LocksHaveRequests,
                  HoldersKnown, ReleasedWithLock
    <2>2. CASE Next
      BY <2>2, LockRequestPreserves, SendLockRequestPreserves, RequestAcceptedPreserves,
         RequestRejectedPreserves, VoteRefusedPreserves, ConsensusVotePreserves,
         CleanPreserves, TickPreserves DEF Next
    <2> QED
      BY <2>1, <2>2
  <1> QED
    BY <1>1, <1>2, PTL DEF Spec

\* ProcessConsensusVote counts a masternode at most once in a lock, although
\* CleanTransactionLocksList makes votes it has seen count as new.
THEOREM MasternodesCountedOnce == Spec => []OneVoteEach
  <1>1. Inv => OneVoteEach
    BY DEF Inv
  <1> QED
    BY <1>1, SwiftInvariant, PTL

\* Whatever mapLockedInputs reserves for a request that was never rejected is
\* released by the time its lock is removed.
THEOREM ReservationsEndWithLock == Spec => []ReleasedWithLock
  <1>1. Inv => ReleasedWithLock
    BY DEF Inv
  <1> QED
    BY <1>1, SwiftInvariant, PTL
=============================================================================
