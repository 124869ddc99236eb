------------------------------ MODULE SwiftTX ------------------------------
(***************************************************************************)
(* Transaction locks (swifttx.cpp).  A node receives lock requests ("ix")  *)
(* and the votes of masternodes on them ("txlvote") in any order.  Enough  *)
(* votes at the height of the request complete its lock, and its inputs    *)
(* are then reserved in mapLockedInputs, which AcceptToMemoryPool and      *)
(* CheckBlock consult.                                                     *)
(*                                                                         *)
(* Requests and votes are handled by the one message thread.  The wallet   *)
(* sends its own requests, and the masternode thread removes old locks;    *)
(* both may run while a request waits for cs_main in the middle of its     *)
(* handler.  No lock guards the maps, so the handlers really interleave    *)
(* there; the rest of a handler is one step here.                          *)
(*                                                                         *)
(* Left out: what is relayed and mapUnknownVotes, which only decides that; *)
(* the memory pool, whose verdict is any that mapLockedInputs allows; and  *)
(* the gates on spork 2 and on the synchronization, which drop messages.   *)
(***************************************************************************)
EXTENDS Integers, Sequences, FiniteSets

CONSTANTS
    Txs,           \* transactions whose lock is asked for
    OwnTxs,        \* those of this node's wallet
    Outpoints,
    Spends,        \* the outpoints of the inputs of a transaction
    LockHeights,   \* what CreateNewLock may compute for a transaction: another
                   \* height after a reorganization moved its input
    VoteHeights,   \* what other nodes computed, in their votes
    Masternodes,
    Self,          \* the masternode of this node, or None
    Required,      \* SWIFTTX_SIGNATURES_REQUIRED
    Lifetime,      \* the hour that a lock lives, in steps of the clock
    None

ASSUME LocksAssumption ==
    /\ OwnTxs \subseteq Txs
    /\ Spends \in [Txs -> SUBSET Outpoints]
    /\ LockHeights \in [Txs -> SUBSET (Nat \ {0})]
    /\ VoteHeights \in [Txs -> SUBSET (Nat \ {0})]
    /\ Self \in Masternodes \cup {None}
    /\ Required \in Nat \ {0} /\ Lifetime \in Nat
    /\ None \notin Txs /\ None \notin Masternodes

VARIABLES
    mapTxLockReq,          \* the requests known, by hash
    blank,                 \* those that operator[] default-constructed
    mapTxLockReqRejected,  \* the requests that the memory pool refused
    mapTxLockVote,         \* the votes seen, by hash: masternode and transaction
    mapTxLocks,            \* the locks, by hash,
    lock,                  \* and their fields
    mapLockedInputs,       \* who reserves an outpoint
    pending,               \* the request whose handler waits for cs_main
    unsent,                \* own transactions that the wallet has not sent yet
    rejectedOnce           \* every request ever refused: no variable of the code

requests == <<mapTxLockReq, blank, mapTxLockReqRejected, rejectedOnce>>
vars == <<requests, mapTxLockVote, mapTxLocks, lock, mapLockedInputs, pending, unsent>>

Votes == [mn : Masternodes, height : Nat]

\* ttl is nExpiration - GetTime(), down to -1: expired.
Locks == [height : Nat, ttl : -1..Lifetime, votes : Seq(Votes)]
NewLock(h) == [height |-> h, ttl |-> Lifetime, votes |-> <<>>]
Erased == [height |-> 0, ttl |-> -1, votes |-> <<>>]

TypeOK ==
    /\ mapTxLockReq \subseteq Txs /\ blank \subseteq mapTxLockReq
    /\ mapTxLockReqRejected \subseteq rejectedOnce /\ rejectedOnce \subseteq Txs
    /\ mapTxLockVote \subseteq Masternodes \X Txs
    /\ mapTxLocks \subseteq Txs /\ lock \in [Txs -> Locks]
    /\ mapLockedInputs \in [Outpoints -> Txs \cup {None}]
    /\ pending \in Txs \cup {None} /\ unsent \subseteq OwnTxs

Init ==
    /\ mapTxLockReq = {} /\ blank = {} /\ mapTxLockReqRejected = {} /\ rejectedOnce = {}
    /\ mapTxLockVote = {}
    /\ mapTxLocks = {} /\ lock = [t \in Txs |-> Erased]
    /\ mapLockedInputs = [o \in Outpoints |-> None]
    /\ pending = None /\ unsent = OwnTxs

-----------------------------------------------------------------------------
\* Only the votes at the height of the lock count.
CountSignatures(l) ==
    IF l.height = 0 THEN -1
    ELSE Cardinality({i \in DOMAIN l.votes : l.votes[i].height = l.height})

Complete(l) == CountSignatures(l) >= Required

\* CreateNewLock; 0 stands for an input that is missing or too new.
CreateNewLock(t, h) ==
    IF h = 0 THEN UNCHANGED <<mapTxLocks, lock>>
    ELSE /\ mapTxLocks' = mapTxLocks \cup {t}
         /\ lock' = [lock EXCEPT ![t] = IF t \in mapTxLocks THEN [@ EXCEPT !.height = h]
                                        ELSE NewLock(h)]

\* The inputs ins are reserved for t where nobody else has them.
Reserve(t, ins) ==
    mapLockedInputs' = [o \in Outpoints |->
        IF o \in ins /\ mapLockedInputs[o] = None THEN t ELSE mapLockedInputs[o]]

\* The inputs, among ins, that CheckForConflictingLocks finds to be another's.
Conflicts(t, ins) == {o \in ins : mapLockedInputs[o] \notin {t, None}}

\* CheckForConflictingLocks ends the life of both locks, of those that exist.
CancelledBy(locks, present, t, o) ==
    [x \in Txs |-> IF x \in present /\ x \in {t, mapLockedInputs[o]}
                   THEN [locks[x] EXCEPT !.ttl = 0] ELSE locks[x]]

-----------------------------------------------------------------------------
\* "ix", up to where the handler asks for cs_main.  A request that is known, or
\* that IsIXTXValid or the scan of its scripts turns down, changes nothing.
LockRequest(t) ==
    /\ pending = None /\ t \notin unsent
    /\ t \notin mapTxLockReq /\ t \notin mapTxLockReqRejected
    /\ \E h \in LockHeights[t] \cup {0} : CreateNewLock(t, h)
    /\ pending' = t
    /\ UNCHANGED <<requests, mapTxLockVote, mapLockedInputs, unsent>>

\* Variant: the request is not recorded.
RequestAcceptedUnrecorded ==
    /\ pending # None
    /\ Conflicts(pending, Spends[pending]) = {}
    /\ pending' = None
    /\ UNCHANGED <<requests, mapTxLockVote, mapTxLocks, lock, mapLockedInputs, unsent>>

\* DoConsensusVote: a masternode that ranks high enough votes.  Its vote is recorded
\* as seen, and not added to its own lock.
DoConsensusVote(t) ==
    \/ UNCHANGED mapTxLockVote
    \/ Self # None /\ mapTxLockVote' = mapTxLockVote \cup {<<Self, t>>}

\* The memory pool took the transaction.
RequestAccepted ==
    /\ pending # None
    /\ Conflicts(pending, Spends[pending]) = {}
    /\ DoConsensusVote(pending)
    /\ mapTxLockReq' = mapTxLockReq \cup {pending}
    /\ pending' = None
    /\ UNCHANGED <<blank, mapTxLockReqRejected, rejectedOnce>>
    /\ UNCHANGED <<mapTxLocks, lock, mapLockedInputs, unsent>>

\* It refused it: the free inputs are reserved at once, and a lock that is already
\* complete either collides with another one or has the last blocks reprocessed.
\* Its own inputs are reserved by then, so only those of others are in the way.
RequestRejected ==
    /\ pending # None
    /\ mapTxLockReqRejected' = mapTxLockReqRejected \cup {pending}
    /\ rejectedOnce' = rejectedOnce \cup {pending}
    /\ Reserve(pending, Spends[pending])
    /\ IF pending \in mapTxLocks /\ Complete(lock[pending])
       THEN LET others == Conflicts(pending, Spends[pending])
            IN  \/ /\ others = {}
                   /\ mapTxLockReq' = mapTxLockReq \cup {pending}
                   /\ UNCHANGED lock
                \/ \E o \in others :
                     /\ lock' = CancelledBy(lock, mapTxLocks, pending, o)
                     /\ UNCHANGED mapTxLockReq
       ELSE UNCHANGED <<mapTxLockReq, lock>>
    /\ pending' = None
    /\ UNCHANGED <<blank, mapTxLockVote, mapTxLocks, unsent>>

\* CommitTransaction: the memory pool took an own transaction, and
\* RelayWalletTransaction asks for its lock.
SendLockRequest(t) ==
    /\ t \in unsent /\ Conflicts(t, Spends[t]) = {}
    /\ unsent' = unsent \ {t}
    /\ mapTxLockReq' = mapTxLockReq \cup {t}
    /\ \E h \in LockHeights[t] \cup {0} : CreateNewLock(t, h)
    /\ UNCHANGED <<blank, mapTxLockReqRejected, rejectedOnce>>
    /\ UNCHANGED <<mapTxLockVote, mapLockedInputs, pending>>

-----------------------------------------------------------------------------
\* Variant: a vote is not looked up.
AnyVote(mn, t) == pending = None /\ t \notin unsent

\* A hash is that of the masternode and the transaction: a second vote of the same
\* masternode is not looked at, at whatever height.
NewVote(mn, t) == pending = None /\ t \notin unsent /\ <<mn, t>> \notin mapTxLockVote

\* "txlvote" from a masternode that is unknown, not among the first ten at the
\* height of the vote, or whose signature does not verify.
VoteRefused(mn, t) ==
    /\ NewVote(mn, t)
    /\ mapTxLockVote' = mapTxLockVote \cup {<<mn, t>>}
    /\ UNCHANGED <<requests, mapTxLocks, lock, mapLockedInputs, pending, unsent>>

\* A vote for a transaction without a lock makes one whose height is not known.
WithVote(mn, t, h) ==
    [(IF t \in mapTxLocks THEN lock[t] ELSE NewLock(0))
        EXCEPT !.votes = Append(@, [mn |-> mn, height |-> h])]

\* The transaction behind a complete lock.  operator[] gives it an empty one when
\* it is not in mapTxLockReq, and an empty one has no inputs.
Ins(t) == IF t \in mapTxLockReq \ blank THEN Spends[t] ELSE {}

\* ProcessConsensusVote.  When the request was rejected, ReprocessBlocks follows.
ConsensusVote(mn, t, h) ==
    LET new == WithVote(mn, t, h)
        locks == [lock EXCEPT ![t] = new]
    IN
    /\ NewVote(mn, t)
    /\ mapTxLockVote' = mapTxLockVote \cup {<<mn, t>>}
    /\ mapTxLocks' = mapTxLocks \cup {t}
    /\ IF Complete(new)
       THEN /\ mapTxLockReq' = mapTxLockReq \cup {t}
            /\ blank' = blank \cup ({t} \ mapTxLockReq)
            /\ \/ /\ Conflicts(t, Ins(t)) = {}
                  /\ Reserve(t, Ins(t))
                  /\ lock' = locks
               \/ \E o \in Conflicts(t, Ins(t)) :
                    /\ lock' = CancelledBy(locks, mapTxLocks \cup {t}, t, o)
                    /\ UNCHANGED mapLockedInputs
       ELSE lock' = locks /\ UNCHANGED <<mapTxLockReq, blank, mapLockedInputs>>
    /\ UNCHANGED <<mapTxLockReqRejected, rejectedOnce, pending, unsent>>

-----------------------------------------------------------------------------
Expired == {t \in mapTxLocks : lock[t].ttl < 0}

\* Variant: the inputs stay reserved.
UnlockedNothing(gone) == {}

\* CleanTransactionLocksList erases the inputs of the transactions gone, whoever
\* has reserved them,
Unlocked(gone) == UNION {Ins(t) : t \in gone}

\* and the votes that their locks had collected.
VotesOf(gone) ==
    {v \in mapTxLockVote : /\ v[2] \in gone
                           /\ \E i \in DOMAIN lock[v[2]].votes : lock[v[2]].votes[i].mn = v[1]}

\* The whole of CleanTransactionLocksList, run every minute.  A lock whose request
\* is not in mapTxLockReq goes alone.
CleanTransactionLocksList ==
    LET gone == Expired \cap mapTxLockReq IN
    /\ Expired # {}
    /\ mapTxLocks' = mapTxLocks \ Expired
    /\ lock' = [t \in Txs |-> IF t \in Expired THEN Erased ELSE lock[t]]
    /\ mapLockedInputs' = [o \in Outpoints |-> IF o \in Unlocked(gone) THEN None
                                              ELSE mapLockedInputs[o]]
    /\ mapTxLockReq' = mapTxLockReq \ gone /\ blank' = blank \ gone
    /\ mapTxLockReqRejected' = mapTxLockReqRejected \ gone
    /\ mapTxLockVote' = mapTxLockVote \ VotesOf(gone)
    /\ UNCHANGED <<rejectedOnce, pending, unsent>>

\* The clock moves on.
Tick ==
    /\ \E t \in mapTxLocks : lock[t].ttl >= 0
    /\ lock' = [t \in Txs |-> IF lock[t].ttl < 0 THEN lock[t]
                             ELSE [lock[t] EXCEPT !.ttl = @ - 1]]
    /\ UNCHANGED <<requests, mapTxLockVote, mapTxLocks, mapLockedInputs, pending, unsent>>

Next ==
    \/ \E t \in Txs : LockRequest(t) \/ SendLockRequest(t)
    \/ RequestAccepted \/ RequestRejected
    \/ \E mn \in Masternodes, t \in Txs :
          VoteRefused(mn, t) \/ \E h \in VoteHeights[t] : ConsensusVote(mn, t, h)
    \/ CleanTransactionLocksList \/ Tick

Spec == Init /\ [][Next]_vars

\* The clock runs, and the masternode thread cleans up every minute.
FairSpec == Spec /\ WF_vars(Tick) /\ WF_vars(CleanTransactionLocksList)

-----------------------------------------------------------------------------
(***************************************************************************)
(* A lock never counts the same masternode twice, so that a complete one   *)
(* really has Required signers: votes are only told apart by               *)
(* mapTxLockVote, from which CleanTransactionLocksList removes some.       *)
(***************************************************************************)
OneVoteEach ==
    \A t \in mapTxLocks : \A i, j \in DOMAIN lock[t].votes :
        lock[t].votes[i].mn = lock[t].votes[j].mn => i = j

\* What a lock has collected is also in mapTxLockVote.
VotesSeen ==
    \A t \in mapTxLocks : \A i \in DOMAIN lock[t].votes :
        <<lock[t].votes[i].mn, t>> \in mapTxLockVote

\* A lock whose height is known belongs to a request that is known, was rejected
\* or is being handled; so only a rejected one is ever default-constructed.
LocksHaveRequests ==
    /\ \A t \in mapTxLocks : lock[t].height # 0 =>
          t \in mapTxLockReq \/ t \in rejectedOnce \/ t = pending
    /\ blank \subseteq rejectedOnce

\* An outpoint is reserved for a transaction that spends it, and that is in
\* mapTxLockReq or was rejected.
HoldersKnown ==
    \A o \in Outpoints : LET t == mapLockedInputs[o] IN
        t # None => o \in Spends[t] /\ (t \in rejectedOnce \/ t \in mapTxLockReq)

\* The inputs reserved for a request that was never rejected are released no
\* later than its lock, whatever happened while its handler waited for cs_main.
ReleasedWithLock ==
    \A o \in Outpoints : LET t == mapLockedInputs[o] IN
        t # None => t \in rejectedOnce \/ t \in mapTxLocks

\* The inductive invariant: every masternode is counted once because what is
\* counted was seen, and a reservation ends with its lock because its holder is
\* in mapTxLockReq with its real inputs.
Inv ==
    /\ TypeOK /\ VotesSeen /\ OneVoteEach
    /\ LocksHaveRequests /\ HoldersKnown /\ ReleasedWithLock

\* "locks expire after 60 minutes": what is reserved for a request does not stay
\* reserved for it, unless it is rejected.
InputsReleased ==
    \A t \in Txs : (\E o \in Outpoints : mapLockedInputs[o] = t)
                      ~> (\A o \in Outpoints : mapLockedInputs[o] # t) \/ t \in rejectedOnce

\* "if two conflicting locks are approved by the network, they will cancel out":
\* of two complete locks on the same input, neither has time left once no request
\* is being handled.
ConflictingLocksCancel ==
    pending = None => \A t, u \in mapTxLocks :
        /\ t # u /\ Spends[t] \cap Spends[u] # {}
        /\ Complete(lock[t]) /\ Complete(lock[u])
        => lock[t].ttl <= 0 /\ lock[u].ttl <= 0
=============================================================================
