------------------------------ MODULE CheckQueue ------------------------------
(***************************************************************************)
(* CCheckQueue and CCheckQueueControl (checkqueue.h): the pool of script   *)
(* check threads that ConnectBlock (main.cpp) feeds while it walks the     *)
(* transactions of a block, and joins to learn whether every script of the *)
(* block is valid.                                                         *)
(*                                                                         *)
(* One step is one critical section of CCheckQueue::mutex, or the          *)
(* evaluation of a batch outside it.  A wait on a condition variable ends  *)
(* by a notification, spuriously, or by the interruption of the thread     *)
(* (threadGroup.interrupt_all() at shutdown).  A check is an element of    *)
(* Checks; the order of the stack `queue' does not matter, so it is a set. *)
(***************************************************************************)
EXTENDS Naturals, FiniteSets

CONSTANTS Workers,      \* the threads running ThreadScriptCheck
          Master,       \* the thread that holds cs_main and connects a block
          Checks,       \* script checks of one block
          nBatchSize    \* upper bound on a batch (128 in main.cpp)

ASSUME CheckQueueAssumption ==
    /\ IsFiniteSet(Workers)
    /\ IsFiniteSet(Checks)
    /\ Master \notin Workers
    /\ nBatchSize \in Nat \ {0}

Threads == Workers \cup {Master}

VARIABLES
    pc,       \* what each thread does next
    queue,    \* checks nobody has taken yet
    batch,    \* vChecks of each thread, kept until its nNow is committed
    fOk,      \* fOk of each thread
    nIdle, nTotal, nTodo, fAllOk,   \* the fields of CCheckQueue
    intr,     \* threads with an interruption requested and not yet delivered
    quit,     \* interrupt_all() has been called
    inDtor,   \* the master waits in ~CCheckQueueControl: its result is dropped
    added,    \* checks given to Add during the current (or the last) session
    bad,      \* checks of the session that evaluate to false
    ret       \* what the last Wait returned: "none", "valid" or "invalid"

shared == <<queue, nIdle, nTotal, nTodo, fAllOk>>
session == <<inDtor, added, bad, ret>>
vars == <<pc, queue, batch, fOk, nIdle, nTotal, nTodo, fAllOk, intr, quit,
          inDtor, added, bad, ret>>

Waiting == {t \in Threads : pc[t] \in {"wait", "woken"}}
Active == {t \in Threads : pc[t] \in {"exec", "commit"}}
\* The checks that have been added and not been committed.
Pending == queue \cup UNION {batch[t] : t \in Threads}

ControlPoints == {"out", "open", "start", "exec", "commit", "wait", "woken",
                  "gone", "terminated"}

TypeOK ==
    /\ pc \in [Threads -> ControlPoints]
    /\ queue \subseteq Checks
    /\ batch \in [Threads -> SUBSET Checks]
    /\ fOk \in [Threads -> BOOLEAN]
    /\ nIdle \in Nat /\ nTotal \in Nat /\ nTodo \in Nat
    /\ fAllOk \in BOOLEAN
    /\ intr \subseteq Threads
    /\ quit \in BOOLEAN
    /\ inDtor \in BOOLEAN
    /\ added \subseteq Checks /\ bad \subseteq Checks
    /\ ret \in {"none", "valid", "invalid"}

-----------------------------------------------------------------------------
Init ==
    /\ pc = [t \in Threads |-> IF t = Master THEN "out" ELSE "start"]
    /\ queue = {} /\ batch = [t \in Threads |-> {}]
    /\ fOk = [t \in Threads |-> TRUE]
    /\ nIdle = 0 /\ nTotal = 0 /\ nTodo = 0 /\ fAllOk = TRUE
    /\ intr = {} /\ quit = FALSE
    /\ inDtor = FALSE /\ added = {} /\ bad = {} /\ ret = "none"

IsIdle == nTotal = nIdle /\ nTodo = 0 /\ fAllOk

\* nNow = max(1, min(nBatchSize, queue.size() / (nTotal + nIdle + 1)))
BatchLen(size, total, idle) ==
    LET share == size \div (total + idle + 1)
        capped == IF share < nBatchSize THEN share ELSE nBatchSize
    IN  IF capped < 1 THEN 1 ELSE capped

(***************************************************************************)
(* The three ways `while (queue.empty()) {...}' and the lines after it end *)
(* a critical section.  total, idle, todo, allOk and pcs are the values of *)
(* nTotal, nIdle, nTodo, fAllOk and pc at the top of that loop.            *)
(***************************************************************************)
\* Variant: the master leaves while another thread still has a batch.
ReturnEarly(t, total, idle, todo, allOk, pcs) ==
    /\ queue = {} /\ t = Master
    /\ nTotal' = total - 1 /\ nIdle' = idle /\ nTodo' = todo
    /\ fAllOk' = TRUE
    /\ ret' = IF allOk THEN "valid" ELSE "invalid"
    /\ pc' = [pcs EXCEPT ![t] = "out"]
    /\ batch' = [batch EXCEPT ![t] = {}]
    /\ inDtor' = FALSE
    /\ UNCHANGED <<queue, fOk, added, bad>>

\* Variant: the status of this block is kept for the next one.
ReturnKeepsStatus(t, total, idle, todo, allOk, pcs) ==
    /\ queue = {} /\ t = Master /\ todo = 0
    /\ nTotal' = total - 1 /\ nIdle' = idle /\ nTodo' = todo
    /\ fAllOk' = allOk
    /\ ret' = IF allOk THEN "valid" ELSE "invalid"
    /\ pc' = [pcs EXCEPT ![t] = "out"]
    /\ batch' = [batch EXCEPT ![t] = {}]
    /\ inDtor' = FALSE
    /\ UNCHANGED <<queue, fOk, added, bad>>

Return(t, total, idle, todo, allOk, pcs) ==
    /\ queue = {} /\ t = Master /\ todo = 0
    /\ nTotal' = total - 1 /\ nIdle' = idle /\ nTodo' = todo
    /\ fAllOk' = TRUE
    /\ ret' = IF allOk THEN "valid" ELSE "invalid"
    /\ pc' = [pcs EXCEPT ![t] = "out"]
    /\ batch' = [batch EXCEPT ![t] = {}]
    /\ inDtor' = FALSE
    /\ UNCHANGED <<queue, fOk, added, bad>>

Block(t, total, idle, todo, allOk, pcs) ==
    /\ queue = {} /\ ~(t = Master /\ todo = 0)
    /\ nTotal' = total /\ nIdle' = idle + 1 /\ nTodo' = todo
    /\ fAllOk' = allOk
    /\ pc' = [pcs EXCEPT ![t] = "wait"]
    /\ batch' = [batch EXCEPT ![t] = {}]
    /\ UNCHANGED <<queue, fOk, session>>

Take(t, total, idle, todo, allOk, pcs) ==
    \E B \in SUBSET queue :
        /\ B # {}
        /\ Cardinality(B) = BatchLen(Cardinality(queue), total, idle)
        /\ queue' = queue \ B
        /\ batch' = [batch EXCEPT ![t] = B]
        /\ fOk' = [fOk EXCEPT ![t] = allOk]
        /\ nTotal' = total /\ nIdle' = idle /\ nTodo' = todo
        /\ fAllOk' = allOk
        /\ pc' = [pcs EXCEPT ![t] = "exec"]
        /\ UNCHANGED session

LoopTop(t, total, idle, todo, allOk, pcs) ==
    \/ Return(t, total, idle, todo, allOk, pcs)
    \/ Block(t, total, idle, todo, allOk, pcs)
    \/ Take(t, total, idle, todo, allOk, pcs)

\* First iteration of Loop: nNow = 0, the thread counts itself in.
Start(t) ==
    /\ pc[t] = "start"
    /\ LoopTop(t, nTotal + 1, nIdle, nTodo, fAllOk, pc)
    /\ UNCHANGED <<intr, quit>>

\* Evaluation of a batch, outside the lock; it stops at the first failure.
Exec(t) ==
    /\ pc[t] = "exec"
    /\ fOk' = [fOk EXCEPT ![t] = fOk[t] /\ batch[t] \cap bad = {}]
    /\ pc' = [pc EXCEPT ![t] = "commit"]
    /\ UNCHANGED <<shared, session, batch, intr, quit>>

\* Variant: the last worker does not tell the master.
NotifyNobody == pc

\* condMaster.notify_one(): the master is the only thread that waits on it.
NotifyMaster ==
    [pc EXCEPT ![Master] = IF @ = "wait" THEN "woken" ELSE @]

\* Variant: fAllOk = fOk instead of fAllOk &= fOk.
CommitOverwrites(t) ==
    /\ pc[t] = "commit"
    /\ LET todo == nTodo - Cardinality(batch[t])
       IN  LoopTop(t, nTotal, nIdle, todo, fOk[t],
                   IF todo = 0 /\ t # Master THEN NotifyMaster ELSE pc)
    /\ UNCHANGED <<intr, quit>>

\* Clean-up of the previous run of the loop, and the next one.
Commit(t) ==
    /\ pc[t] = "commit"
    /\ LET todo == nTodo - Cardinality(batch[t])
       IN  LoopTop(t, nTotal, nIdle, todo, fAllOk /\ fOk[t],
                   IF todo = 0 /\ t # Master THEN NotifyMaster ELSE pc)
    /\ UNCHANGED <<intr, quit>>

\* Variant: nIdle is not decremented after the wait.
WakeStaysIdle(t) ==
    /\ pc[t] = "woken" /\ t \notin intr
    /\ LoopTop(t, nTotal, nIdle, nTodo, fAllOk, pc)
    /\ UNCHANGED <<intr, quit>>

\* cond.wait returns after a notification: nIdle-- and the test again.
Wake(t) ==
    /\ pc[t] = "woken" /\ t \notin intr
    /\ LoopTop(t, nTotal, nIdle - 1, nTodo, fAllOk, pc)
    /\ UNCHANGED <<intr, quit>>

SpuriousWakeup(t) ==
    /\ pc[t] = "wait"
    /\ pc' = [pc EXCEPT ![t] = "woken"]
    /\ UNCHANGED <<shared, session, batch, fOk, intr, quit>>

(***************************************************************************)
(* cond.wait throws boost::thread_interrupted, with nIdle and nTotal still *)
(* counting the thread.  A worker ends.  The master unwinds through        *)
(* ~CCheckQueueControl, which waits again because fDone is false; thrown   *)
(* out of that destructor the exception ends the process.                  *)
(***************************************************************************)
Thrown(t) ==
    IF t # Master THEN "gone" ELSE IF inDtor THEN "terminated" ELSE "start"

Interrupted(t) ==
    /\ t \in Waiting /\ t \in intr
    /\ intr' = intr \ {t}
    /\ pc' = [pc EXCEPT ![t] = Thrown(t)]
    /\ inDtor' = (inDtor \/ t = Master)
    /\ UNCHANGED <<shared, batch, fOk, quit, added, bad, ret>>

\* Shutdown: interrupt_all() reaches every thread of the group; the master is
\* one of them (message handler, miner) or not (RPC worker, init).
InterruptAll ==
    /\ ~quit /\ quit' = TRUE
    /\ intr' \in {Workers, Threads}
    /\ UNCHANGED <<pc, shared, session, batch, fOk>>

-----------------------------------------------------------------------------
\* Construction of CCheckQueueControl in ConnectBlock; it asserts IsIdle().
Open ==
    /\ pc[Master] = "out" /\ IsIdle
    /\ pc' = [pc EXCEPT ![Master] = "open"]
    /\ added' = {} /\ bad' \in SUBSET Checks /\ ret' = "none"
    /\ UNCHANGED <<shared, batch, fOk, intr, quit, inDtor>>

\* The effect of notify_one on condWorker when one check is added, of
\* notify_all when there are more.
NotifyWorkers(n) ==
    LET sleepers == {w \in Workers : pc[w] = "wait"}
        wake(S) == [t \in Threads |-> IF t \in S THEN "woken" ELSE pc[t]]
    IN  IF n = 1 /\ sleepers # {} THEN {wake({w}) : w \in sleepers}
        ELSE IF n > 1 THEN {wake(sleepers)}
        ELSE {pc}

\* The checks of one transaction; a session adds a check once.
Add(S) ==
    /\ pc[Master] = "open"
    /\ S \subseteq Checks \ added
    /\ queue' = queue \cup S
    /\ added' = added \cup S
    /\ nTodo' = nTodo + Cardinality(S)
    /\ pc' \in NotifyWorkers(Cardinality(S))
    /\ UNCHANGED <<batch, fOk, nIdle, nTotal, fAllOk, intr, quit, inDtor, bad, ret>>

\* control.Wait(), or an early return of ConnectBlock that runs the destructor.
Join(early) ==
    /\ pc[Master] = "open"
    /\ pc' = [pc EXCEPT ![Master] = "start"]
    /\ inDtor' = early
    /\ UNCHANGED <<shared, batch, fOk, intr, quit, added, bad, ret>>

\* std::terminate, and a new process.
Restart ==
    /\ pc[Master] = "terminated"
    /\ pc' = [t \in Threads |-> IF t = Master THEN "out" ELSE "start"]
    /\ queue' = {} /\ batch' = [t \in Threads |-> {}]
    /\ fOk' = [t \in Threads |-> TRUE]
    /\ nIdle' = 0 /\ nTotal' = 0 /\ nTodo' = 0 /\ fAllOk' = TRUE
    /\ intr' = {} /\ quit' = FALSE
    /\ inDtor' = FALSE /\ added' = {} /\ bad' = {} /\ ret' = "none"

Loop(t) == Start(t) \/ Exec(t) \/ Commit(t) \/ Wake(t) \/ Interrupted(t)

Next ==
    \/ \E t \in Threads : Loop(t) \/ SpuriousWakeup(t)
    \/ Open
    \/ \E S \in SUBSET Checks : Add(S)
    \/ \E early \in BOOLEAN : Join(early)
    \/ InterruptAll
    \/ Restart

Spec == Init /\ [][Next]_vars

\* A thread that can take a step of Loop is eventually scheduled.
FairSpec == Spec /\ \A t \in Threads : WF_vars(Loop(t))

-----------------------------------------------------------------------------
(***************************************************************************)
(* What ConnectBlock relies on.                                            *)
(***************************************************************************)

\* The assertion of CCheckQueueControl's constructor holds whenever no
\* control object exists, whatever the workers are doing: mid-wake-up, not
\* started yet, or killed while waiting.
QueueIdleBetweenBlocks == pc[Master] = "out" => IsIdle

\* Wait says valid exactly when no check added by this block is bad: no
\* failure of a worker is lost, and none of an earlier block is remembered.
WaitVerdict ==
    pc[Master] = "out" /\ ret # "none" =>
        (ret = "valid" <=> added \cap bad = {})

\* A check points into the block and the coins view of ConnectBlock: none is
\* queued or being evaluated once the control object is gone.
NoCheckOutlivesBlock == pc[Master] = "out" => Pending = {}

\* The master's Wait ends (or the process does, interrupted in the destructor).
WaitReturns ==
    pc[Master] \in {"start", "exec", "commit", "wait", "woken"}
        ~> pc[Master] \in {"out", "terminated"}

(***************************************************************************)
(* The inductive invariant behind them.                                    *)
(***************************************************************************)
BatchesDisjoint ==
    /\ \A t \in Threads : batch[t] # {} <=> t \in Active
    /\ \A t \in Threads : batch[t] \cap queue = {}
    /\ \A t, u \in Threads : t # u => batch[t] \cap batch[u] = {}

Counts ==
    /\ nTodo = Cardinality(Pending)
    /\ nTotal = nIdle + Cardinality(Active)
    /\ nIdle >= Cardinality(Waiting)

\* While a control object exists, a bad check that is no longer pending shows
\* in fAllOk, one that has been evaluated shows in its thread's fOk, and
\* neither is false without a bad check.
FailureRemembered ==
    pc[Master] # "out" =>
        /\ Pending \subseteq added
        /\ fAllOk => (added \ Pending) \cap bad = {}
        /\ \A t \in Threads : pc[t] = "commit" /\ fOk[t] => batch[t] \cap bad = {}
        /\ ~fAllOk => added \cap bad # {}
        /\ \A t \in Active : ~fOk[t] => added \cap bad # {}

ClosedIsClean == pc[Master] = "out" => Pending = {} /\ fAllOk

Inv ==
    /\ TypeOK /\ BatchesDisjoint /\ Counts
    /\ FailureRemembered /\ ClosedIsClean /\ WaitVerdict
=============================================================================
