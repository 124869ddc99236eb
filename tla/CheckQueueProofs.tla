--------------------------- MODULE CheckQueueProofs ---------------------------
(***************************************************************************)
(* Proofs about CheckQueue, for any number of worker threads and checks    *)
(* and any batch size.                                                     *)
(***************************************************************************)
EXTENDS CheckQueue, FiniteSetTheorems, TLAPS

\* Every set whose cardinality the counters of the queue track is finite.
LEMMA Finiteness ==
    ASSUME TypeOK
    PROVE  /\ IsFiniteSet(Threads)
           /\ \A S \in SUBSET Threads : IsFiniteSet(S) /\ Cardinality(S) \in Nat
           /\ \A S \in SUBSET Checks : IsFiniteSet(S) /\ Cardinality(S) \in Nat
           /\ Pending \subseteq Checks
<1> USE CheckQueueAssumption DEF CheckQueueAssumption
<1>1. IsFiniteSet(Threads)
  BY FS_AddElement DEF Threads
<1>2. \A S \in SUBSET Threads : IsFiniteSet(S) /\ Cardinality(S) \in Nat
  BY <1>1, FS_Subset, FS_CardinalityType
<1>3. \A S \in SUBSET Checks : IsFiniteSet(S) /\ Cardinality(S) \in Nat
  BY FS_Subset, FS_CardinalityType
<1>4. Pending \subseteq Checks
  BY DEF Pending, TypeOK
<1> QED
  BY <1>1, <1>2, <1>3, <1>4

LEMMA CountRemove ==
    ASSUME NEW S, IsFiniteSet(S), NEW T \in SUBSET S
    PROVE  Cardinality(S \ T) = Cardinality(S) - Cardinality(T)
<1>1. S \cap T = T
  OBVIOUS
<1> QED
  BY <1>1, FS_Difference

LEMMA CountAdd ==
    ASSUME NEW S, IsFiniteSet(S), NEW T, IsFiniteSet(T), S \cap T = {}
    PROVE  Cardinality(S \cup T) = Cardinality(S) + Cardinality(T)
<1>1. /\ Cardinality(S) \in Nat /\ Cardinality(T) \in Nat
  BY FS_CardinalityType
<1>2. Cardinality(S \cup T) = Cardinality(S) + Cardinality(T) - Cardinality(S \cap T)
  BY FS_Union
<1> QED
  BY <1>1, <1>2, FS_EmptySet

LEMMA InitInv == Init => Inv
<1> SUFFICES ASSUME Init PROVE Inv
  OBVIOUS
<1> USE DEF Init
<1>1. TypeOK
  BY DEF TypeOK, ControlPoints, Threads
<1>2. Active = {} /\ Waiting = {} /\ Pending = {}
  BY DEF Active, Waiting, Pending
<1>3. pc[Master] = "out"
  BY DEF Threads
<1> QED
  BY <1>1, <1>2, <1>3, FS_EmptySet DEF Inv, BatchesDisjoint, Counts,
     FailureRemembered, ClosedIsClean, WaitVerdict

-----------------------------------------------------------------------------
(***************************************************************************)
(* What holds at the top of `while (queue.empty())', with the batch of t   *)
(* already committed: total, idle, todo and allOk are the fields of the    *)
(* queue there and pcs the control points of the other threads, of which   *)
(* the clean-up may have woken the master.                                 *)
(***************************************************************************)
LoopPre(t, total, idle, todo, allOk, pcs) ==
    /\ total \in Nat /\ idle \in Nat /\ allOk \in BOOLEAN
    /\ pcs \in [Threads -> ControlPoints]
    /\ \A u \in Threads \ {t} :
          pcs[u] = pc[u] \/ (pc[u] = "wait" /\ pcs[u] = "woken")
    /\ pc[t] # "out"
    /\ todo = Cardinality(Pending \ batch[t])
    /\ total = idle + 1 + Cardinality(Active \ {t})
    /\ idle >= Cardinality(Waiting \ {t})
    /\ pc[Master] = "out" => allOk
    /\ pc[Master] # "out" =>
          /\ allOk => (added \ (Pending \ batch[t])) \cap bad = {}
          /\ ~allOk => added \cap bad # {}

\* The other threads: their sets and their batches are what they were.
LEMMA OthersLemma ==
    ASSUME Inv, NEW t \in Threads, NEW pcs \in [Threads -> ControlPoints],
           \A u \in Threads \ {t} :
              pcs[u] = pc[u] \/ (pc[u] = "wait" /\ pcs[u] = "woken"),
           NEW p \in ControlPoints, pc' = [pcs EXCEPT ![t] = p],
           NEW B \in SUBSET queue, batch' = [batch EXCEPT ![t] = B],
           queue' = queue \ B
    PROVE  /\ pc' \in [Threads -> ControlPoints]
           /\ pc'[t] = p /\ batch'[t] = B
           /\ Active' = IF p \in {"exec", "commit"} THEN (Active \ {t}) \cup {t}
                         ELSE Active \ {t}
           /\ Waiting' = IF p \in {"wait", "woken"} THEN (Waiting \ {t}) \cup {t}
                          ELSE Waiting \ {t}
           /\ \A u \in Threads \ {t} : pc'[u] = "commit" <=> pc[u] = "commit"
           /\ \A u \in Threads \ {t} : pc'[u] = "out" <=> pc[u] = "out"
           /\ Pending' = Pending \ batch[t]
           /\ batch' \in [Threads -> SUBSET Checks]
<1> USE DEF Inv, TypeOK
<1>1. /\ pc' \in [Threads -> ControlPoints]
      /\ pc'[t] = p /\ batch'[t] = B
      /\ batch' \in [Threads -> SUBSET Checks]
  OBVIOUS
<1>2. \A u \in Threads \ {t} : /\ pc'[u] = pcs[u]
                                /\ batch'[u] = batch[u]
  OBVIOUS
<1>3. Active' = IF p \in {"exec", "commit"} THEN (Active \ {t}) \cup {t} ELSE Active \ {t}
  <2>1. \A u \in Threads \ {t} : u \in Active' <=> u \in Active
    BY <1>2 DEF Active
  <2>2. t \in Active' <=> p \in {"exec", "commit"}
    BY <1>1 DEF Active
  <2>3. Active \subseteq Threads /\ Active' \subseteq Threads
    BY DEF Active
  <2> QED BY <2>1, <2>2, <2>3
<1>4. Waiting' = IF p \in {"wait", "woken"} THEN (Waiting \ {t}) \cup {t} ELSE Waiting \ {t}
  <2>1. \A u \in Threads \ {t} : u \in Waiting' <=> u \in Waiting
    BY <1>2 DEF Waiting
  <2>2. t \in Waiting' <=> p \in {"wait", "woken"}
    BY <1>1 DEF Waiting
  <2>3. Waiting \subseteq Threads /\ Waiting' \subseteq Threads
    BY DEF Waiting
  <2> QED BY <2>1, <2>2, <2>3
<1>5. Pending' = Pending \ batch[t]
  <2>1. \A c : c \in Pending <=> c \in queue \/ \E u \in Threads : c \in batch[u]
    BY DEF Pending
  <2>2. \A c : c \in Pending' <=> c \in queue' \/ \E u \in Threads : c \in batch'[u]
    BY DEF Pending
  <2>3. \A u \in Threads : batch[t] \cap queue = {} /\ (u # t => batch[t] \cap batch[u] = {})
    BY DEF BatchesDisjoint
  <2>4. \A c : c \in Pending' <=> c \in queue \/ \E u \in Threads \ {t} : c \in batch[u]
    BY <1>1, <1>2, <2>2
  <2> QED BY <2>1, <2>3, <2>4
<1> QED
  BY <1>1, <1>2, <1>3, <1>4, <1>5

\* A critical section that ends with t waiting, or taking the batch B, keeps
\* the invariant; B is empty exactly when t waits.
LEMMA StayInv ==
    ASSUME Inv, NEW t \in Threads, NEW total, NEW idle, NEW todo, NEW allOk, NEW pcs,
           LoopPre(t, total, idle, todo, allOk, pcs),
           UNCHANGED <<intr, quit>>,
           Block(t, total, idle, todo, allOk, pcs) \/ Take(t, total, idle, todo, allOk, pcs)
    PROVE  Inv'
<1> USE DEF Inv
<1>1. PICK p \in {"wait", "exec"}, B \in SUBSET queue :
        /\ p = "wait" <=> B = {}
        /\ pc' = [pcs EXCEPT ![t] = p]
        /\ batch' = [batch EXCEPT ![t] = B]
        /\ queue' = queue \ B
        /\ nIdle' = IF p = "wait" THEN idle + 1 ELSE idle
  <2>1. CASE Block(t, total, idle, todo, allOk, pcs)
    BY <2>1 DEF Block
  <2>2. CASE Take(t, total, idle, todo, allOk, pcs)
    BY <2>2 DEF Take
  <2> QED BY <2>1, <2>2
<1>2. /\ nTotal' = total /\ nTodo' = todo /\ fAllOk' = allOk
      /\ UNCHANGED session
      /\ fOk' = fOk \/ fOk' = [fOk EXCEPT ![t] = allOk]
      /\ p = "exec" => fOk' = [fOk EXCEPT ![t] = allOk]
  BY <1>1 DEF Block, Take
<1>3. p \in ControlPoints
  BY DEF ControlPoints
<1>4. /\ pc' \in [Threads -> ControlPoints]
      /\ pc'[t] = p /\ batch'[t] = B
      /\ Active' = IF p = "exec" THEN (Active \ {t}) \cup {t} ELSE Active \ {t}
      /\ Waiting' = IF p = "wait" THEN (Waiting \ {t}) \cup {t} ELSE Waiting \ {t}
      /\ \A u \in Threads \ {t} : pc'[u] = "commit" <=> pc[u] = "commit"
      /\ \A u \in Threads \ {t} : pc'[u] = "out" <=> pc[u] = "out"
      /\ Pending' = Pending \ batch[t]
      /\ batch' \in [Threads -> SUBSET Checks]
  <2>1. /\ pcs \in [Threads -> ControlPoints]
        /\ \A u \in Threads \ {t} :
              pcs[u] = pc[u] \/ (pc[u] = "wait" /\ pcs[u] = "woken")
    BY DEF LoopPre
  <2>2. /\ pc' = [pcs EXCEPT ![t] = p]
        /\ batch' = [batch EXCEPT ![t] = B] /\ queue' = queue \ B
    BY <1>1
  <2>3. /\ Active' = IF p \in {"exec", "commit"} THEN (Active \ {t}) \cup {t}
                      ELSE Active \ {t}
        /\ Waiting' = IF p \in {"wait", "woken"} THEN (Waiting \ {t}) \cup {t}
                       ELSE Waiting \ {t}
        /\ pc' \in [Threads -> ControlPoints]
        /\ pc'[t] = p /\ batch'[t] = B
        /\ \A u \in Threads \ {t} : pc'[u] = "commit" <=> pc[u] = "commit"
        /\ \A u \in Threads \ {t} : pc'[u] = "out" <=> pc[u] = "out"
        /\ Pending' = Pending \ batch[t]
        /\ batch' \in [Threads -> SUBSET Checks]
    BY <1>3, <2>1, <2>2, OthersLemma
  <2> QED BY <2>3
<1>5. /\ todo \in Nat
      /\ Cardinality(Active \ {t}) \in Nat /\ IsFiniteSet(Active \ {t})
      /\ Cardinality(Waiting \ {t}) \in Nat /\ IsFiniteSet(Waiting \ {t})
  <2>1. Active \ {t} \in SUBSET Threads /\ Waiting \ {t} \in SUBSET Threads
    BY DEF Active, Waiting
  <2>2. Pending \ batch[t] \in SUBSET Checks
    BY Finiteness
  <2> QED BY <2>1, <2>2, Finiteness DEF LoopPre
<1>6. TypeOK'
  <2>1. fOk' \in [Threads -> BOOLEAN]
    BY <1>2 DEF TypeOK, LoopPre
  <2>2. nIdle' \in Nat
    BY <1>1 DEF LoopPre
  <2>3. queue' \subseteq Checks
    BY <1>1 DEF TypeOK
  <2> QED BY <1>2, <1>4, <1>5, <2>1, <2>2, <2>3 DEF TypeOK, LoopPre, session
<1>7. BatchesDisjoint'
  <2>1. \A u \in Threads : u # t => batch'[u] = batch[u] /\ (u \in Active' <=> u \in Active)
    BY <1>1, <1>4 DEF TypeOK
  <2>2. \A u \in Threads : batch'[u] # {} <=> u \in Active'
    BY <1>1, <1>4, <2>1 DEF BatchesDisjoint
  <2>3. \A u \in Threads : batch'[u] \cap queue' = {}
    BY <1>1, <1>4, <2>1 DEF BatchesDisjoint
  <2>4. \A u, v \in Threads : u # v => batch'[u] \cap batch'[v] = {}
    BY <1>1, <1>4, <2>1 DEF BatchesDisjoint
  <2> QED BY <2>2, <2>3, <2>4 DEF BatchesDisjoint
<1>8. Counts'
  <2>1. nTodo' = Cardinality(Pending')
    BY <1>2, <1>4 DEF LoopPre
  <2>2. CASE p = "exec"
    <3>1. Cardinality(Active') = Cardinality(Active \ {t}) + 1
      BY <1>4, <1>5, <2>2, FS_AddElement
    <3> QED BY <1>1, <1>2, <1>4, <1>5, <2>1, <2>2, <3>1 DEF Counts, LoopPre
  <2>3. CASE p = "wait"
    <3>1. Cardinality(Waiting') = Cardinality(Waiting \ {t}) + 1
      BY <1>4, <1>5, <2>3, FS_AddElement
    <3> QED BY <1>1, <1>2, <1>4, <1>5, <2>1, <2>3, <3>1 DEF Counts, LoopPre
  <2> QED BY <2>2, <2>3
<1>9. pc'[Master] = "out" <=> pc[Master] = "out"
  <2>1. CASE t = Master
    BY <1>4, <2>1 DEF LoopPre
  <2>2. CASE t # Master
    BY <1>4, <2>2 DEF Threads
  <2> QED BY <2>1, <2>2
<1>10. FailureRemembered'
  <2> SUFFICES ASSUME pc[Master] # "out" PROVE FailureRemembered'
    BY <1>9 DEF FailureRemembered
  <2>1. added' = added /\ bad' = bad
    BY <1>2 DEF session
  <2>2. Pending' \subseteq added /\ (~fAllOk' => added \cap bad # {})
        /\ (fAllOk' => (added \ Pending') \cap bad = {})
    BY <1>2, <1>4 DEF FailureRemembered, LoopPre
  <2>3. \A u \in Threads : pc'[u] = "commit" /\ fOk'[u] => batch'[u] \cap bad = {}
    <3> SUFFICES ASSUME NEW u \in Threads, pc'[u] = "commit", fOk'[u]
                 PROVE  batch'[u] \cap bad = {}
      OBVIOUS
    <3>1. u # t
      BY <1>4
    <3>2. fOk'[u] = fOk[u] /\ batch'[u] = batch[u] /\ pc[u] = "commit"
      BY <1>1, <1>2, <1>4, <3>1 DEF TypeOK
    <3> QED BY <3>2 DEF FailureRemembered
  <2>4. \A u \in Active' : ~fOk'[u] => added \cap bad # {}
    <3> SUFFICES ASSUME NEW u \in Active', ~fOk'[u] PROVE added \cap bad # {}
      OBVIOUS
    <3>1. CASE u = t
      BY <1>1, <1>2, <1>4, <3>1 DEF TypeOK, LoopPre, Active
    <3>2. CASE u # t
      BY <1>2, <1>4, <3>2 DEF TypeOK, FailureRemembered, Active
    <3> QED BY <3>1, <3>2
  <2> QED BY <2>1, <2>2, <2>3, <2>4 DEF FailureRemembered
<1>11. ClosedIsClean'
  BY <1>2, <1>4, <1>9 DEF ClosedIsClean, LoopPre
<1>12. WaitVerdict'
  BY <1>2, <1>9 DEF WaitVerdict, session
<1> QED
  BY <1>6, <1>7, <1>8, <1>10, <1>11, <1>12

\* The master returns: nothing is pending, and the verdict is the right one.
LEMMA ReturnInv ==
    ASSUME Inv, NEW t \in Threads, NEW total, NEW idle, NEW todo, NEW allOk, NEW pcs,
           LoopPre(t, total, idle, todo, allOk, pcs),
           UNCHANGED <<intr, quit>>,
           Return(t, total, idle, todo, allOk, pcs)
    PROVE  Inv'
<1> USE DEF Inv
<1>1. /\ pcs \in [Threads -> ControlPoints]
      /\ \A u \in Threads \ {t} :
            pcs[u] = pc[u] \/ (pc[u] = "wait" /\ pcs[u] = "woken")
  BY DEF LoopPre
<1>2. "out" \in ControlPoints /\ {} \in SUBSET queue
  BY DEF ControlPoints
<1>3. /\ pc' = [pcs EXCEPT ![t] = "out"]
      /\ batch' = [batch EXCEPT ![t] = {}] /\ queue' = queue \ {}
  BY DEF Return
<1>4. /\ Active' = Active \ {t} /\ Waiting' = Waiting \ {t}
      /\ pc' \in [Threads -> ControlPoints]
      /\ pc'[t] = "out" /\ batch'[t] = {}
      /\ Pending' = Pending \ batch[t]
      /\ batch' \in [Threads -> SUBSET Checks]
  <2>1. /\ Active' = IF "out" \in {"exec", "commit"} THEN (Active \ {t}) \cup {t}
                      ELSE Active \ {t}
        /\ Waiting' = IF "out" \in {"wait", "woken"} THEN (Waiting \ {t}) \cup {t}
                       ELSE Waiting \ {t}
        /\ pc' \in [Threads -> ControlPoints]
        /\ pc'[t] = "out" /\ batch'[t] = {}
        /\ Pending' = Pending \ batch[t]
        /\ batch' \in [Threads -> SUBSET Checks]
    BY <1>1, <1>2, <1>3, OthersLemma
  <2> QED BY <2>1
<1>5. /\ t = Master /\ queue' = {} /\ nTotal' = total - 1 /\ nIdle' = idle
      /\ todo = 0 /\ nTodo' = 0 /\ fAllOk' = TRUE /\ inDtor' = FALSE
      /\ ret' = IF allOk THEN "valid" ELSE "invalid"
      /\ UNCHANGED <<fOk, added, bad>>
  BY <1>3 DEF Return
<1>6. Pending' = {}
  <2>1. Pending \ batch[t] \in SUBSET Checks
    BY Finiteness
  <2> QED BY <1>4, <1>5, <2>1, Finiteness, FS_EmptySet DEF LoopPre
<1>7. Cardinality(Active \ {t}) \in Nat
  BY Finiteness DEF Active
<1>8. TypeOK'
  <2>1. nTotal' \in Nat /\ nIdle' \in Nat /\ nTodo' \in Nat
    BY <1>5, <1>7 DEF LoopPre
  <2>2. ret' \in {"none", "valid", "invalid"}
    BY <1>5
  <2> QED BY <1>4, <1>5, <2>1, <2>2 DEF TypeOK
<1>9. BatchesDisjoint'
  <2>1. \A u \in Threads : batch'[u] = {}
    BY <1>6 DEF Pending
  <2>2. \A u \in Threads : u # t => batch'[u] = batch[u]
    BY <1>3 DEF TypeOK
  <2>3. Active' = {}
    BY <1>4, <2>1, <2>2 DEF BatchesDisjoint, Active
  <2> QED BY <2>1, <2>3 DEF BatchesDisjoint
<1>10. Counts'
  BY <1>4, <1>5, <1>6, <1>7, FS_EmptySet DEF Counts, LoopPre
<1>11. FailureRemembered' /\ ClosedIsClean'
  BY <1>4, <1>5, <1>6 DEF FailureRemembered, ClosedIsClean
<1>12. WaitVerdict'
  <2>1. pc[Master] # "out"
    BY <1>5 DEF LoopPre
  <2>2. allOk <=> added \cap bad = {}
    BY <1>4, <1>6, <2>1 DEF LoopPre
  <2> QED BY <1>5, <2>2 DEF WaitVerdict
<1> QED
  BY <1>8, <1>9, <1>10, <1>11, <1>12

LEMMA LoopTopInv ==
    ASSUME Inv, NEW t \in Threads, NEW total, NEW idle, NEW todo, NEW allOk, NEW pcs,
           LoopPre(t, total, idle, todo, allOk, pcs),
           UNCHANGED <<intr, quit>>,
           LoopTop(t, total, idle, todo, allOk, pcs)
    PROVE  Inv'
BY StayInv, ReturnInv DEF LoopTop

-----------------------------------------------------------------------------
\* A thread outside Active has no batch.
LEMMA NoBatch ==
    ASSUME BatchesDisjoint, TypeOK, NEW t \in Threads, t \notin Active
    PROVE  Pending \ batch[t] = Pending /\ Active \ {t} = Active
BY DEF BatchesDisjoint

LEMMA StartInv == ASSUME Inv, NEW t \in Threads, Start(t) PROVE Inv'
<1> USE DEF Inv
<1>1. pc[t] = "start" /\ t \notin Active /\ t \notin Waiting
  BY DEF Start, Active, Waiting
<1>2. Waiting \ {t} = Waiting
  BY <1>1
<1>3. Cardinality(Active) \in Nat
  BY Finiteness DEF Active
<1>4. LoopPre(t, nTotal + 1, nIdle, nTodo, fAllOk, pc)
  <2>1. /\ Pending \ batch[t] = Pending /\ Active \ {t} = Active
    BY <1>1, NoBatch
  <2>2. /\ nTotal + 1 \in Nat /\ nIdle \in Nat
        /\ nTotal + 1 = nIdle + 1 + Cardinality(Active)
        /\ nIdle >= Cardinality(Waiting) /\ nTodo = Cardinality(Pending)
    BY <1>3 DEF TypeOK, Counts
  <2>3. /\ pc[Master] = "out" => fAllOk
        /\ pc[Master] # "out" =>
             /\ fAllOk => (added \ Pending) \cap bad = {}
             /\ ~fAllOk => added \cap bad # {}
    BY DEF FailureRemembered, ClosedIsClean
  <2> QED BY <1>1, <1>2, <2>1, <2>2, <2>3 DEF LoopPre, TypeOK
<1> QED
  BY <1>4, LoopTopInv DEF Start

LEMMA WakeInv == ASSUME Inv, NEW t \in Threads, Wake(t) PROVE Inv'
<1> USE DEF Inv
<1>1. pc[t] = "woken" /\ t \notin Active /\ t \in Waiting
  BY DEF Wake, Active, Waiting
<1>2. /\ IsFiniteSet(Waiting) /\ Cardinality(Waiting) \in Nat
      /\ Cardinality(Active) \in Nat
  BY Finiteness DEF Waiting, Active
<1>3. Cardinality(Waiting \ {t}) = Cardinality(Waiting) - 1
      /\ Cardinality(Waiting \ {t}) \in Nat
  <2>1. Waiting \ {t} \in SUBSET Threads
    BY DEF Waiting
  <2> QED BY <1>1, <1>2, <2>1, FS_RemoveElement, Finiteness
<1>4. nIdle - 1 \in Nat /\ nIdle - 1 >= Cardinality(Waiting \ {t})
  BY <1>2, <1>3 DEF Counts, TypeOK
<1>5. LoopPre(t, nTotal, nIdle - 1, nTodo, fAllOk, pc)
  <2>1. /\ Pending \ batch[t] = Pending /\ Active \ {t} = Active
    BY <1>1, NoBatch
  <2>2. /\ nTotal \in Nat
        /\ nTotal = nIdle - 1 + 1 + Cardinality(Active)
        /\ nTodo = Cardinality(Pending)
    BY <1>2 DEF TypeOK, Counts
  <2>3. /\ pc[Master] = "out" => fAllOk
        /\ pc[Master] # "out" =>
             /\ fAllOk => (added \ Pending) \cap bad = {}
             /\ ~fAllOk => added \cap bad # {}
    BY DEF FailureRemembered, ClosedIsClean
  <2> QED BY <1>1, <1>4, <2>1, <2>2, <2>3 DEF LoopPre, TypeOK
<1> QED
  BY <1>5, LoopTopInv DEF Wake

\* While a thread holds a batch, a control object exists.
LEMMA BusyMeansOpen ==
    ASSUME Inv, NEW t \in Active PROVE pc[Master] # "out"
<1>1. t \in Threads /\ batch[t] # {}
  BY DEF Inv, BatchesDisjoint, Active
<1> QED
  BY <1>1 DEF Inv, ClosedIsClean, Pending

LEMMA CommitInv == ASSUME Inv, NEW t \in Threads, Commit(t) PROVE Inv'
<1> USE DEF Inv
<1> DEFINE todo == nTodo - Cardinality(batch[t])
           allOk == fAllOk /\ fOk[t]
           pcs == IF todo = 0 /\ t # Master THEN NotifyMaster ELSE pc
<1>1. pc[t] = "commit" /\ t \in Active /\ t \notin Waiting /\ pc[Master] # "out"
  BY BusyMeansOpen DEF Commit, Active, Waiting
<1>2. todo = Cardinality(Pending \ batch[t])
  <2>1. batch[t] \in SUBSET Pending
    BY DEF Pending
  <2>2. IsFiniteSet(Pending)
    BY Finiteness
  <2> QED BY <2>1, <2>2, CountRemove DEF Counts
<1>3. nTotal = nIdle + 1 + Cardinality(Active \ {t})
  <2>1. IsFiniteSet(Active) /\ Cardinality(Active) \in Nat
    BY Finiteness DEF Active
  <2>2. Cardinality(Active \ {t}) = Cardinality(Active) - 1
    BY <1>1, <2>1, FS_RemoveElement
  <2>3. nTotal = nIdle + Cardinality(Active) /\ nIdle \in Nat
    BY DEF Counts, TypeOK
  <2> QED BY <2>1, <2>2, <2>3
<1>4. Waiting \ {t} = Waiting
  BY <1>1
<1>5. /\ pcs \in [Threads -> ControlPoints]
      /\ \A u \in Threads \ {t} :
            pcs[u] = pc[u] \/ (pc[u] = "wait" /\ pcs[u] = "woken")
  <2>1. /\ NotifyMaster \in [Threads -> ControlPoints]
        /\ \A u \in Threads :
              NotifyMaster[u] = pc[u] \/ (pc[u] = "wait" /\ NotifyMaster[u] = "woken")
    BY DEF NotifyMaster, TypeOK, ControlPoints
  <2>2. pcs = NotifyMaster \/ pcs = pc
    OBVIOUS
  <2>3. pc \in [Threads -> ControlPoints]
    BY DEF TypeOK
  <2> HIDE DEF pcs
  <2> QED BY <2>1, <2>2, <2>3
<1>6. allOk \in BOOLEAN
  OBVIOUS
<1>7. allOk => (added \ (Pending \ batch[t])) \cap bad = {}
  <2> SUFFICES ASSUME fAllOk, fOk[t]
               PROVE  (added \ (Pending \ batch[t])) \cap bad = {}
    OBVIOUS
  <2>1. (added \ Pending) \cap bad = {} /\ batch[t] \cap bad = {}
    BY <1>1 DEF FailureRemembered
  <2> QED BY <2>1
<1>8. ~allOk => added \cap bad # {}
  BY <1>1 DEF FailureRemembered
<1>9. LoopTop(t, nTotal, nIdle, todo, allOk, pcs) /\ UNCHANGED <<intr, quit>>
  BY DEF Commit
<1> HIDE DEF todo, allOk, pcs
<1>10. LoopPre(t, nTotal, nIdle, todo, allOk, pcs)
  BY <1>1, <1>2, <1>3, <1>4, <1>5, <1>6, <1>7, <1>8 DEF LoopPre, TypeOK, Counts
<1> QED
  BY <1>9, <1>10, LoopTopInv

LEMMA ExecInv == ASSUME Inv, NEW t \in Threads, Exec(t) PROVE Inv'
<1> USE DEF Inv
<1>1. /\ pc[t] = "exec" /\ pc' = [pc EXCEPT ![t] = "commit"]
      /\ UNCHANGED <<queue, batch, nIdle, nTotal, nTodo, fAllOk, intr, quit,
                     inDtor, added, bad, ret>>
  BY DEF Exec, shared, session
<1>2. /\ pc' \in [Threads -> ControlPoints]
      /\ Active' = Active /\ Waiting' = Waiting /\ Pending' = Pending
      /\ pc'[Master] = "out" <=> pc[Master] = "out"
      /\ \A u \in Threads : u # t => pc'[u] = pc[u]
  BY <1>1 DEF TypeOK, ControlPoints, Active, Waiting, Pending
<1>3. /\ fOk' \in [Threads -> BOOLEAN]
      /\ \A u \in Threads : u # t => fOk'[u] = fOk[u]
      /\ fOk'[t] <=> fOk[t] /\ batch[t] \cap bad = {}
  BY DEF Exec, TypeOK
<1>4. TypeOK'
  BY <1>1, <1>2, <1>3 DEF TypeOK
<1>5. BatchesDisjoint' /\ Counts' /\ ClosedIsClean' /\ WaitVerdict'
  BY <1>1, <1>2 DEF BatchesDisjoint, Counts, ClosedIsClean, WaitVerdict
<1>6. FailureRemembered'
  <2> SUFFICES ASSUME pc[Master] # "out" PROVE FailureRemembered'
    BY <1>2 DEF FailureRemembered
  <2>1. batch[t] \subseteq added
    BY DEF FailureRemembered, Pending
  <2>2. \A u \in Threads : pc'[u] = "commit" /\ fOk'[u] => batch[u] \cap bad = {}
    BY <1>2, <1>3 DEF FailureRemembered
  <2>3. \A u \in Active : ~fOk'[u] => added \cap bad # {}
    <3> SUFFICES ASSUME NEW u \in Active, ~fOk'[u] PROVE added \cap bad # {}
      OBVIOUS
    <3>1. CASE u # t
      BY <1>3, <3>1 DEF FailureRemembered, Active
    <3>2. CASE u = t /\ fOk[t]
      BY <1>3, <2>1, <3>2
    <3>3. CASE u = t /\ ~fOk[t]
      BY <3>3 DEF FailureRemembered
    <3> QED BY <3>1, <3>2, <3>3
  <2> QED BY <1>1, <1>2, <2>2, <2>3 DEF FailureRemembered
<1> QED
  BY <1>4, <1>5, <1>6

\* A step that only moves threads between control points, keeping who is
\* active and who waits, and whether a control object exists.
LEMMA MoveInv ==
    ASSUME Inv, pc' \in [Threads -> ControlPoints],
           Active' = Active, Waiting' \subseteq Waiting,
           \A u \in Threads : pc'[u] = "commit" <=> pc[u] = "commit",
           pc'[Master] = "out" <=> pc[Master] = "out",
           intr' \subseteq Threads, quit' \in BOOLEAN, inDtor' \in BOOLEAN,
           UNCHANGED <<queue, batch, fOk, nIdle, nTotal, nTodo, fAllOk, added, bad, ret>>
    PROVE  Inv'
<1> USE DEF Inv
<1>1. Pending' = Pending
  BY DEF Pending
<1>2. TypeOK'
  BY DEF TypeOK
<1>3. Cardinality(Waiting') <= Cardinality(Waiting)
      /\ Cardinality(Waiting) \in Nat /\ Cardinality(Waiting') \in Nat
  <2>1. IsFiniteSet(Waiting) /\ Waiting \in SUBSET Threads
    BY Finiteness DEF Waiting
  <2> QED BY <2>1, FS_Subset, Finiteness
<1>4. Counts'
  BY <1>1, <1>3 DEF Counts, TypeOK
<1>5. BatchesDisjoint' /\ ClosedIsClean' /\ WaitVerdict'
  BY <1>1 DEF BatchesDisjoint, ClosedIsClean, WaitVerdict
<1>6. FailureRemembered'
  BY <1>1 DEF FailureRemembered
<1> QED
  BY <1>2, <1>4, <1>5, <1>6

LEMMA SpuriousInv == ASSUME Inv, NEW t \in Threads, SpuriousWakeup(t) PROVE Inv'
<1>1. /\ pc' \in [Threads -> ControlPoints]
      /\ Active' = Active /\ Waiting' \subseteq Waiting
      /\ \A u \in Threads : pc'[u] = "commit" <=> pc[u] = "commit"
      /\ pc'[Master] = "out" <=> pc[Master] = "out"
  BY DEF SpuriousWakeup, Inv, TypeOK, ControlPoints, Active, Waiting
<1> QED
  BY <1>1, MoveInv DEF SpuriousWakeup, shared, session, Inv, TypeOK

LEMMA InterruptedInv == ASSUME Inv, NEW t \in Threads, Interrupted(t) PROVE Inv'
<1>1. pc[t] \in {"wait", "woken"} /\ pc' = [pc EXCEPT ![t] = Thrown(t)]
  BY DEF Interrupted, Waiting
<1>2. Thrown(t) \in {"gone", "terminated", "start"}
  BY DEF Thrown
<1>3. /\ pc' \in [Threads -> ControlPoints]
      /\ \A u \in Threads : pc'[u] = IF u = t THEN Thrown(t) ELSE pc[u]
  BY <1>1, <1>2 DEF Inv, TypeOK, ControlPoints
<1>4. Active' = Active /\ Waiting' \subseteq Waiting
  BY <1>1, <1>2, <1>3 DEF Active, Waiting
<1>5. /\ \A u \in Threads : pc'[u] = "commit" <=> pc[u] = "commit"
      /\ pc'[Master] = "out" <=> pc[Master] = "out"
  BY <1>1, <1>2, <1>3 DEF Threads
<1>6. intr' \subseteq Threads /\ quit' \in BOOLEAN /\ inDtor' \in BOOLEAN
  BY DEF Interrupted, Inv, TypeOK
<1> QED
  BY <1>3, <1>4, <1>5, <1>6, MoveInv DEF Interrupted, shared

LEMMA InterruptAllInv == ASSUME Inv, InterruptAll PROVE Inv'
<1>1. Active' = Active /\ Waiting' = Waiting
  BY DEF InterruptAll, Active, Waiting
<1>2. intr' \subseteq Threads /\ quit' \in BOOLEAN
  BY DEF InterruptAll, Threads
<1> QED
  BY <1>1, <1>2, MoveInv DEF InterruptAll, shared, session, Inv, TypeOK

LEMMA JoinInv == ASSUME Inv, NEW early \in BOOLEAN, Join(early) PROVE Inv'
<1>1. Master \in Threads
  BY DEF Threads
<1>2. /\ pc' \in [Threads -> ControlPoints]
      /\ Active' = Active /\ Waiting' \subseteq Waiting
      /\ \A u \in Threads : pc'[u] = "commit" <=> pc[u] = "commit"
      /\ pc'[Master] = "out" <=> pc[Master] = "out"
  BY <1>1 DEF Join, Inv, TypeOK, ControlPoints, Active, Waiting
<1>3. intr' \subseteq Threads /\ quit' \in BOOLEAN /\ inDtor' \in BOOLEAN
  BY DEF Join, Inv, TypeOK
<1> QED
  BY <1>2, <1>3, MoveInv DEF Join, shared

LEMMA OpenInv == ASSUME Inv, Open PROVE Inv'
<1> USE DEF Inv
<1>1. Master \in Threads /\ pc[Master] = "out"
  BY DEF Threads, Open
<1>2. /\ pc' \in [Threads -> ControlPoints]
      /\ Active' = Active /\ Waiting' = Waiting /\ Pending' = Pending
      /\ pc'[Master] = "open"
  BY <1>1 DEF Open, shared, TypeOK, ControlPoints, Active, Waiting, Pending
<1>3. Pending = {} /\ fAllOk = TRUE
  BY <1>1 DEF ClosedIsClean, TypeOK
<1>4. Active = {}
  BY <1>3 DEF Pending, BatchesDisjoint, Active
<1>5. TypeOK'
  BY <1>2 DEF Open, shared, TypeOK
<1>6. BatchesDisjoint' /\ Counts'
  BY <1>2 DEF Open, shared, BatchesDisjoint, Counts
<1>7. FailureRemembered'
  <2>1. added' = {} /\ fAllOk' = TRUE /\ Pending' = {} /\ Active' = {}
    BY <1>2, <1>3, <1>4 DEF Open, shared
  <2>2. \A u \in Threads : pc'[u] # "commit"
    BY <2>1 DEF Active
  <2> QED BY <2>1, <2>2 DEF FailureRemembered
<1>8. ClosedIsClean' /\ WaitVerdict'
  BY <1>2 DEF ClosedIsClean, WaitVerdict
<1> QED
  BY <1>5, <1>6, <1>7, <1>8

LEMMA AddInv == ASSUME Inv, NEW S \in SUBSET Checks, Add(S) PROVE Inv'
<1> USE DEF Inv
<1>1. /\ pc[Master] = "open" /\ S \cap added = {}
      /\ queue' = queue \cup S /\ added' = added \cup S
      /\ nTodo' = nTodo + Cardinality(S)
      /\ UNCHANGED <<batch, fOk, nIdle, nTotal, fAllOk, intr, quit, inDtor, bad, ret>>
  BY DEF Add
<1>2. /\ pc' \in [Threads -> ControlPoints]
      /\ \A u \in Threads : pc'[u] = pc[u] \/ (pc[u] = "wait" /\ pc'[u] = "woken")
  BY DEF Add, NotifyWorkers, TypeOK, ControlPoints
<1>3. Active' = Active /\ Waiting' = Waiting
  BY <1>2 DEF Active, Waiting
<1>4. pc'[Master] = "open"
  BY <1>1, <1>2 DEF Threads
<1>5. Pending' = Pending \cup S /\ Pending \subseteq added /\ Pending \cap S = {}
  BY <1>1 DEF Pending, FailureRemembered
<1>6. Cardinality(Pending') = nTodo + Cardinality(S) /\ Cardinality(S) \in Nat
  BY <1>5, Finiteness, CountAdd DEF Counts
<1>7. TypeOK'
  BY <1>1, <1>2, <1>6 DEF TypeOK
<1>8. BatchesDisjoint'
  BY <1>1, <1>3, <1>5 DEF BatchesDisjoint, Pending
<1>9. Counts'
  BY <1>1, <1>3, <1>6 DEF Counts
<1>10. FailureRemembered'
  <2>1. added' \ Pending' = added \ Pending
    BY <1>1, <1>5
  <2>2. \A u \in Threads : pc'[u] = "commit" <=> pc[u] = "commit"
    BY <1>2
  <2> QED BY <1>1, <1>3, <1>5, <2>1, <2>2 DEF FailureRemembered
<1>11. ClosedIsClean' /\ WaitVerdict'
  BY <1>4 DEF ClosedIsClean, WaitVerdict
<1> QED
  BY <1>7, <1>8, <1>9, <1>10, <1>11

LEMMA RestartInv == Restart => Inv'
<1> SUFFICES ASSUME Restart PROVE Inv'
  OBVIOUS
<1> USE DEF Restart
<1>1. TypeOK'
  BY DEF TypeOK, ControlPoints, Threads
<1>2. Active' = {} /\ Waiting' = {} /\ Pending' = {}
  BY DEF Active, Waiting, Pending
<1>3. pc'[Master] = "out"
  BY DEF Threads
<1> QED
  BY <1>1, <1>2, <1>3, FS_EmptySet DEF Inv, BatchesDisjoint, Counts,
     FailureRemembered, ClosedIsClean, WaitVerdict

LEMMA NextInv == Inv /\ [Next]_vars => Inv'
<1> SUFFICES ASSUME Inv, [Next]_vars PROVE Inv'
  OBVIOUS
<1>1. ASSUME NEW t \in Threads, Loop(t) \/ SpuriousWakeup(t) PROVE Inv'
  BY <1>1, StartInv, ExecInv, CommitInv, WakeInv, InterruptedInv, SpuriousInv DEF Loop
<1>2. CASE Open
  BY <1>2, OpenInv
<1>3. ASSUME NEW S \in SUBSET Checks, Add(S) PROVE Inv'
  BY <1>3, AddInv
<1>4. ASSUME NEW early \in BOOLEAN, Join(early) PROVE Inv'
  BY <1>4, JoinInv
<1>5. CASE InterruptAll
  BY <1>5, InterruptAllInv
<1>6. CASE Restart
  BY <1>6, RestartInv
<1>7. CASE UNCHANGED vars
  BY <1>7 DEF vars, Inv, TypeOK, BatchesDisjoint, Counts, FailureRemembered,
     ClosedIsClean, WaitVerdict, Active, Waiting, Pending
<1> QED
  BY <1>1, <1>2, <1>3, <1>4, <1>5, <1>6, <1>7 DEF Next

-----------------------------------------------------------------------------
\* The counters of CCheckQueue count what their comments say, in every
\* interleaving of any number of workers.
THEOREM CheckQueueInvariant == Spec => []Inv
BY InitInv, NextInv, PTL DEF Spec

\* The assertion of CCheckQueueControl's constructor never fails.
THEOREM ControlNeverAsserts == Spec => []QueueIdleBetweenBlocks
<1>1. Inv => QueueIdleBetweenBlocks
  <2> SUFFICES ASSUME Inv, pc[Master] = "out" PROVE IsIdle
    BY DEF QueueIdleBetweenBlocks
  <2>1. Pending = {} /\ fAllOk
    BY DEF Inv, ClosedIsClean
  <2>2. Active = {}
    BY <2>1 DEF Inv, BatchesDisjoint, Pending, Active
  <2>3. nTodo = 0 /\ nTotal = nIdle
    BY <2>1, <2>2, FS_EmptySet DEF Inv, Counts, TypeOK
  <2> QED BY <2>1, <2>3 DEF IsIdle
<1> QED
  BY <1>1, CheckQueueInvariant, PTL

\* Wait never reports a block with a bad script as valid, nor one without as
\* invalid.
THEOREM VerdictIsRight == Spec => []WaitVerdict
<1>1. Inv => WaitVerdict
  BY DEF Inv
<1> QED
  BY <1>1, CheckQueueInvariant, PTL

\* No check is queued or evaluated after the control object is gone.
THEOREM NoDanglingCheck == Spec => []NoCheckOutlivesBlock
<1>1. Inv => NoCheckOutlivesBlock
  BY DEF Inv, ClosedIsClean, NoCheckOutlivesBlock
<1> QED
  BY <1>1, CheckQueueInvariant, PTL
=============================================================================
