------------------------------- MODULE UtxoView -------------------------------
(***************************************************************************)
(* What the stack of coin views promises its users (the interface          *)
(* CCoinsView of coins.h), with no caches in it: a durable set of unspent  *)
(* outputs, the set the node works with, and the scratch copy on which a   *)
(* block is connected or disconnected.  Each names the block whose state   *)
(* it is.                                                                  *)
(***************************************************************************)
CONSTANTS TxIds, Outs, Blocks, NoBlock

VARIABLES durable,    \* what a restart finds
          committed,  \* what pcoinsTip answers
          scratch,    \* what the view of ConnectBlock answers
          busy        \* such a view exists

viewVars == <<durable, committed, scratch, busy>>

View == [coins : [TxIds -> SUBSET Outs], best : Blocks \cup {NoBlock}]

Empty == [coins |-> [t \in TxIds |-> {}], best |-> NoBlock]

Init ==
    /\ durable = Empty /\ committed = Empty /\ scratch = Empty
    /\ busy = FALSE

Begin ==
    /\ ~busy /\ busy' = TRUE
    /\ scratch' = committed
    /\ UNCHANGED <<durable, committed>>

Modify(t, c) ==
    /\ busy
    /\ scratch' = [scratch EXCEPT !.coins[t] = c]
    /\ UNCHANGED <<durable, committed, busy>>

\* The scratch copy becomes the node's state in one step, under its new name.
Commit(b) ==
    /\ busy /\ busy' = FALSE
    /\ committed' = [scratch EXCEPT !.best = b]
    /\ scratch' = committed'
    /\ UNCHANGED durable

Discard ==
    /\ busy /\ busy' = FALSE
    /\ scratch' = committed
    /\ UNCHANGED <<durable, committed>>

\* The node's state becomes durable in one step.
Persist ==
    /\ ~busy
    /\ durable' = committed
    /\ UNCHANGED <<committed, scratch, busy>>

\* The attempt fails: what was not durable is lost, but keeps its name.
PersistFails ==
    /\ ~busy
    /\ committed' = [committed EXCEPT !.coins = durable.coins]
    /\ scratch' = committed'
    /\ UNCHANGED <<durable, busy>>

Crash ==
    /\ committed' = durable /\ scratch' = durable /\ busy' = FALSE
    /\ UNCHANGED durable

Next ==
    \/ Begin
    \/ \E t \in TxIds, c \in SUBSET Outs : Modify(t, c)
    \/ \E b \in Blocks : Commit(b)
    \/ Discard \/ Persist \/ PersistFails \/ Crash

Spec == Init /\ [][Next]_viewVars
=============================================================================
