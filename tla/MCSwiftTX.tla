------------------------------ MODULE MCSwiftTX ------------------------------
(* Two transactions that spend the same output; the second one spends another *)
(* output as well, and some masternodes vote on it at another height.         *)
EXTENDS SwiftTX

CONSTANTS t1, t2, o1, o2

MCSpends == [t \in {t1, t2} |-> IF t = t1 THEN {o1} ELSE {o1, o2}]
MCLockHeights == [t \in {t1, t2} |-> {1}]
MCVoteHeights == [t \in {t1, t2} |-> IF t = t1 THEN {1} ELSE {1, 2}]
=============================================================================
