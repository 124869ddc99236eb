---------------------------- MODULE MCCheckQueue ----------------------------
(* Bounds for model checking CheckQueue; the workers are interchangeable and *)
(* so are the checks.                                                        *)
EXTENDS CheckQueue, TLC

Symmetry == Permutations(Workers) \cup Permutations(Checks)
=============================================================================
