----------------------------- MODULE MCJobQueue -----------------------------
(* Instances of JobQueue for TLC. *)
EXTENDS JobQueue, TLC

CONSTANTS j1, j2, w1, w2, e1, e2, e3

\* j1 outranks j2.
MCPriority == [j \in Jobs |-> IF j = j1 THEN 1 ELSE 0]

TwoAndOne == [j \in Jobs |-> IF j = j1 THEN 2 ELSE 1]

Symmetry == Permutations(Workers) \cup Permutations(Execs)
=============================================================================
