----------------------------- MODULE MCRecovery -----------------------------
(* Instances of Recovery for TLC. *)
EXTENDS Recovery

CONSTANTS src, res, copying

\* The attempts of the code: 2 for a copy and 5 (2 here) for a deletion.
Attempts == [j \in Jobs |-> 2]
============================================================================
