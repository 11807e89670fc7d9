--------------------------- MODULE MCMaintenance ---------------------------
(* Instances of Maintenance for TLC. *)
EXTENDS Maintenance

CONSTANTS b1, b2, b3, b4, mig, ext1, chk

\* The attempts of the code: 3 for a backup (2 here), 1, 2 and 1 or 2.
Attempts == [j \in Jobs |-> IF j = Migration \/ j = Check THEN 1 ELSE 2]
============================================================================
