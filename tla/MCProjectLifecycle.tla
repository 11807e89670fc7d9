------------------------ MODULE MCProjectLifecycle ------------------------
(* Instances of ProjectLifecycle for TLC. *)
EXTENDS ProjectLifecycle

CONSTANTS c, d1

\* The attempts of service.ts are 3 and 5.
Attempts2 == [k \in Jobs |-> 2]
===========================================================================
