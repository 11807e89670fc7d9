---------------------------- MODULE MCRouterPool ----------------------------
(* Instances of RouterPool for TLC. *)
EXTENDS RouterPool

CONSTANTS s1, s2, c1, c2
=============================================================================
