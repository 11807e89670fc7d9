---------------------------- MODULE MCInstance ----------------------------
(* An instance of Instance for TLC. *)
EXTENDS Instance

CONSTANTS c1, c2, e1, p, q, s1, s2

\* Two browsers and a password change; two browsers, a reset and a restart; backups that overlap
\* one another, and a restart or a reset.
Scenarios ==
    {[clients |-> {c1, c2}, backups |-> 0, changes |-> 1, resets |-> 0, ends |-> 0],
     [clients |-> {c1, c2}, backups |-> 0, changes |-> 0, resets |-> 1, ends |-> 1],
     [clients |-> {c1}, backups |-> 3, changes |-> 0, resets |-> 0, ends |-> 1],
     [clients |-> {c1}, backups |-> 2, changes |-> 0, resets |-> 1, ends |-> 0]}
===========================================================================
