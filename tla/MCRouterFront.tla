--------------------------- MODULE MCRouterFront ----------------------------
(* RouterFront for TLC: two projects with a password each, of which only the *)
(* first exists when the router starts, and clients that ask for the first.  *)
EXTENDS RouterFront, TLC

CONSTANTS p1, p2, c1, c2

MCPassword == [p \in Projects |-> p]

Ask(mode, tls, pw) == [mode |-> mode, ref |-> p1, tls |-> tls, pw |-> pw]

MCRequests ==
    c1 :> {Ask("session", TRUE, p1), Ask("session", FALSE, p1),
           Ask("session", FALSE, p2), Ask("transaction", FALSE, p1),
           Ask("transaction", FALSE, p2)} @@
    c2 :> {Ask("transaction", FALSE, p1)}

MCFirstRows == p1 :> [state |-> "running", port |-> 5433] @@ p2 :> NoRow
=============================================================================
