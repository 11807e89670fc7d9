----------------------------- MODULE MCStudio -----------------------------
(* Instances of Studio and SqlText for TLC. *)
EXTENDS Studio, SqlText, TLC

CONSTANTS r1, r2, a, b

\* A transaction, one left open, and a script that fails halfway.
SomeScripts ==
    {<<Do("begin"), Write(1, "script", 1), Do("commit")>>,
     <<Do("begin"), Write(1, "script", 2)>>,
     <<Write(2, "script", 1), Do("error"), Write(1, "script", 1)>>}

\* Nothing but a script that is read; a script, a plan and an edit, with a client or pool closed or the container restarted;
\* paging through the table beside a script, which may leave a transaction open, and while rows are edited.
Silence == [rows |-> {}, scripts |-> 0, explains |-> 0, edits |-> 0, views |-> 0, closes |-> 0, moves |-> 0]
Edits == [Silence EXCEPT !.rows = {1}, !.edits = 1]
Scenarios ==
    {Silence,
     [Edits EXCEPT !.scripts = 1, !.explains = 1, !.closes = 1],
     [Edits EXCEPT !.scripts = 1, !.explains = 1, !.moves = 1],
     [Silence EXCEPT !.rows = {1, 3}, !.views = 1, !.scripts = 1],
     [Edits EXCEPT !.rows = {1, 2, 3}, !.views = 1],
     [Edits EXCEPT !.rows = {1, 2}, !.views = 1, !.edits = 2]}

MCInit == StudioInit /\ script \in IF budget = Silence THEN AllScripts ELSE {<<>>}
MCSpec == MCInit /\ [][StudioNext /\ UNCHANGED script]_<<studioVars, script>>

Symmetry == Permutations(Requests) \cup Permutations(Conns)
===========================================================================
