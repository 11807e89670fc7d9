------------------------------- MODULE Studio -------------------------------
(***************************************************************************)
(* The data browser and SQL console of one project: the connection pool    *)
(* (data/pool.ts), scripts and EXPLAIN (data/query.ts), edits of a row     *)
(* (data/mutate.ts) and paging through a table (data/browse.ts), behind    *)
(* the routes of api/routes/data.ts.                                       *)
(*                                                                         *)
(* Every request runs its statements one by one on a client of the pool;   *)
(* statements of different requests interleave.  The database is external: *)
(* transactions, row locks and errors of one table.  A row has a sort      *)
(* column v and a mark of the kind of request that wrote it.               *)
(***************************************************************************)
EXTENDS Integers, Sequences, FiniteSets

CONSTANTS
    Requests,     \* requests that may be under way at once
    Conns,        \* clients of the pool (max: 4 in the code)
    Keys,         \* primary keys
    SortValues,
    Limit,        \* rows of a page
    Scripts,      \* scripts a user may run, as sequences of statements
    StudioBounds  \* bound: what may happen in a behaviour, chosen at its start

ASSUME KeysAssumption == Keys \subseteq Nat /\ IsFiniteSet(Keys) /\ SortValues \subseteq Nat
ASSUME LimitAssumption == Limit \in Nat \ {0}
ASSUME NamesAssumption == 0 \notin Requests \cup Conns
ASSUME StudioBoundsAssumption ==
    StudioBounds \subseteq [rows : SUBSET Keys, scripts : Nat, explains : Nat, edits : Nat, views : Nat,
                      closes : Nat, moves : Nat]

VARIABLES
    table,  \* the committed rows
    conn,   \* the pool's clients
    port,   \* the project's published port, as on its row
    entry,  \* the port of the pool in the manager's map, 0 when there is none
    asks,   \* the requests
    view,   \* a user paging through the table
    budget  \* what may still happen

studioVars == <<table, conn, port, entry, asks, view, budget>>

Absent == [by |-> "none", v |-> 0]
NoConn == [port |-> 0, user |-> 0, txn |-> "none", writes |-> <<>>, ending |-> FALSE, leaky |-> FALSE]
NoRequest == [kind |-> "none", conn |-> 0, todo |-> <<>>, committed |-> FALSE, ok |-> TRUE]
NoView == [on |-> FALSE, offset |-> FALSE, desc |-> FALSE, filter |-> {}, cursor |-> <<>>, more |-> FALSE,
           shown |-> <<>>, steady |-> {}, still |-> FALSE, total |-> 0]

StudioInit ==
    /\ budget \in StudioBounds
    /\ table \in {t \in [Keys -> {Absent} \cup [by : {"initial"}, v : SortValues]] :
                     \A k \in Keys : t[k] # Absent <=> k \in budget.rows}
    /\ conn = [c \in Conns |-> NoConn]
    /\ port = 1 /\ entry = 0
    /\ asks = [r \in Requests |-> NoRequest]
    /\ view = NoView

-----------------------------------------------------------------------------
(* The database (external).  A client's uncommitted writes are a function  *)
(* from the keys it has written.                                           *)

Written(c) == DOMAIN conn[c].writes
Visible(c, k) == IF k \in Written(c) THEN conn[c].writes[k] ELSE table[k]
Blocked(c, k) == \E d \in Conns \ {c} : k \in Written(d)

\* Whether a statement can succeed.
Possible(c, s) ==
    /\ conn[c].txn = "aborted" => s.do \in {"commit", "rollback"}
    /\ s.do = "write" => ~Blocked(c, s.key) /\ (s.row.by = "insert" => Visible(c, s.key) = Absent)
    /\ s.do # "error"

\* An update or a delete of a row that is gone changes nothing.
Changes(c, s) ==
    /\ s.do = "write"
    /\ s.row.by \in {"update", "delete"} => Visible(c, s.key) # Absent
RowOf(s) == IF s.row.by = "delete" THEN Absent ELSE s.row

Ended(c) == [conn[c] EXCEPT !.txn = "none", !.writes = <<>>, !.leaky = FALSE]

\* The client after a statement that succeeded, and the committed rows.
ConnAfter(c, s) ==
    CASE s.do = "begin" -> [conn[c] EXCEPT !.txn = "open"]
      [] s.do \in {"commit", "rollback"} -> Ended(c)
      [] Changes(c, s) /\ conn[c].txn = "open" ->
            [conn[c] EXCEPT !.writes = [k \in Written(c) \cup {s.key} |->
                                          IF k = s.key THEN RowOf(s) ELSE conn[c].writes[k]]]
      [] OTHER -> conn[c]

TableAfter(c, s) ==
    CASE s.do = "commit" /\ conn[c].txn = "open" -> [k \in Keys |-> Visible(c, k)]
      [] Changes(c, s) /\ conn[c].txn = "none" -> [table EXCEPT ![s.key] = RowOf(s)]
      [] OTHER -> table

\* A statement that fails aborts the transaction it is in.
ConnFailed(c) == IF conn[c].txn = "none" THEN conn[c] ELSE [conn[c] EXCEPT !.txn = "aborted", !.writes = <<>>]

Spends(what) == budget[what] > 0 /\ budget' = [budget EXCEPT ![what] = @ - 1]

-----------------------------------------------------------------------------
(* The pool. *)

\* poolFor(): the pool of the map is used while it has the row's port, else it is ended (its
\* idle clients close, the others when they are released) and a new one made.
Fits == entry = port
Pooled ==
    [c \in Conns |-> IF Fits \/ conn[c].port = 0 THEN conn[c]
                     ELSE IF conn[c].user = 0 THEN NoConn ELSE [conn[c] EXCEPT !.ending = TRUE]]

\* withClient(): a client of the pool that is idle, or a new one.
Usable(c) == Pooled[c].user = 0
Connect(r) ==
    /\ asks[r].kind # "none" /\ asks[r].conn = 0 /\ asks[r].todo # <<>>
    /\ \E c \in Conns :
          /\ Usable(c)
          /\ Pooled[c].port = 0 => \A d \in Conns : Pooled[d].port = 0 \/ Pooled[d].user # 0
          /\ conn' = [Pooled EXCEPT ![c].port = port, ![c].user = r]
          /\ asks' = [asks EXCEPT ![r].conn = c]
    /\ entry' = port
    /\ UNCHANGED <<table, port, view, budget>>

\* No client came free within ten seconds, or the server did not answer.
ConnectFails(r) ==
    /\ asks[r].kind # "none" /\ asks[r].conn = 0 /\ asks[r].todo # <<>>
    /\ \A c \in Conns : ~Usable(c)
    /\ asks' = [asks EXCEPT ![r].todo = <<>>, ![r].ok = FALSE]
    /\ conn' = Pooled /\ entry' = port
    /\ UNCHANGED <<table, port, view, budget>>

\* client.release(): back to the pool, whatever state it is in; an ended pool closes it.
\* History: a script that leaves its transaction open is remembered.
Released(c, k) ==
    IF conn[c].ending THEN NoConn
    ELSE [conn[c] EXCEPT !.user = 0, !.leaky = @ \/ (k = "script" /\ conn[c].txn # "none")]

Release(r) ==
    /\ asks[r].kind # "none" /\ asks[r].todo = <<>>
    /\ conn' = IF asks[r].conn = 0 THEN conn
               ELSE [conn EXCEPT ![asks[r].conn] = Released(asks[r].conn, asks[r].kind)]
    /\ asks' = [asks EXCEPT ![r] = NoRequest]
    /\ UNCHANGED <<table, port, entry, view, budget>>

\* An idle client is closed after 30 seconds.
ClientCloses(c) ==
    /\ Spends("closes") /\ conn[c].port # 0 /\ conn[c].user = 0
    /\ conn' = [conn EXCEPT ![c] = NoConn]
    /\ UNCHANGED <<table, port, entry, asks, view>>

\* sweep() ends a pool that nobody asked for in five minutes, evict() one whose server is about
\* to restart.
DropPool ==
    /\ entry # 0
    /\ entry' = 0
    /\ conn' = [c \in Conns |-> IF conn[c].user = 0 THEN NoConn ELSE [conn[c] EXCEPT !.ending = TRUE]]
    /\ UNCHANGED <<table, port, asks, view>>

Evict == Spends("closes") /\ DropPool

\* The container restarts, perhaps on another port: every connection is lost.
Moves ==
    /\ Spends("moves")
    /\ port' \in {port, 3 - port}
    /\ conn' = [c \in Conns |-> NoConn]
    /\ asks' = [r \in Requests |-> IF asks[r].conn = 0 THEN asks[r]
                                  ELSE IF asks[r].todo = <<>> THEN NoRequest
                                  ELSE [asks[r] EXCEPT !.conn = 0, !.todo = <<>>, !.ok = FALSE]]
    /\ UNCHANGED <<table, entry, view>>

-----------------------------------------------------------------------------
(* Paging.  Rows are ordered by the sort column and then the primary key.  *)

Less(a, b) == a[1] < b[1] \/ (a[1] = b[1] /\ a[2] < b[2])
Precedes(desc, a, b) == IF desc THEN Less(b, a) ELSE Less(a, b)

\* The rows as client c reads them.
Seen(c) == [k \in Keys |-> Visible(c, k)]
Position(rows, k) == <<rows[k].v, k>>
Matching(rows) == {k \in Keys : rows[k] # Absent /\ rows[k].v \in view.filter}

\* Mutant: the row comparison looks at the sort column only.
BeyondOnSort(rows) ==
    {k \in Matching(rows) : view.cursor = <<>> \/ (Position(rows, k)[1] # view.cursor[1]
                                                  /\ Precedes(view.desc, view.cursor, Position(rows, k)))}

\* The rows beyond the cursor; a nullable sort column is paged by offset.
Beyond(rows) ==
    {k \in Matching(rows) : view.cursor = <<>> \/ Precedes(view.desc, view.cursor, Position(rows, k))}

Sorted(rows, desc, keys) ==
    CHOOSE s \in [1..Cardinality(keys) -> keys] :
        \A i, j \in DOMAIN s : i < j => Precedes(desc, Position(rows, s[i]), Position(rows, s[j]))

SkippedRows == IF view.cursor = <<>> THEN 0 ELSE view.cursor[1]
Ahead(rows) ==
    IF view.offset
    THEN LET all == Sorted(rows, view.desc, Matching(rows)) IN SubSeq(all, SkippedRows + 1, Len(all))
    ELSE Sorted(rows, view.desc, Beyond(rows))

\* A page: one row more than it shows is asked for, to know whether there is another.
\* History: the rows that a transaction left open on the client shows otherwise are not steady.
Paged(c) ==
    LET ahead == Ahead(Seen(c))
        page == SubSeq(ahead, 1, IF Len(ahead) > Limit THEN Limit ELSE Len(ahead))
        more == Len(ahead) > Limit
    IN [view EXCEPT !.shown = @ \o page, !.more = more,
                    !.cursor = IF ~more THEN <<>>
                              ELSE IF view.offset THEN <<SkippedRows + Limit>>
                              ELSE Position(Seen(c), page[Len(page)]),
                    !.steady = @ \ Written(c), !.still = @ /\ Written(c) = {}]

\* countRows() in exact mode: the filters, and not the cursor.
Counted(c) == [view EXCEPT !.total = Cardinality(Matching(Seen(c))), !.still = @ /\ Written(c) = {}]

-----------------------------------------------------------------------------
(* Requests. *)

Do(what) == [do |-> what, key |-> 0, row |-> Absent]
Write(k, by, v) == [do |-> "write", key |-> k, row |-> [by |-> by, v |-> v]]

\* Every request bounds its statements first.
Starts(r, kind, todo) ==
    /\ asks[r].kind = "none"
    /\ asks' = [asks EXCEPT ![r] = [NoRequest EXCEPT !.kind = kind, !.todo = <<Do("set")>> \o todo]]

\* The three edits: one statement outside any transaction, for the row with the whole key k.
Edit(r, statement) ==
    /\ Spends("edits") /\ Starts(r, "edit", <<statement>>)
    /\ UNCHANGED <<table, conn, port, entry, view>>

InsertRow(r, k, v) == Edit(r, Write(k, "insert", v))
UpdateRow(r, k, v) == Edit(r, Write(k, "update", v))
DeleteRow(r, k) == Edit(r, Write(k, "delete", 0))

\* What a user writes is marked as a script's, unless it deletes.
ScriptStatement ==
    {Do(what) : what \in {"begin", "commit", "rollback", "error"}}
        \cup {Write(k, by, v) : k \in Keys, by \in {"script", "delete"}, v \in SortValues}
ASSUME ScriptsAssumption == Scripts \subseteq Seq(ScriptStatement)

\* runQuery(): the statements of the script one by one, not in a transaction of their own.
RunQuery(r, script) ==
    /\ Spends("scripts") /\ Starts(r, "script", script)
    /\ UNCHANGED <<table, conn, port, entry, view>>

\* explainQuery() with ANALYZE: the statement runs, twice, and is rolled back.
ExplainQuery(r, k, v) ==
    /\ Spends("explains")
    /\ Starts(r, "explain", <<Do("begin"), Write(k, "explain", v), Write(k, "explain", v), Do("rollback")>>)
    /\ UNCHANGED <<table, conn, port, entry, view>>

\* A user opens the table.  History: the rows that have stayed as they are since.
OpenView(offset, desc, filter) ==
    /\ Spends("views") /\ ~view.on
    /\ view' = [NoView EXCEPT !.on = TRUE, !.offset = offset, !.desc = desc, !.filter = filter, !.more = TRUE,
                              !.steady = {k \in Keys : table[k] # Absent /\ table[k].v \in filter},
                              !.still = TRUE]
    /\ UNCHANGED <<table, conn, port, entry, asks>>

\* browseTable(): the next page, and the count.
BrowseTable(r) ==
    /\ view.on /\ view.more /\ \A q \in Requests : asks[q].kind # "browse"
    /\ Starts(r, "browse", <<Do("page"), Do("count")>>)
    /\ UNCHANGED <<table, conn, port, entry, view, budget>>

Running(r) == asks[r].conn # 0 /\ asks[r].todo # <<>>

\* The statement succeeds.  An edit that matched no row is an error.
StatementSucceeds(r) ==
    /\ Running(r)
    /\ LET c == asks[r].conn
           s == Head(asks[r].todo)
           seen == CASE s.do = "page" -> Paged(c) [] s.do = "count" -> Counted(c) [] OTHER -> view
       IN /\ Possible(c, s)
          /\ table' = TableAfter(c, s)
          /\ conn' = [conn EXCEPT ![c] = ConnAfter(c, s)]
          /\ asks' = [asks EXCEPT ![r].todo = Tail(@),
                                ![r].ok = @ /\ (asks[r].kind = "edit" /\ s.do = "write" => Changes(c, s)),
                                ![r].committed = s.do = "write" /\ conn[c].txn = "none"]
          /\ view' = [seen EXCEPT !.steady = {k \in @ : table'[k] = table[k]},
                                  !.still = @ /\ table' = table]
    /\ UNCHANGED <<port, entry, budget>>

\* Mutant: no finally.
RecoveryNone(r, s) == <<>>

\* What is still run after an error: the rollback of an EXPLAIN that has begun.
Recovery(r, s) == IF asks[r].kind = "explain" /\ s.do = "write" THEN <<Do("rollback")>> ELSE <<>>

\* It fails: it cannot succeed, times out, or violates a constraint.
StatementFails(r) ==
    /\ Running(r)
    /\ LET c == asks[r].conn
           s == Head(asks[r].todo)
       IN /\ ~Possible(c, s) \/ s.do \in {"write", "page", "count"}
          /\ conn' = [conn EXCEPT ![c] = ConnFailed(c)]
          /\ asks' = [asks EXCEPT ![r].todo = Recovery(r, s), ![r].ok = FALSE]
    /\ UNCHANGED <<table, port, entry, view, budget>>

-----------------------------------------------------------------------------

StudioNext ==
    \/ \E r \in Requests :
          \/ \E k \in Keys, v \in SortValues : InsertRow(r, k, v) \/ UpdateRow(r, k, v)
          \/ \E k \in Keys : DeleteRow(r, k)
          \/ \E script \in Scripts : RunQuery(r, script)
          \/ \E k \in Keys, v \in SortValues : ExplainQuery(r, k, v)
          \/ BrowseTable(r)
          \/ Connect(r) \/ ConnectFails(r) \/ StatementSucceeds(r) \/ StatementFails(r) \/ Release(r)
    \/ \E offset, desc \in BOOLEAN, filter \in (SUBSET SortValues) \ {{}} : OpenView(offset, desc, filter)
    \/ \E c \in Conns : ClientCloses(c)
    \/ Evict \/ Moves

StudioSpec == StudioInit /\ [][StudioNext]_studioVars

-----------------------------------------------------------------------------
(* Safety. *)

\* A client goes back to the pool outside any transaction and an edit that is reported is
\* committed, whatever scripts, plans and errors came before, unless a user's own script left
\* a transaction open on that client; and EXPLAIN ANALYZE never leaves a trace
\* (query.ts:152-154, mutate.ts:17).
EditsAreReal ==
    /\ \A c \in Conns : conn[c].user = 0 => conn[c].txn = "none" \/ conn[c].leaky
    /\ \A r \in Requests :
          asks[r].kind = "edit" /\ asks[r].todo = <<>> /\ asks[r].ok =>
              asks[r].committed \/ conn[asks[r].conn].leaky
    /\ \A k \in Keys : table[k].by # "explain"

\* Paging to the end by key shows every row that stayed as it was exactly once, whatever rows
\* come, go and change meanwhile; paging by offset does when nothing changes.  The exact count
\* is then the number of rows shown (browse.ts:99-114, 124-126).
PagesCoverTheTable ==
    view.on /\ ~view.more =>
        /\ ~view.offset \/ view.still =>
              \A k \in view.steady : Cardinality({i \in DOMAIN view.shown : view.shown[i] = k}) = 1
        /\ view.still /\ view.total # 0 => view.total = Len(view.shown)
=============================================================================
