----------------------------- MODULE RouterPool -----------------------------
(***************************************************************************)
(* Transaction mode of the router: the pool of server connections of one   *)
(* project (router/src/pool.ts), the client sessions that share it         *)
(* (PooledSession and the login of TransactionServer, transaction.ts) and  *)
(* the server connections themselves (backend.ts).                         *)
(*                                                                         *)
(* The router is one event loop.  A resolved acquire() hands the           *)
(* connection over in a promise continuation (granted): it runs before the *)
(* next event, but after the rest of the chunk that the connection's data  *)
(* handler is looping over.                                                *)
(*                                                                         *)
(* A query stands for everything up to the next ReadyForQuery; all that    *)
(* matters of it is who sent it and whether it leaves a transaction open.  *)
(* Credentials, framing and message contents are abstracted.               *)
(***************************************************************************)
EXTENDS Integers, Sequences, FiniteSets

CONSTANTS
    Clients,     \* client connections, each used once
    Conns,       \* ServerConnection objects; one that nothing refers to is reused
    None,        \* null
    Size,        \* config.pool.size
    MaxQueries,  \* bound: queries a client sends
    MaxRoutes,   \* bound: versions of the project's route (port, password)
    Pipelining,  \* do clients send a query before the previous one is answered?
    ResetQuery,  \* is config.pool.resetQuery set?
    Faults       \* may server connections break, or the route change?

ASSUME NoneAssumption == None \notin Clients /\ None \notin Conns
ASSUME SizeAssumption == Size \in Nat \ {0}
ASSUME FiniteAssumption == IsFiniteSet(Clients) /\ IsFiniteSet(Conns)
ASSUME BoundsAssumption == MaxQueries \in Nat /\ MaxRoutes \in Nat \ {0}
ASSUME FlagsAssumption == Pipelining \in BOOLEAN /\ ResetQuery \in BOOLEAN /\ Faults \in BOOLEAN

VARIABLES
    sess,       \* the client sessions
    conn,       \* the server connections
    idle,       \* pool.idle, as a set
    all,        \* pool.all
    opening,    \* pool.opening
    waiters,    \* pool.waiters: who is waiting, first come first served
    cached,     \* is pool.cachedParameters set?
    poolRoute,  \* the version of the route the pool was last given
    route,      \* the version of the route in the RouteStore
    granted,    \* acquire() promises that are resolved, not yet continued
    delivered   \* history: <<reader, sender>> of every answer written to a client

poolVars == <<idle, all, opening, waiters, cached, poolRoute>>
vars == <<sess, conn, idle, all, opening, waiters, cached, poolRoute, route, granted, delivered>>

Query == [from : Clients \cup {None}, opens : BOOLEAN]

Session == [phase : {"new", "authenticating", "login", "active", "closed"},
            seen : 0..MaxRoutes,              \* the route resolved at startup
            holding : Conns \cup {None},
            acquiring : BOOLEAN,
            queued : Seq(BOOLEAN),            \* queries held back: opens of each
            sent : 0..MaxQueries,
            due : 0..MaxQueries]              \* answers the client is waiting for

Connection == [sock : {"unused", "opening", "open", "closed"},
               opener : Clients \cup {None},  \* whose acquire() is opening it
               onMessage : Clients \cup {None},
               inbox : Seq(Query),            \* sent to Postgres, not answered
               tx : Clients \cup {None}]      \* whose transaction is open in it

TypeOK ==
    /\ sess \in [Clients -> Session]
    /\ conn \in [Conns -> Connection]
    /\ idle \subseteq Conns /\ all \subseteq Conns
    /\ opening \in Nat
    /\ waiters \in Seq(Clients)
    /\ cached \in BOOLEAN
    /\ poolRoute \in 0..MaxRoutes /\ route \in 1..MaxRoutes
    /\ granted \in [Clients -> Conns \cup {None}]
    /\ delivered \subseteq Clients \X (Clients \cup {None})

NoSession == [phase |-> "new", seen |-> 0, holding |-> None, acquiring |-> FALSE,
              queued |-> <<>>, sent |-> 0, due |-> 0]

NoConnection == [sock |-> "unused", opener |-> None, onMessage |-> None, inbox |-> <<>>,
                 tx |-> None]

Init ==
    /\ sess = [s \in Clients |-> NoSession]
    /\ conn = [c \in Conns |-> NoConnection]
    /\ idle = {} /\ all = {} /\ opening = 0 /\ waiters = <<>> /\ cached = FALSE
    /\ poolRoute = 0 /\ route = 1
    /\ granted = [s \in Clients |-> None]
    /\ delivered = {}

\* No continuation is pending: the event loop may take its next event.
Quiet == \A s \in Clients : granted[s] = None

\* An object that nothing in the router refers to any more.
Unreferenced(c) ==
    /\ conn[c].sock \in {"unused", "closed"}
    /\ c \notin all /\ c \notin idle
    /\ \A s \in Clients : sess[s].holding # c /\ granted[s] # c

-----------------------------------------------------------------------------
(* The pool.  These operators constrain idle, all, opening, waiters,       *)
(* granted and conn; cs, gr and pool are what the caller made of the       *)
(* connections, the promises and the pool's collections so far.            *)

\* ServerConnection.send(): dropped when the connection is closed.
Sent(cs, c, qs) == IF cs[c].sock = "closed" THEN cs ELSE [cs EXCEPT ![c].inbox = @ \o qs]

\* A closed connection: what Postgres had in hand for it is gone.
Closed(r) == [NoConnection EXCEPT !.sock = "closed", !.onMessage = r.onMessage]

\* destroy() does not call onClose: whoever calls it looks after the pool.
Destroyed(cs, C) == [c \in Conns |-> IF c \in C THEN Closed(cs[c]) ELSE cs[c]]

Current == [idle |-> idle, all |-> all, waiters |-> waiters]
Emptied == [idle |-> {}, all |-> {}, waiters |-> <<>>]

\* open(), up to its await.
Open(s, cs) ==
    /\ opening' = opening + 1
    /\ \E c \in Conns :
          /\ Unreferenced(c)
          /\ conn' = [cs EXCEPT ![c] = [NoConnection EXCEPT
                          !.sock = "opening", !.opener = s]]

\* Mutant: connections under construction do not count.
HasCapacityIgnoringOpening(pool) == Cardinality(pool.all) < Size

HasCapacity(pool) == Cardinality(pool.all) + opening < Size

\* acquire(), called for session s: an idle connection, a new one, or a place in the queue.
\* The idle one it pops may turn out to be closed; it is then popped all the same.
Acquire(s, cs, pool) ==
    \/ \E c \in pool.idle :
          /\ cs[c].sock = "open"
          /\ granted' = [granted EXCEPT ![s] = c]
          /\ idle' = pool.idle \ {c} /\ all' = pool.all /\ waiters' = pool.waiters
          /\ conn' = cs
          /\ UNCHANGED opening
    \/ /\ \/ pool.idle = {} /\ idle' = {}
          \/ \E c \in pool.idle : cs[c].sock = "closed" /\ idle' = pool.idle \ {c}
       /\ all' = pool.all
       /\ UNCHANGED granted
       /\ \/ /\ HasCapacity(pool)
             /\ Open(s, cs)
             /\ waiters' = pool.waiters
          \/ /\ ~HasCapacity(pool)
             /\ waiters' = Append(pool.waiters, s)
             /\ conn' = cs
             /\ UNCHANGED opening

Release(c, cs, gr) ==
    LET closed == cs[c].sock = "closed"
        reset == IF ResetQuery THEN <<[from |-> None, opens |-> FALSE]>> ELSE <<>>
    IN /\ conn' = Sent([cs EXCEPT ![c].onMessage = None], c, reset)
       /\ \/ /\ closed
             /\ all' = all \ {c} /\ idle' = idle \ {c}
             /\ granted' = gr /\ UNCHANGED waiters
          \/ /\ ~closed /\ waiters # <<>>
             /\ granted' = [gr EXCEPT ![Head(waiters)] = c]
             /\ waiters' = Tail(waiters)
             /\ UNCHANGED <<idle, all>>
          \/ /\ ~closed /\ waiters = <<>>
             /\ idle' = idle \cup {c}
             /\ granted' = gr /\ UNCHANGED <<all, waiters>>
       /\ UNCHANGED opening

\* A session after its end; an acquire() of it may still be under way.
Gone(acquiring) == [NoSession EXCEPT !.phase = "closed", !.acquiring = acquiring]

\* Mutant: the client is not told.
RejectedSilently(r) ==
    IF r.phase = "login"
    THEN Gone(FALSE)
    ELSE [r EXCEPT !.acquiring = FALSE, !.queued = <<>>]

\* A session whose acquire() is rejected.  At login the client is turned away; later it gets
\* an error and a ReadyForQuery, and what it had queued is dropped.
Rejected(r) ==
    IF r.phase = "login"
    THEN Gone(FALSE)
    ELSE [r EXCEPT !.acquiring = FALSE, !.queued = <<>>,
                   !.due = IF @ = 0 THEN 0 ELSE @ - 1]

-----------------------------------------------------------------------------
(* Clients. *)

\* The startup packet: resolveRoute() reads the routing table.
Connect(s) ==
    /\ Quiet /\ sess[s].phase = "new"
    /\ sess' = [sess EXCEPT ![s].phase = "authenticating", ![s].seen = route]
    /\ UNCHANGED <<conn, poolVars, route, granted, delivered>>

AuthenticationFails(s) ==
    /\ Quiet /\ sess[s].phase = "authenticating"
    /\ sess' = [sess EXCEPT ![s] = Gone(FALSE)]
    /\ UNCHANGED <<conn, poolVars, route, granted, delivered>>

\* forRoute(): is the route the client resolved another one than the pool's?
RouteChanged(s) == poolRoute # 0 /\ sess[s].seen # poolRoute

\* SCRAM succeeded: forRoute(), then parameters().
Login(s) ==
    /\ Quiet /\ sess[s].phase = "authenticating"
    /\ poolRoute' = sess[s].seen
    /\ \/ /\ ~RouteChanged(s) /\ cached
          /\ sess' = [sess EXCEPT ![s].phase = "active"]
          /\ UNCHANGED <<conn, idle, all, opening, waiters, cached, granted>>
       \/ /\ ~RouteChanged(s) /\ ~cached
          /\ sess' = [sess EXCEPT ![s].phase = "login", ![s].acquiring = TRUE]
          /\ Acquire(s, conn, Current)
          /\ UNCHANGED cached
       \/ /\ RouteChanged(s)   \* drain()
          /\ LET ss == [t \in Clients |->
                          IF \E i \in 1..Len(waiters) : waiters[i] = t
                          THEN Rejected(sess[t]) ELSE sess[t]]
             IN sess' = [ss EXCEPT ![s].phase = "login", ![s].acquiring = TRUE]
          /\ cached' = FALSE
          /\ Acquire(s, Destroyed(conn, all), Emptied)
    /\ UNCHANGED <<route, delivered>>

\* pump(): to the connection, or to the queue and then acquire().
ClientSends(s, opens) ==
    /\ Quiet /\ sess[s].phase = "active"
    /\ sess[s].sent < MaxQueries
    /\ Pipelining \/ sess[s].due = 0
    /\ LET ss == [sess EXCEPT ![s].sent = @ + 1, ![s].due = @ + 1]
           c == sess[s].holding
       IN \/ /\ c # None
             /\ sess' = ss
             /\ conn' = Sent(conn, c, <<[from |-> s, opens |-> opens]>>)
             /\ UNCHANGED <<idle, all, opening, waiters, granted>>
          \/ /\ c = None /\ sess[s].acquiring
             /\ sess' = [ss EXCEPT ![s].queued = Append(@, opens)]
             /\ UNCHANGED <<conn, idle, all, opening, waiters, granted>>
          \/ /\ c = None /\ ~sess[s].acquiring
             /\ sess' = [ss EXCEPT ![s].queued = Append(@, opens), ![s].acquiring = TRUE]
             /\ Acquire(s, conn, Current)
    /\ UNCHANGED <<cached, poolRoute, route, delivered>>

\* Mutant: the connection goes back to the pool as it is.
LeavesReleasing(s) ==
    /\ Quiet /\ sess[s].phase = "active" /\ sess[s].holding # None
    /\ sess' = [sess EXCEPT ![s] = Gone(sess[s].acquiring)]
    /\ Release(sess[s].holding, conn, granted)
    /\ UNCHANGED <<cached, poolRoute, route, delivered>>

\* Terminate, a closed socket or a protocol error: teardown(), which discards.
ClientLeaves(s) ==
    /\ Quiet /\ sess[s].phase = "active"
    /\ sess' = [sess EXCEPT ![s] = Gone(sess[s].acquiring)]
    /\ LET c == sess[s].holding IN
       \/ /\ c = None
          /\ UNCHANGED <<conn, idle, all>>
       \/ /\ c # None
          /\ conn' = Destroyed([conn EXCEPT ![c].onMessage = None], {c})
          /\ all' = all \ {c} /\ idle' = idle \ {c}
    /\ UNCHANGED <<opening, waiters, cached, poolRoute, route, granted, delivered>>

-----------------------------------------------------------------------------
(* acquire() completes. *)

\* The continuation of the await: in parameters(), or in PooledSession.acquire().
Granted(s) ==
    LET c == granted[s]
        gr == [granted EXCEPT ![s] = None]
    IN /\ c # None
       /\ \/ /\ sess[s].phase = "login"
             /\ sess' = [sess EXCEPT ![s].phase = "active", ![s].acquiring = FALSE]
             /\ cached' = TRUE
             /\ Release(c, conn, gr)
          \/ /\ sess[s].phase = "closed"
             /\ sess' = [sess EXCEPT ![s].acquiring = FALSE]
             /\ Release(c, conn, gr)
             /\ UNCHANGED cached
          \/ /\ sess[s].phase = "active"
             /\ sess' = [sess EXCEPT ![s].holding = c, ![s].queued = <<>>, ![s].acquiring = FALSE]
             /\ conn' = Sent([conn EXCEPT ![c].onMessage = s], c,
                             [i \in DOMAIN sess[s].queued |->
                                [from |-> s, opens |-> sess[s].queued[i]]])
             /\ granted' = gr
             /\ UNCHANGED <<idle, all, opening, waiters, cached>>
       /\ UNCHANGED <<poolRoute, route, delivered>>

OpenSucceeds(c) ==
    /\ Quiet /\ conn[c].sock = "opening"
    /\ conn' = [conn EXCEPT ![c].sock = "open", ![c].opener = None]
    /\ all' = all \cup {c}
    /\ opening' = opening - 1
    /\ granted' = [granted EXCEPT ![conn[c].opener] = c]
    /\ UNCHANGED <<sess, idle, waiters, cached, poolRoute, route, delivered>>

\* Refused, timed out, or Postgres rejected the credentials.
OpenFails(c) ==
    /\ Quiet /\ conn[c].sock = "opening"
    /\ conn' = Destroyed(conn, {c})
    /\ opening' = opening - 1
    /\ sess' = [sess EXCEPT ![conn[c].opener] = Rejected(@)]
    /\ UNCHANGED <<idle, all, waiters, cached, poolRoute, route, granted, delivered>>

WaitTimesOut(s) ==
    /\ Quiet
    /\ \E i \in 1..Len(waiters) :
          /\ waiters[i] = s
          /\ waiters' = SubSeq(waiters, 1, i - 1) \o SubSeq(waiters, i + 1, Len(waiters))
    /\ sess' = [sess EXCEPT ![s] = Rejected(@)]
    /\ UNCHANGED <<conn, idle, all, opening, cached, poolRoute, route, granted, delivered>>

-----------------------------------------------------------------------------
(* Server connections. *)

\* The data handler of c runs: as an event, or still looping over the chunk that has just
\* released c to somebody.
Reading(c) == conn[c].sock = "open" /\ \A s \in Clients : granted[s] \in {None, c}

\* Mutant: any ReadyForQuery ends the client's turn.
FreesAlways(tx) == TRUE

\* Only an idle transaction status ends the client's turn.
Frees(tx) == tx = None

\* Postgres has answered the next query, up to ReadyForQuery: onServerMessage().  Its last
\* line acquires again for what is queued: nothing is, for a holder.
Answer(c) ==
    /\ Reading(c) /\ conn[c].inbox # <<>>
    /\ LET q == Head(conn[c].inbox)
           tx == IF q.opens THEN q.from ELSE None
           cs == [conn EXCEPT ![c].inbox = Tail(@), ![c].tx = tx]
           s == conn[c].onMessage
       IN \/ /\ s = None
             /\ conn' = cs
             /\ UNCHANGED <<sess, idle, all, opening, waiters, granted, delivered>>
          \/ /\ s # None
             /\ delivered' = delivered \cup {<<s, q.from>>}
             /\ LET answered == [sess EXCEPT ![s].due = IF @ = 0 THEN 0 ELSE @ - 1] IN
                \/ /\ Frees(tx)
                   /\ sess' = [answered EXCEPT ![s].holding = None]
                   /\ Release(c, cs, granted)
                \/ /\ ~Frees(tx)
                   /\ sess' = answered
                   /\ conn' = cs
                   /\ UNCHANGED <<idle, all, opening, waiters, granted>>
    /\ UNCHANGED <<cached, poolRoute, route>>

\* The socket closes or fails: onClose() takes it out of the pool, and tells nobody.
BackendCloses(c) ==
    /\ Faults /\ Quiet /\ conn[c].sock = "open"
    /\ conn' = Destroyed(conn, {c})
    /\ all' = all \ {c} /\ idle' = idle \ {c}
    /\ UNCHANGED <<sess, opening, waiters, cached, poolRoute, route, granted, delivered>>

\* A message that cannot be framed: destroy(), and the pool is not told.
BackendGarbles(c) ==
    /\ Faults /\ Reading(c)
    /\ conn' = Destroyed(conn, {c})
    /\ UNCHANGED <<sess, poolVars, route, granted, delivered>>

\* The idle timer: connections unused for too long, and closed ones.
SweepIdle ==
    /\ Quiet
    /\ \E old \in SUBSET idle :
          LET swept == old \cup {c \in idle : conn[c].sock = "closed"} IN
          /\ swept # {}
          /\ conn' = Destroyed(conn, swept)
          /\ idle' = idle \ swept /\ all' = all \ swept
    /\ UNCHANGED <<sess, opening, waiters, cached, poolRoute, route, granted, delivered>>

\* The control plane moved the project to another port, and refresh() has seen it.
RouteChanges ==
    /\ Faults /\ Quiet /\ route < MaxRoutes
    /\ route' = route + 1
    /\ UNCHANGED <<sess, conn, poolVars, granted, delivered>>

-----------------------------------------------------------------------------

Next ==
    \/ \E s \in Clients : \/ Connect(s) \/ AuthenticationFails(s) \/ Login(s)
                          \/ ClientLeaves(s) \/ Granted(s) \/ WaitTimesOut(s)
                          \/ \E opens \in BOOLEAN : ClientSends(s, opens)
    \/ \E c \in Conns : \/ OpenSucceeds(c) \/ OpenFails(c) \/ Answer(c)
                        \/ BackendCloses(c) \/ BackendGarbles(c)
    \/ SweepIdle
    \/ RouteChanges

Spec == Init /\ [][Next]_vars

(***************************************************************************)
(* Fairness: continuations run, timers fire, connection attempts end, and  *)
(* Postgres answers what it is asked.  Clients promise nothing.            *)
(***************************************************************************)
Fairness ==
    /\ \A s \in Clients : WF_vars(Granted(s)) /\ SF_vars(WaitTimesOut(s))
    /\ \A c \in Conns : SF_vars(OpenSucceeds(c) \/ OpenFails(c)) /\ SF_vars(Answer(c))

FairSpec == Spec /\ Fairness

-----------------------------------------------------------------------------
(* Safety. *)

\* The project never has more server connections than the pool size, those that are still
\* being opened and those handed from one client to the next included: this is what keeps
\* it under max_connections (pool.ts:26-29).
ServerConnectionsBounded ==
    Cardinality({c \in Conns : conn[c].sock \in {"opening", "open"}}) <= Size

\* Every answer is written to the client that asked.
AnswersReachTheirSender == \A d \in delivered : d[1] = d[2]

\* A transaction is in the hands of the client that opened it until it ends: nobody else's
\* query is sent on its connection (transaction.ts:316-319).
TransactionsAreExclusive ==
    \A c \in Conns : conn[c].sock = "open" /\ conn[c].tx # None =>
        /\ sess[conn[c].tx].holding = c
        /\ \A i \in 1..Len(conn[c].inbox) : conn[c].inbox[i].from = conn[c].tx

-----------------------------------------------------------------------------
(* Liveness. *)

\* A client is never left waiting for an answer: it gets the result, or an error when no
\* connection was to be had in time (transaction.ts:404-419).  The exception is the one that
\* the code has: the session is not told when the connection it holds breaks.
EveryQueryAnswered ==
    \A s \in Clients : sess[s].due > 0 ~>
        \/ sess[s].due = 0 \/ sess[s].phase = "closed"
        \/ sess[s].holding # None /\ conn[sess[s].holding].sock = "closed"
=============================================================================
