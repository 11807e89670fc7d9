----------------------------- MODULE RouterFront ----------------------------
(***************************************************************************)
(* The front of the router: the routing table (routes.ts, resolve.ts), the *)
(* login of both ports (session.ts, the first half of transaction.ts), the *)
(* framing of the backend's answer during login (framed.ts, protocol.ts)   *)
(* and the cancel registry (cancel.ts).  What a pooled session does after  *)
(* its login is module RouterPool.                                         *)
(*                                                                         *)
(* The router is one event loop: everything up to the next await is one    *)
(* step.  A protocol message is two units of the byte stream, so that a    *)
(* chunk can end inside one; what matters of a message is its kind.  The   *)
(* password of a project stands for its SCRAM exchange.                    *)
(***************************************************************************)
EXTENDS Integers, Sequences, FiniteSets

CONSTANTS
    Conns,       \* client connections, each used once
    Projects,    \* projects, which are also their refs
    Ports,       \* published ports
    None,        \* null: no port, no project
    Password,    \* the password of each project's primary role
    Tls,         \* is config.tls set?
    Requests,    \* what each client may ask for, with which password, on which port
    FirstRows,   \* the projects there are when the router starts
    MaxEvents    \* bound: changes the control plane makes, and backends that break

ASSUME NoneAssumption == None \notin Projects /\ None \notin Ports
ASSUME PasswordAssumption == DOMAIN Password = Projects
ASSUME RequestsAssumption ==
    \A c \in Conns : Requests[c] \subseteq
        [mode : {"session", "transaction"}, ref : Projects, tls : BOOLEAN,
         pw : {Password[p] : p \in Projects}]
ASSUME BoundsAssumption == Tls \in BOOLEAN /\ MaxEvents \in Nat

VARIABLES
    rows,     \* the control plane's projects table; its container listens when it is running
    table,    \* RouteStore.byRef
    recent,   \* was the table refreshed within the last 500 ms?
    conn,     \* the connections
    cancels,  \* CancelRegistry.entries: the connections whose key is registered
    pooled,   \* TransactionServer.sessions
    active,   \* SessionServer.stats.active
    known,    \* the port each pool learnt its cachedParameters from
    events    \* how many of MaxEvents have happened

vars == <<rows, table, recent, conn, cancels, pooled, active, known, events>>

Row == [state : {"absent", "running", "stopped"}, port : Ports \cup {None}]
NoRow == [state |-> "absent", port |-> None]

ASSUME FirstRowsAssumption == FirstRows \in [Projects -> Row]

Kinds == {"auth", "key", "ready", "row", "error"}

\* The bytes of a sequence of messages.
Units(ms) == [i \in 1..(2 * Len(ms)) |-> <<ms[(i + 1) \div 2], (i + 1) % 2>>]

Connection ==
    [phase : {"unused", "encrypting", "startup", "connecting", "login", "relay",
              "scram", "parameters", "pooled", "closed"},
     mode : {"session", "transaction"},
     ref : Projects \cup {None},         \* what the username or the SNI name says
     pw : {Password[p] : p \in Projects} \cup {None},  \* the password the client has
     tls : BOOLEAN,
     left : BOOLEAN,                     \* has the client gone?
     port : Ports \cup {None},           \* of the route that was resolved
     at : Projects \cup {None},          \* the project whose Postgres answered
     sent : Seq(Kinds),                  \* what the backend has sent
     over : BOOLEAN,                     \* has the backend closed its end?
     wire : Seq(Kinds \X {0, 1}),        \* on the way to the router
     buf : Seq(Kinds \X {0, 1}),         \* in the MessageReader
     out : Seq(Kinds \X {0, 1})]         \* written to the client

NoConnection ==
    [phase |-> "unused", mode |-> "session", ref |-> None, pw |-> None, tls |-> FALSE,
     left |-> FALSE, port |-> None, at |-> None, sent |-> <<>>, over |-> FALSE,
     wire |-> <<>>, buf |-> <<>>, out |-> <<>>]

TypeOK ==
    /\ rows \in [Projects -> Row] /\ table \in [Projects -> Row] /\ recent \in BOOLEAN
    /\ conn \in [Conns -> Connection]
    /\ cancels \subseteq Conns /\ pooled \subseteq Conns /\ active \in Nat
    /\ known \in [Projects -> Ports \cup {None}]
    /\ events \in 0..MaxEvents

\* The router starts, with a fresh table.
Init ==
    /\ rows = FirstRows /\ table = rows /\ recent = TRUE
    /\ conn = [c \in Conns |-> NoConnection]
    /\ cancels = {} /\ pooled = {} /\ active = 0
    /\ known = [p \in Projects |-> None]
    /\ events = 0

\* The project whose Postgres listens on a port, None when nothing does.
Listening(port) ==
    IF \E p \in Projects : rows[p].state = "running" /\ rows[p].port = port
    THEN CHOOSE p \in Projects : rows[p].state = "running" /\ rows[p].port = port
    ELSE None

-----------------------------------------------------------------------------
(* The control plane, as the router sees it.                               *)

\* A project is created or started, stopped, deleted; its port is free afterwards.
ControlPlane(p) ==
    /\ events < MaxEvents
    /\ events' = events + 1
    /\ \/ /\ rows[p].state = "absent"
          /\ \E port \in Ports :
                /\ \A q \in Projects : rows[q].port # port
                /\ rows' = [rows EXCEPT ![p] = [state |-> "running", port |-> port]]
       \/ /\ rows[p].state = "running"
          /\ rows' = [rows EXCEPT ![p].state = "stopped"]
       \/ /\ rows[p].state = "stopped"
          /\ rows' = [rows EXCEPT ![p].state = "running"]
       \/ /\ rows[p].state # "absent"
          /\ rows' = [rows EXCEPT ![p] = NoRow]
    /\ UNCHANGED <<table, recent, conn, cancels, pooled, active, known>>

\* refresh(), from the timer.
Refresh ==
    /\ table # rows
    /\ table' = rows /\ recent' = TRUE
    /\ UNCHANGED <<rows, conn, cancels, pooled, active, known, events>>

\* 500 ms pass after a refresh.
TableAges ==
    /\ recent
    /\ recent' = FALSE
    /\ UNCHANGED <<rows, table, conn, cancels, pooled, active, known, events>>

\* lookup(): the table the answer is taken from.  A miss refreshes, unless that was just done.
LookupTable(ref) == IF table[ref] = NoRow /\ ~ recent THEN rows ELSE table

\* assertRoutable(): what is not running is refused, a ref without a row too.
Routable(route) == route.state = "running"

-----------------------------------------------------------------------------
(* The end of a connection.                                                *)

\* A connection that is over: nothing of it is left.
Closed == [NoConnection EXCEPT !.phase = "closed"]

\* reject(), or the client is gone before anything was set up for it.
Refused(c) == conn' = [conn EXCEPT ![c] = Closed]

\* once() and teardown() of a session.
Teardown(c) ==
    /\ conn' = [conn EXCEPT ![c] = Closed]
    /\ cancels' = cancels \ {c}
    /\ active' = active - 1

\* An "error" event nobody listens to ends the process; it is started again.
Crash ==
    /\ conn' = [d \in Conns |->
                  IF conn[d].phase = "unused" THEN conn[d] ELSE Closed]
    /\ cancels' = {} /\ pooled' = {} /\ active' = 0
    /\ known' = [p \in Projects |-> None]
    /\ table' = rows /\ recent' = TRUE

-----------------------------------------------------------------------------
(* Startup and routing.                                                    *)

\* A client opens a connection; it asks for a project and has some project's password.
Connect(c, r) ==
    /\ conn[c].phase = "unused"
    /\ conn' = [conn EXCEPT ![c].phase = IF r.tls THEN "encrypting" ELSE "startup",
                            ![c].mode = r.mode, ![c].ref = r.ref, ![c].pw = r.pw]
    /\ UNCHANGED <<rows, table, recent, cancels, pooled, active, known, events>>

\* SSLRequest: answered, and the loop goes on with what the client sends next, over TLS
\* when there is a certificate.
RequestTls(c) ==
    /\ conn[c].phase = "encrypting"
    /\ conn' = [conn EXCEPT ![c].phase = "startup", ![c].tls = Tls]
    /\ UNCHANGED <<rows, table, recent, cancels, pooled, active, known, events>>

\* The StartupMessage: resolveRoute(), then the session waits for a backend, a pooled
\* one for the client's proof.
Startup(c) ==
    /\ conn[c].phase = "startup"
    /\ LET ref == conn[c].ref
           route == LookupTable(ref)[ref]
       IN /\ table' = LookupTable(ref)
          /\ recent' = (recent \/ table[ref] = NoRow)
          /\ \/ /\ ~ Routable(route)
                /\ Refused(c)
             \/ /\ Routable(route)
                /\ conn' = [conn EXCEPT ![c].port = route.port, ![c].phase =
                              IF conn[c].mode = "session" THEN "connecting" ELSE "scram"]
    /\ UNCHANGED <<rows, cancels, pooled, active, known, events>>

-----------------------------------------------------------------------------
(* Session mode.                                                           *)

\* connect() resolves: the startup packet goes to whatever listens there, and the client
\* is piped to it; or it is refused, or times out.
BackendConnects(c) ==
    /\ conn[c].phase = "connecting"
    /\ LET p == Listening(conn[c].port)
       IN \/ /\ p # None
             /\ conn' = [conn EXCEPT ![c].phase = "login", ![c].at = p]
             /\ active' = active + 1
          \/ /\ p = None
             /\ Refused(c)
             /\ UNCHANGED active
    /\ UNCHANGED <<rows, table, recent, cancels, pooled, known, events>>

\* What Postgres sends: a challenge; then, once the client has answered it, the key and
\* ReadyForQuery or an error; then the result of a query.
Answers(c) ==
    LET s == conn[c].sent IN
    CASE s = <<>> -> "auth"
      [] s = <<"auth">> -> IF conn[c].pw = Password[conn[c].at] THEN "key" ELSE "error"
      [] s = <<"auth", "key">> -> "ready"
      [] OTHER -> "row"

BackendSends(c) ==
    /\ conn[c].phase \in {"login", "relay"} /\ ~ conn[c].over
    /\ Len(conn[c].sent) < 4 /\ "error" \notin {conn[c].sent[i] : i \in 1..Len(conn[c].sent)}
    /\ conn[c].sent = <<"auth">> => Len(conn[c].out) = 2 /\ ~ conn[c].left
    /\ conn' = [conn EXCEPT ![c].sent = Append(@, Answers(c)),
                            ![c].wire = @ \o Units(<<Answers(c)>>)]
    /\ UNCHANGED <<rows, table, recent, cancels, pooled, active, known, events>>

\* The whole messages at the start of the reader's buffer: what next() can frame.
Framed(buf) == SubSeq(buf, 1, 2 * (Len(buf) \div 2))
Rest(buf) == SubSeq(buf, 2 * (Len(buf) \div 2) + 1, Len(buf))
Holds(units, kind) == \E i \in 1..Len(units) : units[i] = <<kind, 1>>

\* Mutant: what arrived behind ReadyForQuery is dropped with the reader.
DetachDrops(buf) ==
    SubSeq(buf, 1, CHOOSE i \in 1..Len(buf) : buf[i] = <<"ready", 1>>)

\* detach(): the messages up to ReadyForQuery were written, what is buffered follows.
Detached(buf) == buf

\* A chunk arrives from the backend (one unit, or all that is on the way): in login it is framed
\* until ReadyForQuery, and each message is written to the client; afterwards it is piped.
Chunk(c, n) ==
    /\ conn[c].wire # <<>>
    /\ LET chunk == SubSeq(conn[c].wire, 1, n)
           buf == conn[c].buf \o chunk
           ready == Holds(buf, "ready")
           read == [conn EXCEPT ![c].wire = SubSeq(@, n + 1, Len(@))]
       IN \/ /\ conn[c].phase = "login"
             /\ conn' = [read EXCEPT
                           ![c].phase = IF ready THEN "relay" ELSE "login",
                           ![c].out = @ \o (IF ready THEN Detached(buf) ELSE Framed(buf)),
                           ![c].buf = IF ready THEN <<>> ELSE Rest(buf)]
             /\ cancels' = IF Holds(buf, "key") THEN cancels \cup {c} ELSE cancels
          \/ /\ conn[c].phase = "relay"
             /\ conn' = [read EXCEPT ![c].out = @ \o chunk]
             /\ UNCHANGED cancels
    /\ UNCHANGED <<rows, table, recent, pooled, active, known, events>>

\* Postgres closes its end: it refused the client, saw it leave (or waited for it in vain),
\* or its container is gone.
BackendCloses(c) ==
    /\ conn[c].phase \in {"login", "relay"} /\ ~ conn[c].over
    /\ \/ conn[c].sent = <<"auth", "error">>
       \/ conn[c].left
       \/ rows[conn[c].at].state # "running"
    /\ conn' = [conn EXCEPT ![c].over = TRUE]
    /\ UNCHANGED <<rows, table, recent, cancels, pooled, active, known, events>>

\* The connection to the backend breaks: what is on the way is lost.
BackendBreaks(c) ==
    /\ events < MaxEvents /\ events' = events + 1
    /\ conn[c].phase \in {"login", "relay"}
    /\ Teardown(c)
    /\ UNCHANGED <<rows, table, recent, pooled, known>>

\* Mutant: only a session in relay is taken down.
BackendEndsInRelay(c) ==
    /\ conn[c].phase = "relay" /\ conn[c].over /\ conn[c].wire = <<>>
    /\ Teardown(c)
    /\ UNCHANGED <<rows, table, recent, pooled, known, events>>

\* "end" after all data: the loop ends when it is still in login, then once().
BackendEnds(c) ==
    /\ conn[c].phase \in {"login", "relay"} /\ conn[c].over /\ conn[c].wire = <<>>
    /\ Teardown(c)
    /\ UNCHANGED <<rows, table, recent, pooled, known, events>>

-----------------------------------------------------------------------------
(* Transaction mode.                                                       *)

\* Mutant: any proof is accepted.
VerifiesNothing(c) == TRUE

\* ScramServer: the proof has to be made with the password of the route.
Verifies(c) == conn[c].pw = Password[conn[c].ref]

\* authenticateClient() ends, and pools.forRoute() forgets what it knew of another port.
Authenticate(c) ==
    /\ conn[c].phase = "scram"
    /\ \/ /\ Verifies(c)
          /\ conn' = [conn EXCEPT ![c].phase = "parameters"]
          /\ known' = [known EXCEPT ![conn[c].ref] = IF @ = conn[c].port THEN @ ELSE None]
       \/ /\ ~ Verifies(c)
          /\ Refused(c)
          /\ UNCHANGED known
    /\ UNCHANGED <<rows, table, recent, cancels, pooled, active, events>>

\* ScramClient: the pool's connection opens when both ends know the project's password.
Opens(ref, p) == p # None /\ Password[p] = Password[ref]

\* pool.parameters() resolves; the session is started for a client that may be gone.
Parameters(c) ==
    LET ref == conn[c].ref
        p == Listening(conn[c].port)
    IN /\ conn[c].phase = "parameters"
       /\ \/ /\ known[ref] # None \/ Opens(ref, p)
             /\ conn' = [conn EXCEPT ![c].phase = "pooled",
                                     ![c].at = IF known[ref] = None THEN p ELSE None]
             /\ known' = [known EXCEPT ![ref] = IF @ = None THEN conn[c].port ELSE @]
             /\ pooled' = pooled \cup {c}
          \/ /\ known[ref] = None /\ ~ Opens(ref, p)
             /\ Refused(c)
             /\ UNCHANGED <<known, pooled>>
       /\ UNCHANGED <<rows, table, recent, cancels, active, events>>

-----------------------------------------------------------------------------
(* The client goes.                                                        *)

\* It closes its end.  Before the startup packet, during SCRAM and in a running session
\* the router notices; elsewhere nobody waits for it.
ClientCloses(c) ==
    /\ conn[c].phase \notin {"unused", "closed"} /\ ~ conn[c].left
    /\ \/ /\ conn[c].phase \in {"encrypting", "startup", "scram"}
          /\ conn' = [conn EXCEPT ![c] = Closed]
          /\ UNCHANGED <<cancels, pooled, active>>
       \/ /\ conn[c].phase \in {"connecting", "parameters", "login"}
          /\ conn' = [conn EXCEPT ![c].left = TRUE]
          /\ UNCHANGED <<cancels, pooled, active>>
       \/ /\ conn[c].phase = "relay"
          /\ Teardown(c)
          /\ UNCHANGED pooled
       \/ /\ conn[c].phase = "pooled"
          /\ conn' = [conn EXCEPT ![c] = Closed]
          /\ pooled' = pooled \ {c}
          /\ UNCHANGED <<cancels, active>>
    /\ UNCHANGED <<rows, table, recent, known, events>>

\* Its connection breaks during login: the FramedStream is detached, the handlers are not
\* attached yet.  A TLS socket still has the handler of its handshake.
ClientBreaks(c) ==
    /\ conn[c].phase = "login" /\ ~ conn[c].left
    /\ \/ /\ conn[c].tls
          /\ conn' = [conn EXCEPT ![c].left = TRUE]
          /\ UNCHANGED <<table, recent, cancels, pooled, active, known>>
       \/ /\ ~ conn[c].tls
          /\ Crash
    /\ UNCHANGED <<rows, events>>

-----------------------------------------------------------------------------
Router(c) ==
    \/ Startup(c) \/ BackendConnects(c) \/ BackendEnds(c)
    \/ Authenticate(c) \/ Parameters(c)
    \/ \E n \in {1, Len(conn[c].wire)} : Chunk(c, n)

Next ==
    \/ \E p \in Projects : ControlPlane(p)
    \/ Refresh \/ TableAges
    \/ \E c \in Conns :
          \/ \E r \in Requests[c] : Connect(c, r)
          \/ RequestTls(c)
          \/ Router(c)
          \/ BackendSends(c) \/ BackendCloses(c) \/ BackendBreaks(c)
          \/ ClientCloses(c) \/ ClientBreaks(c)

\* The event loop goes on, and so does Postgres: it answers, and it closes a connection
\* whose client has gone.  Clients and the control plane may do nothing.
Fairness ==
    \A c \in Conns :
        /\ WF_vars(Router(c))
        /\ WF_vars(BackendSends(c)) /\ WF_vars(BackendCloses(c))

Spec == Init /\ [][Next]_vars
FairSpec == Spec /\ Fairness

-----------------------------------------------------------------------------
(* Properties                                                              *)

\* Framing loses, repeats and reorders nothing, wherever a chunk ends: what the client has
\* been sent, what is buffered and what is on the way are exactly what Postgres sent
\* (FramedStream.detach(), MessageReader.next()).
BytesInOrder ==
    \A c \in Conns : conn[c].phase \in {"login", "relay"} =>
        conn[c].out \o conn[c].buf \o conn[c].wire = Units(conn[c].sent)

\* With a table that is behind the control plane, and a port that has found a new owner,
\* nobody ends up in a database whose password he does not have: in session mode Postgres
\* sees to it, in transaction mode two SCRAM exchanges that the router takes part in.
AdmittedByPassword ==
    \A c \in Conns : conn[c].phase \in {"relay", "pooled"} /\ conn[c].at # None =>
        conn[c].pw = Password[conn[c].at]

\* A session whose client has gone is taken down, at every point of its login, and so is
\* one that its database has closed.
SessionsEnd ==
    \A c \in Conns :
        conn[c].mode = "session" /\ (conn[c].left \/ conn[c].over) ~> conn[c].phase = "closed"
=============================================================================
