------------------------- MODULE RouterFrontProofs -------------------------
(***************************************************************************)
(* Proofs about RouterFront: its types with the count of running sessions, *)
(* that framing loses and reorders nothing wherever chunks end, and that   *)
(* nobody is let into a database whose password he does not have.          *)
(***************************************************************************)
EXTENDS RouterFront, SequenceTheorems, FiniteSetTheorems, TLAPS

Unit == Kinds \X {0, 1}

Streams(r) == r.phase \in {"login", "relay"}

\* The client knows the password of the Postgres that answers.
Admitted(r) == r.pw = Password[r.at]

\* What Postgres may have said so far: no key without the password.
Said(r) ==
    \/ r.sent \in {<<>>, <<"auth">>, <<"auth", "error">>}
    \/ /\ Admitted(r)
       /\ r.sent \in {<<"auth", "key">>, <<"auth", "key", "ready">>,
                      <<"auth", "key", "ready", "row">>}

InOrder(r) == r.out \o r.buf \o r.wire = Units(r.sent)

Good(r) ==
    /\ r.phase \notin {"unused", "closed"} => r.ref \in Projects
    /\ ~ Streams(r) => r.sent = <<>> /\ r.wire = <<>> /\ r.buf = <<>> /\ r.out = <<>>
    /\ Streams(r) => r.at \in Projects /\ Said(r) /\ InOrder(r)
    /\ r.phase = "relay" => Admitted(r) /\ r.buf = <<>>
    /\ r.phase \in {"parameters", "pooled"} => r.pw = Password[r.ref]
    /\ r.phase = "pooled" /\ r.at # None => Password[r.at] = Password[r.ref]

ConnsInv == conn \in [Conns -> Connection] /\ \A c \in Conns : Good(conn[c])

\* stats.active counts the sessions that are running.
Sessions == {c \in Conns : Streams(conn[c])}
ActiveInv == IsFiniteSet(Sessions) /\ active = Cardinality(Sessions)

-----------------------------------------------------------------------------
(* Bytes. *)

LEMMA UnitAt ==
    ASSUME NEW s \in Seq(Kinds), NEW i \in 1..(2 * Len(s))
    PROVE  (i + 1) \div 2 \in 1..Len(s) /\ (i + 1) % 2 \in {0, 1}
  <1>1. Len(s) \in Nat
    BY LenProperties
  <1>2. PICK n \in Nat : n = Len(s)
    BY <1>1
  <1>3. i \in Nat /\ i >= 1 /\ i <= 2 * n
    BY <1>2
  <1>4. (i + 1) \div 2 >= 1 /\ (i + 1) \div 2 <= n /\ (i + 1) \div 2 \in Int
    BY <1>2, <1>3
  <1>5. (i + 1) % 2 \in {0, 1}
    BY <1>3
  <1> QED  BY <1>2, <1>4, <1>5

LEMMA UnitsTyped ==
    ASSUME NEW s \in Seq(Kinds)
    PROVE  Units(s) \in Seq(Unit) /\ Len(Units(s)) = 2 * Len(s)
  <1>1. Len(s) \in Nat /\ \A k \in 1..Len(s) : s[k] \in Kinds
    BY LenProperties, ElementOfSeq
  <1>2. \A i \in 1..(2 * Len(s)) : <<s[(i + 1) \div 2], (i + 1) % 2>> \in Unit
    BY <1>1, UnitAt DEF Unit
  <1>3. Units(s) \in [1..(2 * Len(s)) -> Unit]
    BY <1>2 DEF Units
  <1>4. 2 * Len(s) \in Nat
    BY <1>1
  <1>5. Units(s) \in Seq(Unit)
    BY <1>3, <1>4, SeqDef
  <1> QED  BY <1>3, <1>4, <1>5, LenProperties

\* What Postgres sends is appended to what it has sent, unit by unit.
LEMMA UnitsAppend ==
    ASSUME NEW s \in Seq(Kinds), NEW k \in Kinds
    PROVE  Units(Append(s, k)) = Units(s) \o Units(<<k>>)
  <1> DEFINE t == Append(s, k)
             u == Units(s) \o Units(<<k>>)
  <1> HIDE DEF t, u
  <1>1. PICK n \in Nat : n = Len(s)
    BY LenProperties
  <1>2. /\ t \in Seq(Kinds) /\ Len(t) = n + 1 /\ t[n + 1] = k
        /\ \A i \in 1..n : t[i] = s[i]
    BY <1>1, AppendProperties DEF t
  <1>3. <<k>> \in Seq(Kinds) /\ Len(<<k>>) = 1 /\ <<k>>[1] = k
    OBVIOUS
  <1>4. /\ Units(t) \in Seq(Unit) /\ Len(Units(t)) = 2 * (n + 1)
        /\ Units(s) \in Seq(Unit) /\ Len(Units(s)) = 2 * n
        /\ Units(<<k>>) \in Seq(Unit) /\ Len(Units(<<k>>)) = 2
    <2>1. Units(t) \in Seq(Unit) /\ Len(Units(t)) = 2 * Len(t)
      BY <1>2, UnitsTyped
    <2>2. Units(s) \in Seq(Unit) /\ Len(Units(s)) = 2 * Len(s)
      BY UnitsTyped
    <2>3. Units(<<k>>) \in Seq(Unit) /\ Len(Units(<<k>>)) = 2 * Len(<<k>>)
      BY <1>3, UnitsTyped
    <2>4. 2 * Len(<<k>>) = 2
      BY <1>3
    <2>5. Len(Units(s)) = 2 * n /\ Len(Units(t)) = 2 * (n + 1)
      BY <1>1, <1>2, <2>1, <2>2
    <2> QED  BY <2>1, <2>2, <2>3, <2>4, <2>5
  <1>5. /\ u \in Seq(Unit) /\ Len(u) = 2 * n + 2
        /\ \A i \in 1..(2 * n) : u[i] = Units(s)[i]
        /\ \A i \in (2 * n + 1)..(2 * n + 2) : u[i] = Units(<<k>>)[i - 2 * n]
    <2>1. /\ u \in Seq(Unit) /\ Len(u) = Len(Units(s)) + Len(Units(<<k>>))
          /\ \A i \in 1..(Len(Units(s)) + Len(Units(<<k>>))) :
                u[i] = IF i <= Len(Units(s)) THEN Units(s)[i] ELSE Units(<<k>>)[i - Len(Units(s))]
      <3>1. Units(s) \in Seq(Unit) /\ Units(<<k>>) \in Seq(Unit)
        BY <1>4
      <3> QED  BY <3>1, ConcatProperties DEF u
    <2>2. Len(Units(s)) = 2 * n /\ Len(Units(<<k>>)) = 2
      BY <1>4
    <2>3. \A i \in 1..(2 * n + 2) :
             u[i] = IF i <= 2 * n THEN Units(s)[i] ELSE Units(<<k>>)[i - 2 * n]
      BY <2>1, <2>2
    <2>4. ASSUME NEW i \in 1..(2 * n) PROVE u[i] = Units(s)[i]
      BY <2>3
    <2>5. ASSUME NEW i \in (2 * n + 1)..(2 * n + 2) PROVE u[i] = Units(<<k>>)[i - 2 * n]
      <3>1. i \in 1..(2 * n + 2) /\ ~ (i <= 2 * n)
        OBVIOUS
      <3> QED  BY <2>3, <3>1
    <2>6. Len(u) = 2 * n + 2
      BY <2>1, <2>2
    <2> QED  BY <2>1, <2>4, <2>5, <2>6
  <1>6. ASSUME NEW i \in 1..(2 * (n + 1)) PROVE Units(t)[i] = u[i]
    <2>1. Units(t)[i] = <<t[(i + 1) \div 2], (i + 1) % 2>>
      BY <1>2 DEF Units
    <2>2. CASE i <= 2 * n
      <3>1. i \in 1..(2 * n)
        BY <2>2
      <3>2. (i + 1) \div 2 \in 1..n
        BY <1>1, <3>1, UnitAt
      <3>3. Units(s)[i] = <<s[(i + 1) \div 2], (i + 1) % 2>>
        BY <1>1, <3>1 DEF Units
      <3> QED  BY <1>2, <1>5, <2>1, <3>1, <3>2, <3>3
    <2>3. CASE i > 2 * n
      <3>1. PICK m \in 1..2 : i = 2 * n + m
        <4>1. i - 2 * n \in 1..2
          BY <2>3
        <4> QED  BY <4>1
      <3>2. u[i] = Units(<<k>>)[m]
        <4>1. i \in (2 * n + 1)..(2 * n + 2) /\ i - 2 * n = m
          BY <3>1
        <4> QED  BY <1>5, <4>1
      <3>3. (m + 1) \div 2 = 1 /\ (i + 1) \div 2 = n + 1 /\ (i + 1) % 2 = (m + 1) % 2
        BY <3>1
      <3>4. Units(<<k>>)[m] = <<k, (m + 1) % 2>>
        BY <1>3, <3>3 DEF Units
      <3> QED  BY <1>2, <2>1, <3>2, <3>3, <3>4
    <2>4. i \in Int /\ n \in Int
      OBVIOUS
    <2> QED  BY <2>2, <2>3, <2>4
  <1>7. Units(t) = u
    BY <1>4, <1>5, <1>6, SeqEqual
  <1> QED  BY <1>7 DEF t, u

LEMMA SplitSeq ==
    ASSUME NEW s \in Seq(Unit), NEW n \in 0..Len(s)
    PROVE  /\ SubSeq(s, 1, n) \in Seq(Unit) /\ SubSeq(s, n + 1, Len(s)) \in Seq(Unit)
           /\ SubSeq(s, 1, n) \o SubSeq(s, n + 1, Len(s)) = s
  <1>1. Len(s) \in Nat /\ \A i \in 1..Len(s) : s[i] \in Unit
    BY LenProperties, ElementOfSeq
  <1>2. SubSeq(s, 1, n) \in Seq(Unit)
    BY <1>1, SubSeqProperties
  <1>3. SubSeq(s, n + 1, Len(s)) \in Seq(Unit)
    BY <1>1, SubSeqProperties
  <1>4. SubSeq(s, 1, n) \o SubSeq(s, n + 1, Len(s)) = SubSeq(s, 1, Len(s))
    <2>1. 1 \in 1..Len(s) + 1 /\ n \in 1 - 1..Len(s) /\ Len(s) \in n..Len(s)
      BY <1>1
    <2> QED  BY <2>1, ConcatAdjacentSubSeq
  <1> QED  BY <1>2, <1>3, <1>4, SubSeqFull

\* What is framed and what is left of a buffer are the buffer.
LEMMA FramedAndRest ==
    ASSUME NEW s \in Seq(Unit)
    PROVE  Framed(s) \in Seq(Unit) /\ Rest(s) \in Seq(Unit) /\ Framed(s) \o Rest(s) = s
  <1>1. PICK n \in Nat : n = Len(s)
    BY LenProperties
  <1>2. 2 * (n \div 2) \in 0..n
    OBVIOUS
  <1> QED  BY <1>1, <1>2, SplitSeq DEF Framed, Rest

\* Every unit of a part of the stream is a unit of a message that was sent.
LEMMA PartOfUnits ==
    ASSUME NEW s \in Seq(Kinds), NEW a \in Seq(Unit), NEW b \in Seq(Unit), NEW d \in Seq(Unit),
           a \o b \o d = Units(s), NEW k, Holds(b, k)
    PROVE  \E m \in 1..Len(s) : s[m] = k
  <1>1. PICK i \in 1..Len(b) : b[i] = <<k, 1>>
    BY DEF Holds
  <1>2. /\ a \o b \in Seq(Unit) /\ Len(a \o b) = Len(a) + Len(b)
        /\ \A j \in 1..Len(a) + Len(b) : (a \o b)[j] = IF j <= Len(a) THEN a[j] ELSE b[j - Len(a)]
    BY ConcatProperties
  <1>3. /\ Len(a \o b \o d) = Len(a \o b) + Len(d)
        /\ \A j \in 1..Len(a \o b) + Len(d) :
              (a \o b \o d)[j] = IF j <= Len(a \o b) THEN (a \o b)[j] ELSE d[j - Len(a \o b)]
    BY <1>2, ConcatProperties, SMTT(30)
  <1>4. PICK la \in Nat, lb \in Nat, ld \in Nat : la = Len(a) /\ lb = Len(b) /\ ld = Len(d)
    BY LenProperties
  <1>5. PICK j \in Int : j = la + i
    BY <1>4
  <1>6. j \in 1..(la + lb) /\ ~ (j <= la) /\ j - la = i /\ j \in 1..(la + lb + ld)
    BY <1>1, <1>4, <1>5
  <1>7. (a \o b)[j] = b[i]
    BY <1>2, <1>4, <1>6
  <1>8. (a \o b \o d)[j] = b[i]
    BY <1>2, <1>3, <1>4, <1>6, <1>7
  <1>9. Len(Units(s)) = 2 * Len(s) /\ j \in 1..(2 * Len(s))
    BY <1>2, <1>3, <1>4, <1>6, UnitsTyped
  <1>10. Units(s)[j] = <<s[(j + 1) \div 2], (j + 1) % 2>>
    BY <1>9 DEF Units
  <1>11. s[(j + 1) \div 2] = k
    BY <1>1, <1>8, <1>10
  <1> QED  BY <1>9, <1>11, UnitAt

-----------------------------------------------------------------------------
(* Connections. *)

\* A connection that is over, or not yet begun.
LEMMA Ended ==
    /\ NoConnection \in Connection /\ Closed \in Connection
    /\ Good(NoConnection) /\ Good(Closed) /\ ~ Streams(NoConnection) /\ ~ Streams(Closed)
  <1>1. /\ NoConnection \in Connection /\ Closed \in Connection
        /\ Closed.phase = "closed"
        /\ Closed.sent = <<>> /\ Closed.wire = <<>> /\ Closed.buf = <<>> /\ Closed.out = <<>>
    <2>1. <<>> \in Seq(Kinds) /\ <<>> \in Seq(Kinds \X {0, 1})
      BY EmptySeq
    <2> QED  BY <2>1 DEF NoConnection, Closed, Connection
  <1>2. /\ NoConnection.phase = "unused" /\ NoConnection.sent = <<>> /\ NoConnection.wire = <<>>
        /\ NoConnection.buf = <<>> /\ NoConnection.out = <<>>
    BY DEF NoConnection
  <1> HIDE DEF NoConnection, Closed
  <1> QED  BY <1>1, <1>2 DEF Good, Streams

\* A step of one connection, and what it does to the count.
LEMMA OneConnection ==
    ASSUME ConnsInv, NEW c \in Conns, NEW r \in Connection, Good(r),
           conn' = [conn EXCEPT ![c] = r]
    PROVE  ConnsInv'
  BY DEF ConnsInv

LEMMA SessionsKept ==
    ASSUME ConnsInv, ActiveInv, NEW c \in Conns, NEW r, Streams(r) <=> Streams(conn[c]),
           conn' = [conn EXCEPT ![c] = r], active' = active
    PROVE  ActiveInv'
  <1>1. conn'[c] = r /\ \A d \in Conns : d # c => conn'[d] = conn[d]
    BY DEF ConnsInv
  <1>2. Sessions' = Sessions
    BY <1>1 DEF Sessions
  <1> QED  BY <1>2 DEF ActiveInv

LEMMA SessionsAdded ==
    ASSUME ConnsInv, ActiveInv, NEW c \in Conns, NEW r, Streams(r), ~ Streams(conn[c]),
           conn' = [conn EXCEPT ![c] = r], active' = active + 1
    PROVE  ActiveInv'
  <1>1. conn'[c] = r /\ \A d \in Conns : d # c => conn'[d] = conn[d]
    BY DEF ConnsInv
  <1>2. Sessions' = Sessions \cup {c} /\ c \notin Sessions
    BY <1>1 DEF Sessions
  <1> QED  BY <1>2, FS_AddElement DEF ActiveInv

LEMMA SessionsRemoved ==
    ASSUME ConnsInv, ActiveInv, NEW c \in Conns, Streams(conn[c]), Teardown(c)
    PROVE  ActiveInv'
  <1>1. conn'[c] = Closed /\ \A d \in Conns : d # c => conn'[d] = conn[d]
    BY DEF ConnsInv, Teardown
  <1>2. Sessions' = Sessions \ {c} /\ c \in Sessions
    BY <1>1, Ended DEF Sessions
  <1> QED  BY <1>2, FS_RemoveElement DEF ActiveInv, Teardown

LEMMA TeardownKeeps ==
    ASSUME ConnsInv, ActiveInv, NEW c \in Conns, Streams(conn[c]), Teardown(c)
    PROVE  ConnsInv' /\ ActiveInv'
  BY Ended, OneConnection, SessionsRemoved DEF Teardown

LEMMA RefusedKeeps ==
    ASSUME ConnsInv, ActiveInv, NEW c \in Conns, ~ Streams(conn[c]), Refused(c), active' = active
    PROVE  ConnsInv' /\ ActiveInv'
  BY Ended, OneConnection, SessionsKept DEF Refused

LEMMA ConnectKeeps ==
    ASSUME ConnsInv, ActiveInv, NEW c \in Conns, NEW r \in Requests[c], Connect(c, r)
    PROVE  ConnsInv' /\ ActiveInv'
  <1> DEFINE x == [conn[c] EXCEPT !.phase = IF r.tls THEN "encrypting" ELSE "startup",
                                  !.mode = r.mode, !.ref = r.ref, !.pw = r.pw]
  <1>1. conn[c] \in Connection /\ Good(conn[c]) /\ conn[c].phase = "unused"
    BY DEF ConnsInv, Connect
  <1>2. r.mode \in {"session", "transaction"} /\ r.ref \in Projects /\ r.pw \in {Password[p] : p \in Projects}
    BY RequestsAssumption
  <1>3. /\ x \in Connection /\ x.phase \in {"encrypting", "startup"} /\ x.ref = r.ref
        /\ x.sent = conn[c].sent /\ x.wire = conn[c].wire /\ x.buf = conn[c].buf
        /\ x.out = conn[c].out
    BY <1>1, <1>2, ZenonT(60) DEF Connection
  <1>4. conn' = [conn EXCEPT ![c] = x]
    BY DEF Connect
  <1> HIDE DEF x
  <1>5. Good(x) /\ ~ Streams(x) /\ ~ Streams(conn[c])
    BY <1>1, <1>2, <1>3 DEF Good, Streams
  <1>6. active' = active
    BY DEF Connect
  <1> QED  BY <1>3, <1>4, <1>5, <1>6, OneConnection, SessionsKept

\* A phase, and what goes with it, of a connection that streams nothing.
LEMMA Steps ==
    ASSUME ConnsInv, ActiveInv, NEW c \in Conns, NEW x \in Connection,
           ~ Streams(conn[c]), ~ Streams(x), conn[c].phase \notin {"unused", "closed"},
           x.ref = conn[c].ref, x.sent = conn[c].sent, x.wire = conn[c].wire,
           x.buf = conn[c].buf, x.out = conn[c].out,
           x.phase \in {"parameters", "pooled"} => x.pw = Password[x.ref],
           x.phase = "pooled" /\ x.at # None => Password[x.at] = Password[x.ref],
           conn' = [conn EXCEPT ![c] = x], active' = active
    PROVE  ConnsInv' /\ ActiveInv'
  <1>1. Good(conn[c])
    BY DEF ConnsInv
  <1>2. Good(x)
    BY <1>1 DEF Good, Streams
  <1> QED  BY <1>2, OneConnection, SessionsKept

LEMMA StartupKeeps ==
    ASSUME ConnsInv, ActiveInv, table \in [Projects -> Row], rows \in [Projects -> Row],
           NEW c \in Conns, RequestTls(c) \/ Startup(c)
    PROVE  ConnsInv' /\ ActiveInv'
  <1>1. conn[c] \in Connection /\ Good(conn[c])
    BY DEF ConnsInv
  <1>2. CASE RequestTls(c)
    <2> DEFINE x == [conn[c] EXCEPT !.phase = "startup", !.tls = Tls]
    <2>1. conn' = [conn EXCEPT ![c] = x] /\ conn[c].phase = "encrypting" /\ active' = active
      BY <1>2 DEF RequestTls
    <2>2. /\ x \in Connection /\ x.phase = "startup" /\ x.ref = conn[c].ref
          /\ x.sent = conn[c].sent /\ x.wire = conn[c].wire /\ x.buf = conn[c].buf
          /\ x.out = conn[c].out
      BY <1>1, BoundsAssumption, ZenonT(60) DEF Connection
    <2> HIDE DEF x
    <2> QED  BY <2>1, <2>2, Steps DEF Streams
  <1>3. CASE Startup(c)
    <2> DEFINE route == LookupTable(conn[c].ref)[conn[c].ref]
               next == IF conn[c].mode = "session" THEN "connecting" ELSE "scram"
               x == [conn[c] EXCEPT !.port = route.port, !.phase = next]
    <2>1. conn[c].phase = "startup" /\ active' = active /\ conn[c].ref \in Projects
      BY <1>1, <1>3 DEF Startup, Good
    <2>2. Refused(c) \/ conn' = [conn EXCEPT ![c] = x]
      BY <1>3 DEF Startup
    <2>3. route.port \in Ports \cup {None}
      BY <2>1 DEF LookupTable, Row
    <2>5. next \in {"connecting", "scram"}
      OBVIOUS
    <2> HIDE DEF route, next
    <2>4. /\ x \in Connection /\ x.phase \in {"connecting", "scram"} /\ x.ref = conn[c].ref
          /\ x.sent = conn[c].sent /\ x.wire = conn[c].wire /\ x.buf = conn[c].buf
          /\ x.out = conn[c].out
      BY <1>1, <2>3, <2>5 DEF Connection
    <2> HIDE DEF x
    <2> QED  BY <2>1, <2>2, <2>4, Steps, RefusedKeeps DEF Streams
  <1> QED  BY <1>2, <1>3

LEMMA ListeningTyped == \A port : Listening(port) \in Projects \cup {None}
  BY DEF Listening

LEMMA BackendConnectsKeeps ==
    ASSUME ConnsInv, ActiveInv, NEW c \in Conns, BackendConnects(c)
    PROVE  ConnsInv' /\ ActiveInv'
  <1> DEFINE p == Listening(conn[c].port)
             x == [conn[c] EXCEPT !.phase = "login", !.at = p]
  <1>1. conn[c] \in Connection /\ Good(conn[c]) /\ conn[c].phase = "connecting" /\ ~ Streams(conn[c])
    BY DEF ConnsInv, BackendConnects, Streams
  <1>2. CASE p = None
    BY <1>1, <1>2, RefusedKeeps DEF BackendConnects
  <1>3. CASE p # None
    <2>1. p \in Projects
      BY <1>3, ListeningTyped
    <2>2. conn' = [conn EXCEPT ![c] = x] /\ active' = active + 1
      BY <1>3 DEF BackendConnects
    <2>3. /\ x \in Connection /\ x.phase = "login" /\ x.at = p /\ x.ref = conn[c].ref
          /\ x.sent = conn[c].sent /\ x.wire = conn[c].wire /\ x.buf = conn[c].buf
          /\ x.out = conn[c].out
      BY <1>1, <2>1 DEF Connection
    <2> HIDE DEF x, p
    <2>4. x.sent = <<>> /\ x.wire = <<>> /\ x.buf = <<>> /\ x.out = <<>>
      BY <1>1, <2>3 DEF Good
    <2>5. InOrder(x)
      <3>1. <<>> \in Seq(Unit) /\ <<>> \in Seq(Kinds) /\ Len(<<>>) = 0
        BY EmptySeq
      <3>2. Units(<<>>) = <<>>
        <4>1. Units(<<>>) \in Seq(Unit) /\ Len(Units(<<>>)) = 2 * Len(<<>>)
          BY <3>1, UnitsTyped
        <4>2. Len(Units(<<>>)) = 0
          BY <3>1, <4>1
        <4> QED  BY <4>1, <4>2, EmptySeq
      <3>3. <<>> \o <<>> \o <<>> = <<>>
        BY <3>1, ConcatEmptySeq
      <3> QED  BY <2>4, <3>2, <3>3 DEF InOrder
    <2>6. Good(x) /\ Streams(x)
      BY <1>1, <2>1, <2>3, <2>4, <2>5 DEF Good, Streams, Said
    <2> QED  BY <1>1, <2>2, <2>3, <2>6, OneConnection, SessionsAdded
  <1> QED  BY <1>2, <1>3

LEMMA Longer ==
    ASSUME NEW s \in Seq(Kinds), NEW t \in Seq(Kinds), NEW k \in Kinds,
           Len(t) = Len(s) + 1, \A i \in 1..Len(s) : t[i] = s[i], t[Len(s) + 1] = k
    PROVE  Append(s, k) = t
  <1>1. PICK u \in Seq(Kinds) : u = Append(s, k)
    BY AppendProperties
  <1>2. PICK n \in Nat : n = Len(s)
    BY LenProperties
  <1>3. Len(u) = n + 1 /\ u[n + 1] = k /\ \A i \in 1..n : u[i] = s[i]
    BY <1>1, <1>2, AppendProperties
  <1>4. \A i \in 1..(n + 1) : u[i] = t[i]
    BY <1>2, <1>3
  <1> QED  BY <1>1, <1>2, <1>3, <1>4, SeqEqual

\* What Postgres says, message by message.
LEMMA Appended ==
    /\ Append(<<"auth">>, "key") = <<"auth", "key">>
    /\ Append(<<"auth">>, "error") = <<"auth", "error">>
    /\ Append(<<"auth", "key">>, "ready") = <<"auth", "key", "ready">>
    /\ Append(<<"auth", "key", "ready">>, "row") = <<"auth", "key", "ready", "row">>
  <1>1. "auth" \in Kinds /\ "key" \in Kinds /\ "ready" \in Kinds /\ "row" \in Kinds /\ "error" \in Kinds
    BY DEF Kinds
  <1>2. ASSUME NEW a \in Kinds, NEW b \in Kinds PROVE Append(<<a>>, b) = <<a, b>>
    <2>1. <<a>> \in Seq(Kinds) /\ Len(<<a>>) = 1 /\ <<a>>[1] = a
      OBVIOUS
    <2>2. <<a, b>> \in Seq(Kinds) /\ Len(<<a, b>>) = 2 /\ <<a, b>>[1] = a /\ <<a, b>>[2] = b
      OBVIOUS
    <2>10. ASSUME NEW s, s = <<a>>, NEW t, t = <<a, b>> PROVE Append(s, b) = t
      <3>1. s \in Seq(Kinds) /\ t \in Seq(Kinds) /\ Len(t) = Len(s) + 1
        BY <2>10, <2>1, <2>2
      <3>2. (\A i \in 1..Len(s) : t[i] = s[i]) /\ t[Len(s) + 1] = b
        BY <2>10, <2>1, <2>2
      <3> QED  BY <3>1, <3>2, Longer
    <2> QED  BY <2>10
  <1>3. ASSUME NEW a \in Kinds, NEW b \in Kinds, NEW c \in Kinds
        PROVE  Append(<<a, b>>, c) = <<a, b, c>>
    <2>1. <<a, b>> \in Seq(Kinds) /\ Len(<<a, b>>) = 2 /\ <<a, b>>[1] = a /\ <<a, b>>[2] = b
      OBVIOUS
    <2>2. <<a, b, c>> \in Seq(Kinds) /\ Len(<<a, b, c>>) = 3
      OBVIOUS
    <2>3. <<a, b, c>>[1] = a /\ <<a, b, c>>[2] = b /\ <<a, b, c>>[3] = c
      OBVIOUS
    <2>10. ASSUME NEW s, s = <<a, b>>, NEW t, t = <<a, b, c>> PROVE Append(s, c) = t
      <3>1. s \in Seq(Kinds) /\ t \in Seq(Kinds) /\ Len(t) = Len(s) + 1
        BY <2>10, <2>1, <2>2, <2>3
      <3>2. (\A i \in 1..Len(s) : t[i] = s[i]) /\ t[Len(s) + 1] = c
        BY <2>10, <2>1, <2>2, <2>3
      <3> QED  BY <3>1, <3>2, Longer
    <2> QED  BY <2>10
  <1>4. ASSUME NEW a \in Kinds, NEW b \in Kinds, NEW c \in Kinds, NEW d \in Kinds
        PROVE  Append(<<a, b, c>>, d) = <<a, b, c, d>>
    <2>1. <<a, b, c>> \in Seq(Kinds) /\ Len(<<a, b, c>>) = 3
      OBVIOUS
    <2>2. <<a, b, c>>[1] = a /\ <<a, b, c>>[2] = b /\ <<a, b, c>>[3] = c
      OBVIOUS
    <2>3. <<a, b, c, d>> \in Seq(Kinds) /\ Len(<<a, b, c, d>>) = 4
      OBVIOUS
    <2>4. /\ <<a, b, c, d>>[1] = a /\ <<a, b, c, d>>[2] = b
          /\ <<a, b, c, d>>[3] = c /\ <<a, b, c, d>>[4] = d
      OBVIOUS
    <2>10. ASSUME NEW s, s = <<a, b, c>>, NEW t, t = <<a, b, c, d>> PROVE Append(s, d) = t
      <3>1. s \in Seq(Kinds) /\ t \in Seq(Kinds) /\ Len(t) = Len(s) + 1
        BY <2>10, <2>1, <2>2, <2>3, <2>4
      <3>2. (\A i \in 1..Len(s) : t[i] = s[i]) /\ t[Len(s) + 1] = d
        BY <2>10, <2>1, <2>2, <2>3, <2>4
      <3> QED  BY <3>1, <3>2, Longer
    <2> QED  BY <2>10
  <1> QED  BY <1>1, <1>2, <1>3, <1>4

\* Postgres says the next thing: it is in order, and no key goes to a client without the password.
LEMMA BackendSendsKeeps ==
    ASSUME ConnsInv, ActiveInv, NEW c \in Conns, BackendSends(c)
    PROVE  ConnsInv' /\ ActiveInv'
  <1> DEFINE k == Answers(c)
             s == Append(conn[c].sent, k)
             w == conn[c].wire \o Units(<<k>>)
             x == [conn[c] EXCEPT !.sent = s, !.wire = w]
  <1>1. /\ conn[c] \in Connection /\ Good(conn[c]) /\ Streams(conn[c])
        /\ conn' = [conn EXCEPT ![c] = x] /\ active' = active
    BY DEF ConnsInv, BackendSends, Streams
  <1>2. /\ conn[c].sent \in Seq(Kinds) /\ conn[c].wire \in Seq(Unit) /\ conn[c].out \in Seq(Unit)
        /\ conn[c].buf \in Seq(Unit)
        /\ Said(conn[c]) /\ InOrder(conn[c]) /\ conn[c].at \in Projects
    BY <1>1 DEF Connection, Unit, Good
  <1>3. k \in Kinds
    BY DEF Answers, Kinds
  <1>4. s \in {<<"auth">>, <<"auth", "error">>}
        \/ (Admitted(conn[c]) /\ s \in {<<"auth", "key">>, <<"auth", "key", "ready">>,
                                        <<"auth", "key", "ready", "row">>})
    <2>1. CASE conn[c].sent = <<>>
      BY <2>1 DEF Answers
    <2>2. CASE conn[c].sent = <<"auth">>
      <3>1. (k = "key" /\ Admitted(conn[c])) \/ k = "error"
        BY <2>2 DEF Answers, Admitted
      <3>2. /\ Append(<<"auth">>, "key") = <<"auth", "key">>
            /\ Append(<<"auth">>, "error") = <<"auth", "error">>
        BY Appended
      <3> QED  BY <2>2, <3>1, <3>2
    <2>3. CASE conn[c].sent = <<"auth", "error">>
      <3>1. conn[c].sent[2] = "error" /\ 2 \in 1..Len(conn[c].sent)
        BY <2>3
      <3> QED  BY <3>1 DEF BackendSends
    <2>4. CASE conn[c].sent = <<"auth", "key">> /\ Admitted(conn[c])
      <3>1. k = "ready"
        BY <2>4 DEF Answers
      <3>2. Append(<<"auth", "key">>, "ready") = <<"auth", "key", "ready">>
        BY Appended
      <3> QED  BY <2>4, <3>1, <3>2
    <2>5. CASE conn[c].sent = <<"auth", "key", "ready">> /\ Admitted(conn[c])
      <3>1. k = "row"
        BY <2>5 DEF Answers
      <3>2. Append(<<"auth", "key", "ready">>, "row") = <<"auth", "key", "ready", "row">>
        BY Appended
      <3> QED  BY <2>5, <3>1, <3>2
    <2>6. CASE conn[c].sent = <<"auth", "key", "ready", "row">>
      BY <2>6 DEF BackendSends
    <2> QED  BY <1>2, <2>1, <2>2, <2>3, <2>4, <2>5, <2>6 DEF Said
  <1>5. Units(<<k>>) \in Seq(Unit) /\ Units(s) = Units(conn[c].sent) \o Units(<<k>>)
    <2>1. <<k>> \in Seq(Kinds)
      BY <1>3
    <2> QED  BY <1>2, <1>3, <2>1, UnitsTyped, UnitsAppend
  <1>6. s \in Seq(Kinds) /\ w \in Seq(Unit)
    BY <1>2, <1>3, <1>5, AppendProperties, ConcatProperties
  <1> HIDE DEF k
  <1>7. conn[c].out \o conn[c].buf \o w = Units(s)
    <2>1. conn[c].out \o conn[c].buf \in Seq(Unit)
      BY <1>2, ConcatProperties
    <2>2. conn[c].out \o conn[c].buf \o w
             = (conn[c].out \o conn[c].buf \o conn[c].wire) \o Units(<<k>>)
      <3>1. PICK a \in Seq(Unit), b \in Seq(Unit), d \in Seq(Unit) :
               /\ a = conn[c].out \o conn[c].buf /\ b = conn[c].wire /\ d = Units(<<k>>)
        BY <1>2, <1>5, <2>1
      <3>2. (a \o b) \o d = a \o (b \o d)
        BY SMT
      <3> QED  BY <3>1, <3>2
    <2> QED  BY <1>2, <1>5, <2>2 DEF InOrder
  <1> HIDE DEF s, w
  <1>8. /\ x \in Connection /\ x.phase = conn[c].phase /\ x.ref = conn[c].ref /\ x.at = conn[c].at
        /\ x.pw = conn[c].pw /\ x.sent = s /\ x.wire = w /\ x.buf = conn[c].buf /\ x.out = conn[c].out
    BY <1>1, <1>6 DEF Connection, Unit
  <1> HIDE DEF x
  <1>9. Streams(x) /\ InOrder(x) /\ (Admitted(x) <=> Admitted(conn[c]))
    BY <1>1, <1>7, <1>8 DEF Streams, InOrder, Admitted
  <1>10. Said(x)
    BY <1>4, <1>8, <1>9 DEF Said
  <1>11. Good(x)
    BY <1>1, <1>2, <1>8, <1>9, <1>10 DEF Good, Streams
  <1> QED  BY <1>1, <1>8, <1>9, <1>11, OneConnection, SessionsKept

\* ReadyForQuery is only sent to a client that has the password.
LEMMA ReadyIsAdmitted ==
    ASSUME NEW r \in Connection, Said(r), NEW a \in Seq(Unit), NEW b \in Seq(Unit),
           NEW d \in Seq(Unit), a \o b \o d = Units(r.sent), Holds(b, "ready")
    PROVE  Admitted(r)
  <1>1. r.sent \in Seq(Kinds)
    BY DEF Connection
  <1>2. PICK m \in 1..Len(r.sent) : r.sent[m] = "ready"
    BY <1>1, PartOfUnits
  <1> SUFFICES ASSUME r.sent \in {<<>>, <<"auth">>, <<"auth", "error">>} PROVE FALSE
    BY DEF Said
  <1> QED  BY <1>2

\* A chunk: what is written, what is buffered and what is still on the way remain in order.
LEMMA ChunkKeeps ==
    ASSUME ConnsInv, ActiveInv, NEW c \in Conns, NEW n \in {1, Len(conn[c].wire)}, Chunk(c, n)
    PROVE  ConnsInv' /\ ActiveInv'
  <1> DEFINE o == conn[c].out
             b == conn[c].buf
             w == conn[c].wire
             chunk == SubSeq(w, 1, n)
             rest == SubSeq(w, n + 1, Len(w))
             buf == b \o chunk
             ready == Holds(buf, "ready")
  <1>1. /\ conn[c] \in Connection /\ Good(conn[c])
        /\ conn[c].phase \in {"login", "relay"} /\ Streams(conn[c]) /\ active' = active
    BY DEF ConnsInv, Chunk, Streams
  <1>2. /\ conn[c].sent \in Seq(Kinds) /\ w \in Seq(Unit) /\ o \in Seq(Unit) /\ b \in Seq(Unit)
        /\ Said(conn[c]) /\ o \o b \o w = Units(conn[c].sent) /\ conn[c].at \in Projects
        /\ w # <<>>
    BY <1>1 DEF Connection, Unit, Good, InOrder, Chunk
  <1>3. Len(w) \in Nat /\ n \in 0..Len(w)
    BY <1>2, EmptySeq
  <1>4. chunk \in Seq(Unit) /\ rest \in Seq(Unit) /\ chunk \o rest = w
    BY <1>2, <1>3, SplitSeq
  <1> HIDE DEF chunk, rest
  <1>5. buf \in Seq(Unit) /\ o \o buf \o rest = Units(conn[c].sent)
    <2>1. buf \in Seq(Unit)
      BY <1>2, <1>4, ConcatProperties
    <2>2. (o \o b) \o (chunk \o rest) = o \o (b \o chunk) \o rest
      <3>1. PICK a \in Seq(Unit), e \in Seq(Unit), f \in Seq(Unit), g \in Seq(Unit) :
               a = o /\ e = b /\ f = chunk /\ g = rest
        BY <1>2, <1>4
      <3>2. (a \o e) \o (f \o g) = a \o (e \o f) \o g
        BY SMT
      <3> QED  BY <3>1, <3>2
    <2> QED  BY <1>2, <1>4, <2>1, <2>2
  <1>6. CASE conn[c].phase = "login"
    <2> DEFINE phase == IF ready THEN "relay" ELSE "login"
               out == o \o (IF ready THEN Detached(buf) ELSE Framed(buf))
               left == IF ready THEN <<>> ELSE Rest(buf)
               read == [conn EXCEPT ![c].wire = rest]
               y == [conn[c] EXCEPT !.wire = rest]
               x == [y EXCEPT !.phase = phase, !.out = out, !.buf = left]
    <2>0. /\ y \in Connection /\ y.phase = conn[c].phase /\ y.ref = conn[c].ref
          /\ y.at = conn[c].at /\ y.pw = conn[c].pw /\ y.sent = conn[c].sent /\ y.wire = rest
          /\ y.out = o
      BY <1>1, <1>4 DEF Connection, Unit
    <2>9. read = [conn EXCEPT ![c] = y] /\ read[c] = y
      BY DEF ConnsInv
    <2>1. conn' = [conn EXCEPT ![c] = x]
      <3>1. conn' = [read EXCEPT ![c].phase = phase, ![c].out = @ \o
                          (IF ready THEN Detached(buf) ELSE Framed(buf)), ![c].buf = left]
        BY <1>1, <1>6 DEF Chunk, chunk, rest
      <3> HIDE DEF y, buf, ready, phase, left, read
      <3>2. conn' = [read EXCEPT ![c] = [read[c] EXCEPT !.phase = phase, !.out = @ \o
                          (IF ready THEN Detached(buf) ELSE Framed(buf)), !.buf = left]]
        BY <3>1
      <3>3. conn' = [read EXCEPT ![c] = x]
        BY <2>0, <2>9, <3>2
      <3> HIDE DEF x
      <3> QED  BY <2>9, <3>3 DEF ConnsInv
    <2> HIDE DEF buf, o, b, w
    <2>2. out \in Seq(Unit) /\ left \in Seq(Unit) /\ out \o left = o \o buf
      <3>1. CASE ready
        <4>1. out = o \o buf /\ left = <<>>
          BY <3>1 DEF Detached
        <4> QED  BY <1>2, <1>5, <4>1, ConcatProperties, ConcatEmptySeq, EmptySeq, ZenonT(60)
      <3>2. CASE ~ ready
        <4>1. out = o \o Framed(buf) /\ left = Rest(buf)
          BY <3>2
        <4>2. Framed(buf) \in Seq(Unit) /\ Rest(buf) \in Seq(Unit) /\ Framed(buf) \o Rest(buf) = buf
          BY <1>5, FramedAndRest
        <4>3. PICK f \in Seq(Unit), g \in Seq(Unit) : f = Framed(buf) /\ g = Rest(buf)
          BY <4>2
        <4>4. PICK a \in Seq(Unit) : a = o
          BY <1>2
        <4>5. a \o f \in Seq(Unit) /\ (a \o f) \o g = a \o (f \o g)
          BY SMT
        <4> QED  BY <4>1, <4>2, <4>3, <4>4, <4>5
      <3> QED  BY <3>1, <3>2
    <2>3. ready => Admitted(conn[c])
      BY <1>1, <1>2, <1>4, <1>5, ReadyIsAdmitted
    <2>4. phase \in {"relay", "login"} /\ (phase = "relay" => ready /\ left = <<>>)
      OBVIOUS
    <2> HIDE DEF out, left, phase, ready
    <2>5. /\ x \in Connection /\ x.phase = phase /\ x.ref = conn[c].ref /\ x.at = conn[c].at
          /\ x.pw = conn[c].pw /\ x.sent = conn[c].sent /\ x.wire = rest /\ x.buf = left
          /\ x.out = out
      <3> HIDE DEF y
      <3> QED  BY <2>0, <2>2, <2>4, ZenonT(60) DEF Connection, Unit
    <2> HIDE DEF x
    <2>6. InOrder(x)
      BY <1>5, <2>2, <2>5 DEF InOrder
    <2>7. Streams(x) /\ (Admitted(x) <=> Admitted(conn[c])) /\ (Said(x) <=> Said(conn[c]))
      BY <2>4, <2>5 DEF Streams, Admitted, Said
    <2>8. Good(x)
      BY <1>1, <1>2, <1>6, <2>3, <2>4, <2>5, <2>6, <2>7 DEF Good, Streams
    <2> QED  BY <1>1, <2>1, <2>5, <2>7, <2>8, OneConnection, SessionsKept
  <1>7. CASE conn[c].phase = "relay"
    <2> DEFINE out == o \o chunk
               y == [conn[c] EXCEPT !.wire = rest]
               x == [y EXCEPT !.out = out]
    <2>0. /\ y \in Connection /\ y.phase = conn[c].phase /\ y.ref = conn[c].ref
          /\ y.at = conn[c].at /\ y.pw = conn[c].pw /\ y.sent = conn[c].sent /\ y.wire = rest
          /\ y.buf = conn[c].buf /\ y.out = o
      BY <1>1, <1>4 DEF Connection, Unit
    <2>1. conn' = [conn EXCEPT ![c] = x]
      <3> DEFINE read == [conn EXCEPT ![c].wire = rest]
      <3>1. conn' = [read EXCEPT ![c].out = @ \o chunk]
        BY <1>1, <1>7 DEF Chunk, chunk, rest
      <3>2. read = [conn EXCEPT ![c] = y] /\ read[c] = y
        BY DEF ConnsInv
      <3> HIDE DEF y, read
      <3>3. conn' = [read EXCEPT ![c] = [read[c] EXCEPT !.out = @ \o chunk]]
        BY <3>1
      <3>4. conn' = [read EXCEPT ![c] = x]
        BY <2>0, <3>2, <3>3
      <3> HIDE DEF x
      <3> QED  BY <3>2, <3>4 DEF ConnsInv
    <2>2. b = <<>> /\ Admitted(conn[c])
      BY <1>1, <1>7 DEF Good
    <2>3. out \in Seq(Unit) /\ out \o b \o rest = Units(conn[c].sent)
      <3>1. b \o chunk = chunk /\ out \in Seq(Unit)
        BY <1>2, <1>4, <2>2, ConcatEmptySeq, ConcatProperties
      <3>2. out \o b = out
        BY <2>2, <3>1, ConcatEmptySeq
      <3> QED  BY <1>5, <3>1, <3>2
    <2> HIDE DEF out
    <2>4. /\ x \in Connection /\ x.phase = "relay" /\ x.ref = conn[c].ref /\ x.at = conn[c].at
          /\ x.pw = conn[c].pw /\ x.sent = conn[c].sent /\ x.wire = rest /\ x.buf = conn[c].buf
          /\ x.out = out
      <3> HIDE DEF y
      <3> QED  BY <1>7, <2>0, <2>3 DEF Connection, Unit
    <2> HIDE DEF x
    <2>5. InOrder(x)
      BY <2>3, <2>4 DEF InOrder, b
    <2>6. Streams(x) /\ (Admitted(x) <=> Admitted(conn[c])) /\ (Said(x) <=> Said(conn[c]))
      BY <2>4 DEF Streams, Admitted, Said
    <2>7. Good(x)
      BY <1>1, <1>2, <1>7, <2>2, <2>4, <2>5, <2>6 DEF Good, Streams, b
    <2> QED  BY <1>1, <2>1, <2>4, <2>6, <2>7, OneConnection, SessionsKept
  <1> QED  BY <1>1, <1>6, <1>7

-----------------------------------------------------------------------------
(* The other actions. *)

\* The backend closes its end, or the client leaves while nobody listens to it.
LEMMA MarkKeeps ==
    ASSUME ConnsInv, ActiveInv, NEW c \in Conns, conn[c].phase \notin {"unused", "closed"},
           \/ conn' = [conn EXCEPT ![c].over = TRUE]
           \/ conn' = [conn EXCEPT ![c].left = TRUE],
           active' = active
    PROVE  ConnsInv' /\ ActiveInv'
  <1> DEFINE y == [conn[c] EXCEPT !.over = TRUE]
             z == [conn[c] EXCEPT !.left = TRUE]
  <1>1. conn[c] \in Connection /\ Good(conn[c])
    BY DEF ConnsInv
  <1>2. PICK x \in {y, z} : conn' = [conn EXCEPT ![c] = x]
    OBVIOUS
  <1>3. /\ x \in Connection /\ x.phase = conn[c].phase /\ x.ref = conn[c].ref
        /\ x.at = conn[c].at /\ x.pw = conn[c].pw /\ x.sent = conn[c].sent
        /\ x.wire = conn[c].wire /\ x.buf = conn[c].buf /\ x.out = conn[c].out
    BY <1>1, <1>2, ZenonT(60) DEF Connection
  <1>4. /\ Streams(x) <=> Streams(conn[c])
        /\ Admitted(x) <=> Admitted(conn[c])
        /\ Said(x) <=> Said(conn[c])
        /\ InOrder(x) <=> InOrder(conn[c])
    BY <1>3 DEF Streams, Admitted, Said, InOrder
  <1>5. Good(x)
    BY <1>1, <1>3, <1>4 DEF Good
  <1> QED  BY <1>2, <1>3, <1>4, <1>5, OneConnection, SessionsKept

\* The proof is checked against the password of the project the client named.
LEMMA AuthenticateKeeps ==
    ASSUME ConnsInv, ActiveInv, NEW c \in Conns, Authenticate(c)
    PROVE  ConnsInv' /\ ActiveInv'
  <1> DEFINE x == [conn[c] EXCEPT !.phase = "parameters"]
  <1>1. /\ conn[c] \in Connection /\ conn[c].phase = "scram" /\ ~ Streams(conn[c])
        /\ active' = active
    BY DEF ConnsInv, Authenticate, Streams
  <1>2. CASE Refused(c)
    BY <1>1, <1>2, RefusedKeeps
  <1>3. CASE Verifies(c) /\ conn' = [conn EXCEPT ![c].phase = "parameters"]
    <2>1. conn' = [conn EXCEPT ![c] = x]
      BY <1>3
    <2>2. /\ x \in Connection /\ x.phase = "parameters" /\ x.ref = conn[c].ref
          /\ x.pw = conn[c].pw /\ x.sent = conn[c].sent /\ x.wire = conn[c].wire
          /\ x.buf = conn[c].buf /\ x.out = conn[c].out
      BY <1>1 DEF Connection
    <2>3. conn[c].pw = Password[conn[c].ref]
      BY <1>3 DEF Verifies
    <2> HIDE DEF x
    <2>4. x.pw = Password[x.ref]
      BY <2>2, <2>3
    <2>5. ~ Streams(x)
      BY <2>2 DEF Streams
    <2> QED  BY <1>1, <2>1, <2>2, <2>4, <2>5, Steps
  <1> QED  BY <1>2, <1>3 DEF Authenticate

\* The pool's own login: the Postgres at the port knows the password of the named project.
LEMMA ParametersKeeps ==
    ASSUME ConnsInv, ActiveInv, NEW c \in Conns, Parameters(c)
    PROVE  ConnsInv' /\ ActiveInv'
  <1> DEFINE ref == conn[c].ref
             p == Listening(conn[c].port)
             at == IF known[ref] = None THEN p ELSE None
             x == [conn[c] EXCEPT !.phase = "pooled", !.at = at]
  <1>1. /\ conn[c] \in Connection /\ Good(conn[c]) /\ conn[c].phase = "parameters"
        /\ ~ Streams(conn[c]) /\ active' = active
    BY DEF ConnsInv, Parameters, Streams
  <1>2. CASE Refused(c)
    BY <1>1, <1>2, RefusedKeeps
  <1>3. CASE /\ known[ref] # None \/ Opens(ref, p)
             /\ conn' = [conn EXCEPT ![c].phase = "pooled",
                                     ![c].at = IF known[ref] = None THEN p ELSE None]
    <2>1. conn' = [conn EXCEPT ![c] = x]
      BY <1>3
    <2>2. at \in Projects \cup {None} /\ (at # None => Password[at] = Password[ref])
      BY <1>3, ListeningTyped DEF Opens
    <2> HIDE DEF at
    <2>3. /\ x \in Connection /\ x.phase = "pooled" /\ x.ref = conn[c].ref /\ x.at = at
          /\ x.pw = conn[c].pw /\ x.sent = conn[c].sent /\ x.wire = conn[c].wire
          /\ x.buf = conn[c].buf /\ x.out = conn[c].out
      BY <1>1, <2>2 DEF Connection
    <2> HIDE DEF x
    <2>4. x.pw = Password[x.ref] /\ (x.at # None => Password[x.at] = Password[x.ref])
      BY <1>1, <2>2, <2>3 DEF Good
    <2>5. ~ Streams(x)
      BY <2>3 DEF Streams
    <2> QED  BY <1>1, <2>1, <2>3, <2>4, <2>5, Steps
  <1> QED  BY <1>2, <1>3 DEF Parameters

\* The process ends: no connection and no session is left.
LEMMA CrashKeeps ==
    ASSUME ConnsInv, Crash
    PROVE  ConnsInv' /\ ActiveInv'
  <1>1. conn' \in [Conns -> Connection]
    BY Ended DEF ConnsInv, Crash
  <1>2. \A d \in Conns : Good(conn'[d]) /\ ~ Streams(conn'[d])
    BY Ended DEF ConnsInv, Crash, Streams
  <1>3. Sessions' = {}
    BY <1>2 DEF Sessions
  <1> QED  BY <1>1, <1>2, <1>3, FS_EmptySet DEF ConnsInv, ActiveInv, Crash

LEMMA ClientKeeps ==
    ASSUME ConnsInv, ActiveInv, NEW c \in Conns, ClientCloses(c) \/ ClientBreaks(c)
    PROVE  ConnsInv' /\ ActiveInv'
  <1>1. CASE ClientCloses(c)
    <2>1. CASE conn[c].phase \in {"encrypting", "startup", "scram", "pooled"}
      BY <1>1, <2>1, RefusedKeeps DEF ClientCloses, Refused, Streams
    <2>2. CASE conn[c].phase \in {"connecting", "parameters", "login"}
      BY <1>1, <2>2, MarkKeeps DEF ClientCloses
    <2>3. CASE conn[c].phase = "relay"
      BY <1>1, <2>3, TeardownKeeps DEF ClientCloses, Streams
    <2> QED  BY <1>1, <2>1, <2>2, <2>3 DEF ClientCloses
  <1>2. CASE ClientBreaks(c)
    BY <1>2, MarkKeeps, CrashKeeps DEF ClientBreaks
  <1> QED  BY <1>1, <1>2

-----------------------------------------------------------------------------
(* The theorems. *)

\* The rest of the types.
Others ==
    /\ rows \in [Projects -> Row] /\ table \in [Projects -> Row] /\ recent \in BOOLEAN
    /\ cancels \subseteq Conns /\ pooled \subseteq Conns
    /\ known \in [Projects -> Ports \cup {None}]
    /\ events \in 0..MaxEvents

IInv == Others /\ ConnsInv /\ ActiveInv

LEMMA Initially == Init => IInv
  <1> SUFFICES ASSUME Init PROVE IInv
    OBVIOUS
  <1>1. Others
    BY FirstRowsAssumption, BoundsAssumption DEF Init, Others
  <1>2. ConnsInv
    BY Ended DEF Init, ConnsInv
  <1>3. Sessions = {}
    BY Ended DEF Init, Sessions
  <1>4. ActiveInv
    BY <1>3, FS_EmptySet DEF Init, ActiveInv
  <1> QED  BY <1>1, <1>2, <1>4 DEF IInv

LEMMA OthersKept ==
    ASSUME Others, ConnsInv, Next
    PROVE  Others'
  <1>1. ASSUME NEW p \in Projects, ControlPlane(p) PROVE Others'
    <2>1. NoRow \in Row /\ rows[p] \in Row
      BY DEF NoRow, Row, Others
    <2>2. rows' \in [Projects -> Row]
      <3>1. \A port \in Ports : [state |-> "running", port |-> port] \in Row
        BY DEF Row
      <3>2. \A s \in {"running", "stopped"} : [rows[p] EXCEPT !.state = s] \in Row
        BY <2>1 DEF Row
      <3> HIDE DEF Row, NoRow
      <3> QED  BY <1>1, <2>1, <3>1, <3>2 DEF ControlPlane, Others
    <2>3. events' \in 0..MaxEvents
      BY <1>1, BoundsAssumption DEF ControlPlane, Others
    <2> QED  BY <1>1, <2>2, <2>3 DEF ControlPlane, Others
  <1>2. CASE Refresh \/ TableAges
    BY <1>2 DEF Refresh, TableAges, Others
  <1>3. ASSUME NEW c \in Conns, NEW r \in Requests[c], Connect(c, r) PROVE Others'
    BY <1>3 DEF Connect, Others
  <1>4. ASSUME NEW c \in Conns, RequestTls(c) \/ BackendConnects(c) \/ BackendSends(c)
                                  \/ BackendCloses(c)
        PROVE  Others'
    BY <1>4 DEF RequestTls, BackendConnects, BackendSends, BackendCloses, Others
  <1>5. ASSUME NEW c \in Conns, Startup(c) PROVE Others'
    BY <1>5 DEF Startup, LookupTable, Others
  <1>6. ASSUME NEW c \in Conns, BackendEnds(c) \/ BackendBreaks(c) PROVE Others'
    <2>1. events' \in 0..MaxEvents
      BY <1>6, BoundsAssumption DEF BackendEnds, BackendBreaks, Others
    <2> QED  BY <1>6, <2>1 DEF BackendEnds, BackendBreaks, Teardown, Others
  <1>7. ASSUME NEW c \in Conns, Authenticate(c) PROVE Others'
    BY <1>7 DEF Authenticate, Others
  <1>8. ASSUME NEW c \in Conns, Parameters(c) PROVE Others'
    <2>1. conn[c].port \in Ports \cup {None}
      BY DEF ConnsInv, Connection
    <2> QED  BY <1>8, <2>1 DEF Parameters, Others
  <1>9. ASSUME NEW c \in Conns, NEW n, Chunk(c, n) PROVE Others'
    BY <1>9 DEF Chunk, Others
  <1>10. ASSUME NEW c \in Conns, ClientCloses(c) PROVE Others'
    BY <1>10 DEF ClientCloses, Teardown, Others
  <1>11. ASSUME NEW c \in Conns, ClientBreaks(c) PROVE Others'
    BY <1>11 DEF ClientBreaks, Crash, Others
  <1> QED  BY <1>1, <1>2, <1>3, <1>4, <1>5, <1>6, <1>7, <1>8, <1>9, <1>10, <1>11 DEF Next, Router

LEMMA Inductive == IInv /\ [Next]_vars => IInv'
  <1> SUFFICES ASSUME IInv, [Next]_vars PROVE IInv'
    OBVIOUS
  <1> USE DEF IInv
  <1>1. CASE UNCHANGED vars
    BY <1>1 DEF vars, Others, ConnsInv, ActiveInv, Sessions
  <1>2. CASE Next
    <2>1. Others'
      BY <1>2, OthersKept
    <2>2. ASSUME UNCHANGED <<conn, active>> PROVE ConnsInv' /\ ActiveInv'
      BY <2>2 DEF ConnsInv, ActiveInv, Sessions
    <2>3. ASSUME NEW p \in Projects, ControlPlane(p) PROVE ConnsInv' /\ ActiveInv'
      BY <2>2, <2>3 DEF ControlPlane
    <2>4. CASE Refresh \/ TableAges
      <3>1. UNCHANGED <<conn, active>>
        BY <2>4 DEF Refresh, TableAges
      <3> QED  BY <2>1, <2>2, <3>1
    <2>5. ASSUME NEW c \in Conns, NEW r \in Requests[c], Connect(c, r) PROVE ConnsInv' /\ ActiveInv'
      BY <2>5, ConnectKeeps
    <2>6. ASSUME NEW c \in Conns, RequestTls(c) \/ Startup(c) PROVE ConnsInv' /\ ActiveInv'
      BY <2>6, StartupKeeps DEF Others
    <2>7. ASSUME NEW c \in Conns, BackendConnects(c) \/ BackendSends(c) PROVE ConnsInv' /\ ActiveInv'
      BY <2>7, BackendConnectsKeeps, BackendSendsKeeps
    <2>8. ASSUME NEW c \in Conns, BackendEnds(c) \/ BackendBreaks(c) PROVE ConnsInv' /\ ActiveInv'
      BY <2>8, TeardownKeeps DEF BackendEnds, BackendBreaks, Streams
    <2>9. ASSUME NEW c \in Conns, BackendCloses(c) PROVE ConnsInv' /\ ActiveInv'
      BY <2>9, MarkKeeps DEF BackendCloses
    <2>10. ASSUME NEW c \in Conns, Authenticate(c) \/ Parameters(c) PROVE ConnsInv' /\ ActiveInv'
      BY <2>10, AuthenticateKeeps, ParametersKeeps
    <2>11. ASSUME NEW c \in Conns, NEW n \in {1, Len(conn[c].wire)}, Chunk(c, n)
           PROVE  ConnsInv' /\ ActiveInv'
      BY <2>11, ChunkKeeps
    <2>12. ASSUME NEW c \in Conns, ClientCloses(c) \/ ClientBreaks(c) PROVE ConnsInv' /\ ActiveInv'
      BY <2>12, ClientKeeps
    <2> QED  BY <1>2, <2>1, <2>3, <2>4, <2>5, <2>6, <2>7, <2>8, <2>9, <2>10, <2>11, <2>12
             DEF Next, Router
  <1> QED  BY <1>1, <1>2

LEMMA Invariantly == Spec => []IInv
  BY Initially, Inductive, PTL DEF Spec

\* Every variable has its type; the number of running sessions never goes below zero, whoever
\* of client and backend ends a session first (teardown() of session.ts).
THEOREM TypeCorrect == Spec => []TypeOK
  <1>1. IInv => TypeOK
    BY FS_CardinalityType DEF IInv, Others, ConnsInv, ActiveInv, TypeOK
  <1> QED  BY <1>1, Invariantly, PTL

\* What was written to the client, what is buffered and what is on the way are what Postgres
\* sent, for any chunks (FramedStream and MessageReader).
THEOREM StreamIsKept == Spec => []BytesInOrder
  <1>1. IInv => BytesInOrder
    BY DEF IInv, ConnsInv, Good, Streams, InOrder, BytesInOrder
  <1> QED  BY <1>1, Invariantly, PTL

\* However stale the table is and whoever owns the port now: a client that was let in has the
\* password of the project whose Postgres answers (session.ts, transaction.ts).
THEOREM LoginNeedsPassword == Spec => []AdmittedByPassword
  <1>1. IInv => AdmittedByPassword
    <2> SUFFICES ASSUME ConnsInv, NEW c \in Conns, conn[c].phase \in {"relay", "pooled"},
                        conn[c].at # None
                 PROVE  conn[c].pw = Password[conn[c].at]
      BY DEF IInv, AdmittedByPassword
    <2> QED  BY DEF ConnsInv, Good, Admitted
  <1> QED  BY <1>1, Invariantly, PTL
=============================================================================
