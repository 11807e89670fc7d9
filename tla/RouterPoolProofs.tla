-------------------------- MODULE RouterPoolProofs --------------------------
(***************************************************************************)
(* Proofs about RouterPool: its types, the bound on server connections,    *)
(* and that answers and transactions stay with the client they belong to.  *)
(***************************************************************************)
EXTENDS RouterPool, FiniteSetTheorems, SequenceTheorems, TLAPS

-----------------------------------------------------------------------------
(* Types. *)

DueInv == \A s \in Clients : sess[s].due <= sess[s].sent

\* The part of TypeOK that does not count.
Typed ==
    /\ sess \in [Clients -> Session]
    /\ conn \in [Conns -> Connection]
    /\ idle \subseteq Conns /\ all \subseteq Conns
    /\ waiters \in Seq(Clients)
    /\ cached \in BOOLEAN
    /\ poolRoute \in 0..MaxRoutes /\ route \in 1..MaxRoutes
    /\ granted \in [Clients -> Conns \cup {None}]
    /\ delivered \subseteq Clients \X (Clients \cup {None})

\* What acquire() and release() may change.
PoolTyped ==
    /\ conn \in [Conns -> Connection]
    /\ idle \subseteq Conns /\ all \subseteq Conns
    /\ waiters \in Seq(Clients)
    /\ granted \in [Clients -> Conns \cup {None}]

LEMMA NoConnectionTyped == NoConnection \in Connection
  <1>1. <<>> \in Seq(Query)
    OBVIOUS
  <1> QED  BY <1>1 DEF NoConnection, Connection

LEMMA NoSessionTyped == NoSession \in Session
  <1>1. <<>> \in Seq(BOOLEAN)
    OBVIOUS
  <1> QED  BY <1>1, BoundsAssumption DEF NoSession, Session

LEMMA GoneTyped ==
    ASSUME NEW acquiring \in BOOLEAN
    PROVE  /\ Gone(acquiring) \in Session
           /\ Gone(acquiring).due = 0 /\ Gone(acquiring).sent = 0
           /\ Gone(acquiring).holding = None /\ Gone(acquiring).phase = "closed"
           /\ Gone(acquiring).acquiring = acquiring /\ Gone(acquiring).queued = <<>>
  <1>1. /\ NoSession \in Session /\ NoSession.due = 0 /\ NoSession.sent = 0
        /\ NoSession.holding = None /\ NoSession.queued = <<>>
    BY NoSessionTyped DEF NoSession
  <1> QED  BY <1>1 DEF Gone, Session

LEMMA RejectedTyped ==
    ASSUME NEW r \in Session, r.due <= r.sent
    PROVE  /\ Rejected(r) \in Session
           /\ Rejected(r).due <= Rejected(r).sent /\ Rejected(r).due <= r.due
           /\ Rejected(r).holding \in {r.holding, None}
           /\ Rejected(r).acquiring = FALSE
           /\ Rejected(r).queued = <<>>
           /\ Rejected(r).phase \in {r.phase, "closed"}
  <1>1. CASE r.phase = "login"
    <2> DEFINE g == Gone(FALSE)
    <2>1. Rejected(r) = g /\ r.due \in Nat
      BY <1>1, BoundsAssumption DEF Rejected, Session
    <2>2. /\ g \in Session /\ g.due = 0 /\ g.sent = 0 /\ g.holding = None
          /\ g.phase = "closed" /\ g.acquiring = FALSE /\ g.queued = <<>>
      BY GoneTyped
    <2> HIDE DEF g
    <2> QED  BY <1>1, <2>1, <2>2
  <1>2. CASE r.phase # "login"
    <2> DEFINE due == IF r.due = 0 THEN 0 ELSE r.due - 1
               x == [r EXCEPT !.acquiring = FALSE, !.queued = <<>>, !.due = due]
    <2>1. <<>> \in Seq(BOOLEAN)
      OBVIOUS
    <2>2. /\ r.due \in 0..MaxQueries /\ r.sent \in 0..MaxQueries
          /\ due \in 0..MaxQueries /\ due <= r.due /\ due <= r.sent
      BY BoundsAssumption DEF Session
    <2>3. Rejected(r) = x
      BY <1>2 DEF Rejected
    <2> HIDE DEF due
    <2>4. /\ x \in Session /\ x.due = due /\ x.sent = r.sent /\ x.holding = r.holding
          /\ x.phase = r.phase /\ x.acquiring = FALSE /\ x.queued = <<>>
      BY <2>1, <2>2 DEF Session
    <2> HIDE DEF x
    <2> QED  BY <2>2, <2>3, <2>4
  <1> QED  BY <1>1, <1>2

LEMMA ClosedTyped ==
    ASSUME NEW r \in Connection
    PROVE  Closed(r) \in Connection /\ Closed(r).sock = "closed" /\ Closed(r).onMessage = r.onMessage
  <1>1. NoConnection \in Connection
    BY NoConnectionTyped
  <1> QED  BY <1>1 DEF Closed, Connection

LEMMA DestroyedTyped ==
    ASSUME NEW cs \in [Conns -> Connection], NEW C
    PROVE  /\ Destroyed(cs, C) \in [Conns -> Connection]
           /\ \A c \in Conns : c \in C => /\ Destroyed(cs, C)[c].sock = "closed"
                                          /\ Destroyed(cs, C)[c].onMessage = cs[c].onMessage
           /\ \A c \in Conns : c \notin C => Destroyed(cs, C)[c] = cs[c]
  BY ClosedTyped DEF Destroyed

LEMMA SentTyped ==
    ASSUME NEW cs \in [Conns -> Connection], NEW c \in Conns, NEW qs \in Seq(Query)
    PROVE  /\ Sent(cs, c, qs) \in [Conns -> Connection]
           /\ \A d \in Conns : d # c => Sent(cs, c, qs)[d] = cs[d]
           /\ \A d \in Conns : /\ Sent(cs, c, qs)[d].sock = cs[d].sock
                               /\ Sent(cs, c, qs)[d].opener = cs[d].opener
                               /\ Sent(cs, c, qs)[d].onMessage = cs[d].onMessage
                               /\ Sent(cs, c, qs)[d].tx = cs[d].tx
           /\ cs[c].sock # "closed" => Sent(cs, c, qs)[c].inbox = cs[c].inbox \o qs
           /\ cs[c].sock = "closed" => Sent(cs, c, qs) = cs
  <1>1. cs[c].inbox \o qs \in Seq(Query)
    <2>1. cs[c].inbox \in Seq(Query)
      BY DEF Connection
    <2> QED  BY <2>1, ConcatProperties
  <1> DEFINE x == [cs[c] EXCEPT !.inbox = @ \o qs]
  <1>2. /\ x \in Connection /\ x.sock = cs[c].sock /\ x.opener = cs[c].opener
        /\ x.onMessage = cs[c].onMessage /\ x.tx = cs[c].tx /\ x.inbox = cs[c].inbox \o qs
    BY <1>1 DEF Connection
  <1>3. Sent(cs, c, qs) = IF cs[c].sock = "closed" THEN cs ELSE [cs EXCEPT ![c] = x]
    BY DEF Sent
  <1> HIDE DEF x
  <1> QED  BY <1>2, <1>3

LEMMA ResetTyped ==
    (IF ResetQuery THEN <<[from |-> None, opens |-> FALSE]>> ELSE <<>>) \in Seq(Query)
  <1> DEFINE q == [from |-> None, opens |-> FALSE]
  <1>1. q \in Query
    BY DEF Query
  <1> HIDE DEF q
  <1>2. <<q>> \in Seq(Query) /\ <<>> \in Seq(Query)
    BY <1>1
  <1> QED  BY <1>2 DEF q

LEMMA AcquireTyped ==
    ASSUME Typed, NEW s \in Clients, NEW cs \in [Conns -> Connection],
           NEW pool \in [idle : SUBSET Conns, all : SUBSET Conns, waiters : Seq(Clients)],
           Acquire(s, cs, pool)
    PROVE  PoolTyped'
  <1>1. /\ pool.idle \subseteq Conns /\ pool.all \subseteq Conns /\ pool.waiters \in Seq(Clients)
        /\ granted \in [Clients -> Conns \cup {None}]
    BY DEF Typed
  <1>2. Append(pool.waiters, s) \in Seq(Clients)
    BY <1>1
  <1>3. ASSUME Open(s, cs) PROVE conn' \in [Conns -> Connection]
    <2>1. PICK c \in Conns : conn' = [cs EXCEPT ![c] = [NoConnection EXCEPT
                                          !.sock = "opening", !.opener = s]]
      BY <1>3 DEF Open
    <2>2. [NoConnection EXCEPT !.sock = "opening", !.opener = s] \in Connection
      BY NoConnectionTyped DEF Connection
    <2> QED  BY <2>1, <2>2
  <1> QED  BY <1>1, <1>2, <1>3 DEF Acquire, PoolTyped

LEMMA ReleaseTyped ==
    ASSUME Typed, NEW c \in Conns, NEW cs \in [Conns -> Connection],
           NEW gr \in [Clients -> Conns \cup {None}],
           Release(c, cs, gr)
    PROVE  /\ PoolTyped'
           /\ opening' = opening /\ all' \subseteq all /\ idle' \subseteq idle \cup {c}
           /\ all \ {c} \subseteq all'
           /\ cs[c].sock # "closed" => all' = all
           /\ \A d \in Conns : conn'[d].sock = cs[d].sock /\ conn'[d].opener = cs[d].opener
           /\ \A t \in Clients : granted'[t] \in {gr[t], c}
  <1> DEFINE rs == IF ResetQuery THEN <<[from |-> None, opens |-> FALSE]>> ELSE <<>>
             r == [cs[c] EXCEPT !.onMessage = None]
             fs == [cs EXCEPT ![c] = r]
  <1>1. r \in Connection /\ r.sock = cs[c].sock /\ r.opener = cs[c].opener
    BY DEF Connection
  <1>2. conn' = Sent(fs, c, rs)
    BY DEF Release
  <1>3. rs \in Seq(Query)
    BY ResetTyped
  <1> HIDE DEF r
  <1>4. /\ fs \in [Conns -> Connection]
        /\ \A d \in Conns : fs[d].sock = cs[d].sock /\ fs[d].opener = cs[d].opener
    BY <1>1
  <1> HIDE DEF rs, fs
  <1>5. /\ conn' \in [Conns -> Connection]
        /\ \A d \in Conns : conn'[d].sock = cs[d].sock /\ conn'[d].opener = cs[d].opener
    BY <1>2, <1>3, <1>4, SentTyped, SMTT(30)
  <1>6. /\ opening' = opening
        /\ \/ /\ cs[c].sock = "closed"
              /\ all' = all \ {c} /\ idle' = idle \ {c}
              /\ granted' = gr /\ UNCHANGED waiters
           \/ /\ cs[c].sock # "closed" /\ waiters # <<>>
              /\ granted' = [gr EXCEPT ![Head(waiters)] = c]
              /\ waiters' = Tail(waiters)
              /\ UNCHANGED <<idle, all>>
           \/ /\ cs[c].sock # "closed" /\ waiters = <<>>
              /\ idle' = idle \cup {c}
              /\ granted' = gr /\ UNCHANGED <<all, waiters>>
    BY DEF Release
  <1>7. waiters # <<>> => Head(waiters) \in Clients /\ Tail(waiters) \in Seq(Clients)
    BY HeadTailProperties DEF Typed
  <1> QED  BY <1>5, <1>6, <1>7 DEF Typed, PoolTyped

-----------------------------------------------------------------------------
(* The bound on server connections.  A connection counts from the moment   *)
(* it is being opened; pool.opening counts those, pool.all the others, and *)
(* none is reused while something still refers to it.                      *)

IsOpening(c) == conn[c].sock = "opening"

Referenced(c) ==
    c \in all \/ c \in idle \/ \E s \in Clients : sess[s].holding = c \/ granted[s] = c

BoundInv ==
    /\ opening = Cardinality({c \in Conns : IsOpening(c)})
    /\ Cardinality(all) + opening <= Size
    /\ \A c \in Conns : IsOpening(c) => ~Referenced(c)
    /\ \A c \in Conns : conn[c].sock = "open" => c \in all

\* Sets of connections are finite.
LEMMA ConnsFinite ==
    ASSUME NEW S, S \subseteq Conns
    PROVE  IsFiniteSet(S) /\ Cardinality(S) \in Nat
  BY FiniteAssumption, FS_Subset, FS_CardinalityType

\* A step that opens nothing, and keeps in pool.all whatever stays open.
LEMMA BoundKept ==
    ASSUME Typed, BoundInv, all' \subseteq all, opening' = opening,
           \A c \in Conns : IsOpening(c)' <=> IsOpening(c),
           \A c \in Conns : conn'[c].sock = "open" => c \in all',
           \A c \in Conns : IsOpening(c) => ~Referenced(c)'
    PROVE  BoundInv'
  <1>1. {c \in Conns : IsOpening(c)'} = {c \in Conns : IsOpening(c)}
    OBVIOUS
  <1>2. IsFiniteSet(all) /\ Cardinality(all) \in Nat
    BY ConnsFinite DEF Typed
  <1>3. Cardinality(all') <= Cardinality(all) /\ Cardinality(all') \in Nat
    BY <1>2, FS_Subset, FS_CardinalityType
  <1>4. opening \in Nat
    BY ConnsFinite DEF BoundInv
  <1>5. Cardinality(all') + opening <= Size
    BY <1>2, <1>3, <1>4, SizeAssumption DEF BoundInv
  <1> QED  BY <1>1, <1>5 DEF BoundInv

\* acquire() hands over a connection that is open, or opens one while there is capacity.
LEMMA BoundAcquire ==
    ASSUME Typed, BoundInv, NEW s \in Clients, NEW cs \in [Conns -> Connection],
           NEW pool \in [idle : SUBSET Conns, all : SUBSET Conns, waiters : Seq(Clients)],
           pool.idle \subseteq idle, pool.all \subseteq all,
           \A c \in Conns : cs[c].sock = "opening" <=> IsOpening(c),
           \A c \in Conns : cs[c].sock = "open" => c \in pool.all,
           \A c \in Conns : IsOpening(c) => ~Referenced(c),
           \A t \in Clients : sess'[t].holding \in {sess[t].holding, None},
           Acquire(s, cs, pool)
    PROVE  BoundInv'
  <1>1. pool.idle \subseteq Conns /\ pool.all \subseteq Conns
    OBVIOUS
  <1>2. \A c \in Conns : c # None
    BY NoneAssumption
  <1>3. /\ all' = pool.all /\ idle' \subseteq idle
        /\ \A t \in Clients : \/ granted'[t] = granted[t]
                              \/ granted'[t] \in Conns /\ cs[granted'[t]].sock = "open"
    BY <1>1 DEF Acquire, Typed
  <1>4. \A c \in Conns : IsOpening(c) => ~Referenced(c)'
    BY <1>2, <1>3 DEF Referenced
  <1>5. CASE conn' = cs /\ opening' = opening
    <2> QED  BY <1>3, <1>4, <1>5, BoundKept DEF IsOpening
  <1>6. CASE Open(s, cs) /\ HasCapacity(pool)
    <2> DEFINE x == [NoConnection EXCEPT !.sock = "opening", !.opener = s]
               O == {c \in Conns : IsOpening(c)}
    <2>1. PICK c \in Conns : Unreferenced(c) /\ conn' = [cs EXCEPT ![c] = x]
      BY <1>6 DEF Open
    <2>2. x.sock = "opening"
      BY DEF NoConnection
    <2> HIDE DEF x
    <2>3. c \notin O /\ ~Referenced(c)
      BY <2>1 DEF Unreferenced, Referenced, IsOpening
    <2>4. {d \in Conns : IsOpening(d)'} = O \cup {c}
      BY <2>1, <2>2 DEF IsOpening
    <2>5. IsFiniteSet(O) /\ Cardinality(O) \in Nat /\ opening = Cardinality(O)
      BY ConnsFinite DEF BoundInv
    <2>6. Cardinality(O \cup {c}) = Cardinality(O) + 1
      BY <2>3, <2>5, FS_AddElement
    <2>7. opening' = opening + 1
      BY <1>6 DEF Open
    <2>8. Cardinality(all') \in Nat /\ Cardinality(all') + opening < Size
      BY <1>1, <1>3, <1>6, ConnsFinite DEF HasCapacity
    <2>9. Cardinality(all') + opening' <= Size
      BY <2>5, <2>7, <2>8, SizeAssumption
    <2>10. ~Referenced(c)'
      BY <1>2, <1>3, <2>1, <2>3 DEF Referenced, Unreferenced
    <2>11. \A d \in Conns : IsOpening(d)' => ~Referenced(d)'
      BY <1>4, <2>1, <2>10 DEF IsOpening
    <2>12. \A d \in Conns : conn'[d].sock = "open" => d \in all'
      BY <1>3, <2>1, <2>2
    <2> QED  BY <2>4, <2>5, <2>6, <2>7, <2>9, <2>11, <2>12 DEF BoundInv
  <1> QED  BY <1>5, <1>6 DEF Acquire

LEMMA BoundRelease ==
    ASSUME Typed, BoundInv, NEW c \in Conns, ~IsOpening(c),
           NEW cs \in [Conns -> Connection],
           \A d \in Conns : cs[d].sock = conn[d].sock,
           NEW gr \in [Clients -> Conns \cup {None}],
           \A t \in Clients : gr[t] \in {granted[t], None},
           \A t \in Clients : sess'[t].holding \in {sess[t].holding, None},
           Release(c, cs, gr)
    PROVE  BoundInv'
  <1>1. /\ opening' = opening /\ all' \subseteq all /\ idle' \subseteq idle \cup {c}
        /\ all \ {c} \subseteq all'
        /\ cs[c].sock # "closed" => all' = all
        /\ \A d \in Conns : conn'[d].sock = cs[d].sock
        /\ \A t \in Clients : granted'[t] \in {gr[t], c}
    BY ReleaseTyped
  <1>2. \A d \in Conns : d # None
    BY NoneAssumption
  <1>3. \A d \in Conns : IsOpening(d)' <=> IsOpening(d)
    BY <1>1 DEF IsOpening
  <1>4. \A d \in Conns : conn'[d].sock = "open" => d \in all'
    BY <1>1 DEF BoundInv
  <1>5. \A d \in Conns : IsOpening(d) => ~Referenced(d)'
    <2> SUFFICES ASSUME NEW d \in Conns, IsOpening(d) PROVE ~Referenced(d)'
      OBVIOUS
    <2>1. d # c /\ ~Referenced(d)
      BY DEF BoundInv
    <2> QED  BY <1>1, <1>2, <2>1 DEF Referenced
  <1> QED  BY <1>1, <1>3, <1>4, <1>5, BoundKept

-----------------------------------------------------------------------------
(* One step at a time. *)

Safe == Typed /\ DueInv /\ BoundInv

\* Replacing one session by another record that is a session.
LEMMA SessionReplaced ==
    ASSUME Typed, DueInv, NEW s \in Clients, NEW x \in Session, x.due <= x.sent,
           sess' = [sess EXCEPT ![s] = x]
    PROVE  sess' \in [Clients -> Session] /\ DueInv'
  BY DEF Typed, DueInv

LEMMA SessionMoved ==
    ASSUME NEW r \in Session, NEW ph \in {"new", "authenticating", "login", "active", "closed"},
           NEW ac \in BOOLEAN
    PROVE  LET x == [r EXCEPT !.phase = ph, !.acquiring = ac]
           IN /\ x \in Session /\ x.due = r.due /\ x.sent = r.sent /\ x.seen = r.seen
              /\ x.holding = r.holding /\ x.queued = r.queued
              /\ x.phase = ph /\ x.acquiring = ac
  BY DEF Session

\* A step that leaves the connections and the pool alone, or just sends.
LEMMA PoolUntouched ==
    ASSUME Typed, BoundInv, UNCHANGED <<idle, all, opening, granted>>,
           \A c \in Conns : conn'[c].sock = conn[c].sock,
           \A t \in Clients : sess'[t].holding \in {sess[t].holding, None}
    PROVE  BoundInv'
  <1>1. \A c \in Conns : IsOpening(c) => ~Referenced(c)'
    BY NoneAssumption DEF Referenced, BoundInv
  <1> QED  BY <1>1, BoundKept DEF BoundInv, IsOpening

LEMMA ConnectSafe == ASSUME Safe, NEW s \in Clients, Connect(s) PROVE Safe'
  <1> DEFINE x == [sess[s] EXCEPT !.phase = "authenticating", !.seen = route]
  <1>0. Typed /\ DueInv /\ BoundInv
    BY DEF Safe
  <1>1. sess[s] \in Session /\ route \in 0..MaxRoutes /\ sess[s].due <= sess[s].sent
    BY <1>0, BoundsAssumption DEF Typed, DueInv
  <1>2. x \in Session /\ x.due = sess[s].due /\ x.sent = sess[s].sent
        /\ x.holding = sess[s].holding
    BY <1>1 DEF Session
  <1>3. sess' = [sess EXCEPT ![s] = x] /\ UNCHANGED <<conn, poolVars, route, granted, delivered>>
    BY DEF Connect
  <1> HIDE DEF x
  <1>4. sess' \in [Clients -> Session] /\ DueInv'
    BY <1>0, <1>1, <1>2, <1>3, SessionReplaced
  <1>5. \A t \in Clients : sess'[t].holding = sess[t].holding
    BY <1>0, <1>2, <1>3 DEF Typed
  <1>6. BoundInv'
    BY <1>0, <1>3, <1>5, PoolUntouched DEF poolVars
  <1> QED  BY <1>0, <1>3, <1>4, <1>6 DEF Safe, Typed, poolVars

LEMMA AuthenticationFailsSafe ==
    ASSUME Safe, NEW s \in Clients, AuthenticationFails(s) PROVE Safe'
  <1> DEFINE x == Gone(FALSE)
  <1>0. Typed /\ DueInv /\ BoundInv
    BY DEF Safe
  <1>1. x \in Session /\ x.due = 0 /\ x.sent = 0 /\ x.holding = None
    BY GoneTyped
  <1>2. sess' = [sess EXCEPT ![s] = x] /\ UNCHANGED <<conn, poolVars, route, granted, delivered>>
    BY DEF AuthenticationFails
  <1> HIDE DEF x
  <1>3. x.due <= x.sent
    BY <1>1
  <1>4. sess' \in [Clients -> Session] /\ DueInv'
    BY <1>0, <1>1, <1>2, <1>3, SessionReplaced
  <1>5. \A t \in Clients : sess'[t].holding \in {sess[t].holding, None}
    BY <1>0, <1>1, <1>2 DEF Typed
  <1>6. BoundInv'
    BY <1>0, <1>2, <1>5, PoolUntouched DEF poolVars
  <1> QED  BY <1>0, <1>2, <1>4, <1>6 DEF Safe, Typed, poolVars

LEMMA WaitTimesOutSafe ==
    ASSUME Safe, NEW s \in Clients, WaitTimesOut(s) PROVE Safe'
  <1> DEFINE x == Rejected(sess[s])
  <1>0. Typed /\ DueInv /\ BoundInv
    BY DEF Safe
  <1>1. sess[s] \in Session /\ sess[s].due <= sess[s].sent
    BY <1>0 DEF Typed, DueInv
  <1>2. x \in Session /\ x.due <= x.sent /\ x.holding \in {sess[s].holding, None}
    BY <1>1, RejectedTyped
  <1>3. sess' = [sess EXCEPT ![s] = x]
        /\ UNCHANGED <<conn, idle, all, opening, cached, poolRoute, route, granted, delivered>>
    BY DEF WaitTimesOut
  <1> HIDE DEF x
  <1>4. sess' \in [Clients -> Session] /\ DueInv'
    BY <1>0, <1>2, <1>3, SessionReplaced
  <1>5. \A t \in Clients : sess'[t].holding \in {sess[t].holding, None}
    BY <1>0, <1>2, <1>3 DEF Typed
  <1>6. BoundInv'
    BY <1>0, <1>3, <1>5, PoolUntouched
  <1>7. waiters' \in Seq(Clients)
    <2>1. PICK i \in 1..Len(waiters) :
            waiters' = SubSeq(waiters, 1, i - 1) \o SubSeq(waiters, i + 1, Len(waiters))
      BY DEF WaitTimesOut
    <2>2. waiters \in Seq(Clients) /\ Len(waiters) \in Nat
      BY <1>0, LenProperties DEF Typed
    <2>3. SubSeq(waiters, 1, i - 1) \in Seq(Clients)
      BY <2>2, SubSeqProperties
    <2>4. SubSeq(waiters, i + 1, Len(waiters)) \in Seq(Clients)
      BY <2>2, SubSeqProperties
    <2> QED  BY <2>1, <2>3, <2>4, ConcatProperties
  <1> QED  BY <1>0, <1>3, <1>4, <1>6, <1>7 DEF Safe, Typed

LEMMA RouteChangesSafe == ASSUME Safe, RouteChanges PROVE Safe'
  <1>0. Typed /\ DueInv /\ BoundInv
    BY DEF Safe
  <1>1. UNCHANGED <<sess, conn, poolVars, granted, delivered>> /\ route' \in 1..MaxRoutes
    BY <1>0, BoundsAssumption DEF RouteChanges, Typed
  <1>2. BoundInv'
    BY <1>0, <1>1, PoolUntouched DEF poolVars
  <1> QED  BY <1>0, <1>1, <1>2 DEF Safe, Typed, DueInv, poolVars

\* Connections that were open, or closed already, are destroyed.
LEMMA BoundDestroyed ==
    ASSUME Typed, BoundInv, NEW C, C \subseteq Conns,
           \A c \in C : ~IsOpening(c),
           \A c \in Conns : conn'[c].sock = IF c \in C THEN "closed" ELSE conn[c].sock,
           all' \subseteq all, all \ C \subseteq all', idle' \subseteq idle,
           UNCHANGED <<opening, granted>>,
           \A t \in Clients : sess'[t].holding \in {sess[t].holding, None}
    PROVE  BoundInv'
  <1>1. \A c \in Conns : IsOpening(c)' <=> IsOpening(c)
    BY DEF IsOpening
  <1>2. \A c \in Conns : conn'[c].sock = "open" => c \in all'
    BY DEF BoundInv
  <1>3. \A c \in Conns : IsOpening(c) => ~Referenced(c)'
    BY NoneAssumption DEF Referenced, BoundInv
  <1> QED  BY <1>1, <1>2, <1>3, BoundKept

LEMMA BackendClosesSafe == ASSUME Safe, NEW c \in Conns, BackendCloses(c) PROVE Safe'
  <1>0. Typed /\ DueInv /\ BoundInv
    BY DEF Safe
  <1>1. /\ conn[c].sock = "open" /\ conn' = Destroyed(conn, {c})
        /\ all' = all \ {c} /\ idle' = idle \ {c}
        /\ UNCHANGED <<sess, opening, waiters, cached, poolRoute, route, granted, delivered>>
    BY DEF BackendCloses
  <1>2. /\ conn' \in [Conns -> Connection]
        /\ \A d \in Conns : conn'[d].sock = IF d \in {c} THEN "closed" ELSE conn[d].sock
    BY <1>0, <1>1, DestroyedTyped DEF Typed
  <1>3. BoundInv'
    BY <1>0, <1>1, <1>2, BoundDestroyed DEF IsOpening
  <1> QED  BY <1>0, <1>1, <1>2, <1>3 DEF Safe, Typed, DueInv

LEMMA BackendGarblesSafe == ASSUME Safe, NEW c \in Conns, BackendGarbles(c) PROVE Safe'
  <1>0. Typed /\ DueInv /\ BoundInv
    BY DEF Safe
  <1>1. /\ conn[c].sock = "open" /\ conn' = Destroyed(conn, {c})
        /\ UNCHANGED <<sess, poolVars, route, granted, delivered>>
    BY DEF BackendGarbles, Reading
  <1>2. /\ conn' \in [Conns -> Connection]
        /\ \A d \in Conns : conn'[d].sock = IF d \in {c} THEN "closed" ELSE conn[d].sock
    BY <1>0, <1>1, DestroyedTyped DEF Typed
  <1>3. BoundInv'
    BY <1>0, <1>1, <1>2, BoundDestroyed DEF IsOpening, poolVars
  <1> QED  BY <1>0, <1>1, <1>2, <1>3 DEF Safe, Typed, DueInv, poolVars

LEMMA SweepIdleSafe == ASSUME Safe, SweepIdle PROVE Safe'
  <1>0. Typed /\ DueInv /\ BoundInv
    BY DEF Safe
  <1>1. PICK swept \in SUBSET idle : /\ conn' = Destroyed(conn, swept)
                                     /\ idle' = idle \ swept /\ all' = all \ swept
    BY DEF SweepIdle
  <1>2. UNCHANGED <<sess, opening, waiters, cached, poolRoute, route, granted, delivered>>
    BY DEF SweepIdle
  <1>3. /\ conn' \in [Conns -> Connection]
        /\ \A d \in Conns : conn'[d].sock = IF d \in swept THEN "closed" ELSE conn[d].sock
    BY <1>0, <1>1, DestroyedTyped DEF Typed
  <1>4. swept \subseteq Conns /\ \A d \in swept : ~IsOpening(d)
    BY <1>0 DEF Typed, BoundInv, Referenced
  <1>5. BoundInv'
    BY <1>0, <1>1, <1>2, <1>3, <1>4, BoundDestroyed
  <1> QED  BY <1>0, <1>1, <1>2, <1>3, <1>5 DEF Safe, Typed, DueInv

LEMMA ClientLeavesSafe == ASSUME Safe, NEW s \in Clients, ClientLeaves(s) PROVE Safe'
  <1> DEFINE x == Gone(sess[s].acquiring)
             c == sess[s].holding
  <1>0. Typed /\ DueInv /\ BoundInv
    BY DEF Safe
  <1>1. sess[s] \in Session /\ sess[s].acquiring \in BOOLEAN /\ c \in Conns \cup {None}
    BY <1>0 DEF Typed, Session
  <1>2. x \in Session /\ x.due = 0 /\ x.sent = 0 /\ x.holding = None
    BY <1>1, GoneTyped
  <1>3. /\ sess' = [sess EXCEPT ![s] = x]
        /\ UNCHANGED <<opening, waiters, cached, poolRoute, route, granted, delivered>>
    BY DEF ClientLeaves
  <1>4. \/ UNCHANGED <<conn, idle, all>>
        \/ /\ c # None
           /\ conn' = Destroyed([conn EXCEPT ![c].onMessage = None], {c})
           /\ all' = all \ {c} /\ idle' = idle \ {c}
    BY DEF ClientLeaves
  <1> HIDE DEF x
  <1>5. x.due <= x.sent
    BY <1>2
  <1>6. sess' \in [Clients -> Session] /\ DueInv'
    BY <1>0, <1>2, <1>3, <1>5, SessionReplaced
  <1>7. \A t \in Clients : sess'[t].holding \in {sess[t].holding, None}
    BY <1>0, <1>2, <1>3 DEF Typed
  <1>8. CASE UNCHANGED <<conn, idle, all>>
    <2>1. BoundInv'
      BY <1>0, <1>3, <1>7, <1>8, PoolUntouched
    <2> QED  BY <1>0, <1>3, <1>6, <1>8, <2>1 DEF Safe, Typed
  <1>9. CASE /\ c # None
             /\ conn' = Destroyed([conn EXCEPT ![c].onMessage = None], {c})
             /\ all' = all \ {c} /\ idle' = idle \ {c}
    <2> DEFINE r == [conn[c] EXCEPT !.onMessage = None]
               cs == [conn EXCEPT ![c] = r]
    <2>1. c \in Conns
      BY <1>1, <1>9
    <2>2. r \in Connection /\ r.sock = conn[c].sock
      BY <1>0, <2>1 DEF Connection, Typed
    <2> HIDE DEF r
    <2>3. cs \in [Conns -> Connection] /\ \A d \in Conns : cs[d].sock = conn[d].sock
      BY <1>0, <2>2 DEF Typed
    <2>4. conn' = Destroyed(cs, {c})
      BY <1>9 DEF r
    <2> HIDE DEF cs
    <2>5. /\ conn' \in [Conns -> Connection]
          /\ \A d \in Conns : conn'[d].sock = IF d \in {c} THEN "closed" ELSE conn[d].sock
      BY <2>3, <2>4, DestroyedTyped
    <2>6. ~IsOpening(c)
      BY <1>0, <2>1 DEF BoundInv, Referenced
    <2>7. BoundInv'
      BY <1>0, <1>3, <1>7, <1>9, <2>1, <2>5, <2>6, BoundDestroyed
    <2> QED  BY <1>0, <1>3, <1>6, <1>9, <2>5, <2>7 DEF Safe, Typed
  <1> QED  BY <1>4, <1>8, <1>9

LEMMA OpeningEnds ==
    ASSUME Typed, BoundInv, NEW c \in Conns, IsOpening(c)
    PROVE  /\ IsFiniteSet({d \in Conns : IsOpening(d)} \ {c})
           /\ Cardinality({d \in Conns : IsOpening(d)} \ {c}) = opening - 1
           /\ opening \in Nat
  <1> DEFINE O == {d \in Conns : IsOpening(d)}
  <1>1. IsFiniteSet(O) /\ Cardinality(O) = opening /\ Cardinality(O) \in Nat
    BY ConnsFinite DEF BoundInv
  <1> QED  BY <1>1, FS_RemoveElement

LEMMA OpenFailsSafe == ASSUME Safe, NEW c \in Conns, OpenFails(c) PROVE Safe'
  <1>0. Typed /\ DueInv /\ BoundInv
    BY DEF Safe
  <1>1. /\ IsOpening(c) /\ conn' = Destroyed(conn, {c}) /\ opening' = opening - 1
        /\ sess' = [sess EXCEPT ![conn[c].opener] = Rejected(@)]
        /\ UNCHANGED <<idle, all, waiters, cached, poolRoute, route, granted, delivered>>
    BY DEF OpenFails, IsOpening
  <1>2. /\ conn' \in [Conns -> Connection]
        /\ \A d \in Conns : conn'[d].sock = IF d = c THEN "closed" ELSE conn[d].sock
    BY <1>0, <1>1, DestroyedTyped DEF Typed
  <1>3. /\ sess' \in [Clients -> Session] /\ DueInv'
        /\ \A t \in Clients : sess'[t].holding \in {sess[t].holding, None}
    <2>1. \A t \in Clients : sess'[t] \in {sess[t], Rejected(sess[t])}
      BY <1>0, <1>1 DEF Typed
    <2>2. \A t \in Clients : sess[t] \in Session /\ sess[t].due <= sess[t].sent
      BY <1>0 DEF Typed, DueInv
    <2>3. \A t \in Clients : /\ sess'[t] \in Session /\ sess'[t].due <= sess'[t].sent
                             /\ sess'[t].holding \in {sess[t].holding, None}
      BY <2>1, <2>2, RejectedTyped
    <2> QED  BY <1>0, <1>1, <2>3 DEF Typed, DueInv
  <1>4. {d \in Conns : IsOpening(d)'} = {d \in Conns : IsOpening(d)} \ {c}
    BY <1>2 DEF IsOpening
  <1>5. Cardinality(all) \in Nat
    BY <1>0, ConnsFinite DEF Typed
  <1>6. Cardinality(all') + opening' <= Size
    <2>1. opening \in Nat /\ Cardinality(all) + opening <= Size /\ opening' = opening - 1
      BY <1>0, <1>1, OpeningEnds DEF BoundInv
    <2>2. Cardinality(all') = Cardinality(all)
      BY <1>1
    <2> QED  BY <1>5, <2>1, <2>2, SizeAssumption
  <1>7. \A d \in Conns : IsOpening(d)' => ~Referenced(d)'
    BY <1>0, <1>1, <1>2, <1>3, NoneAssumption, ZenonT(60) DEF BoundInv, Referenced, IsOpening
  <1>8. \A d \in Conns : conn'[d].sock = "open" => d \in all'
    BY <1>0, <1>1, <1>2 DEF BoundInv
  <1>9. BoundInv'
    BY <1>0, <1>1, <1>4, <1>6, <1>7, <1>8, OpeningEnds DEF BoundInv
  <1> QED  BY <1>0, <1>1, <1>2, <1>3, <1>9 DEF Safe, Typed

LEMMA OpenSucceedsSafe == ASSUME Safe, NEW c \in Conns, OpenSucceeds(c) PROVE Safe'
  <1> DEFINE x == [conn[c] EXCEPT !.sock = "open", !.opener = None]
  <1>0. Typed /\ DueInv /\ BoundInv
    BY DEF Safe
  <1>1. /\ IsOpening(c) /\ conn' = [conn EXCEPT ![c] = x]
        /\ all' = all \cup {c} /\ opening' = opening - 1
        /\ granted' = [granted EXCEPT ![conn[c].opener] = c]
        /\ UNCHANGED <<sess, idle, waiters, cached, poolRoute, route, delivered>>
    BY DEF OpenSucceeds, IsOpening
  <1>2. x \in Connection /\ x.sock = "open"
    BY <1>0 DEF Typed, Connection
  <1> HIDE DEF x
  <1>3. /\ conn' \in [Conns -> Connection]
        /\ \A d \in Conns : conn'[d].sock = IF d = c THEN "open" ELSE conn[d].sock
    BY <1>0, <1>1, <1>2 DEF Typed
  <1>4. {d \in Conns : IsOpening(d)'} = {d \in Conns : IsOpening(d)} \ {c}
    BY <1>3 DEF IsOpening
  <1>5. /\ granted' \in [Clients -> Conns \cup {None}]
        /\ \A t \in Clients : granted'[t] \in {granted[t], c}
    BY <1>0, <1>1 DEF Typed
  <1>6. IsFiniteSet(all) /\ Cardinality(all) \in Nat /\ c \notin all
    BY <1>0, <1>1, ConnsFinite DEF Typed, BoundInv, Referenced
  <1>7. Cardinality(all') = Cardinality(all) + 1
    BY <1>1, <1>6, FS_AddElement
  <1>8. Cardinality(all') + opening' <= Size
    <2>1. opening \in Nat /\ Cardinality(all) + opening <= Size /\ opening' = opening - 1
      BY <1>0, <1>1, OpeningEnds DEF BoundInv
    <2> QED  BY <1>6, <1>7, <2>1, SizeAssumption
  <1>9. \A d \in Conns : IsOpening(d)' => ~Referenced(d)'
    <2> SUFFICES ASSUME NEW d \in Conns, IsOpening(d)' PROVE ~Referenced(d)'
      OBVIOUS
    <2>1. d # c /\ IsOpening(d) /\ ~Referenced(d)
      BY <1>0, <1>3 DEF BoundInv, IsOpening
    <2> QED  BY <1>1, <1>5, <2>1 DEF Referenced
  <1>10. \A d \in Conns : conn'[d].sock = "open" => d \in all'
    BY <1>0, <1>1, <1>3 DEF BoundInv
  <1>11. BoundInv'
    BY <1>0, <1>1, <1>4, <1>8, <1>9, <1>10, OpeningEnds DEF BoundInv
  <1> QED  BY <1>0, <1>1, <1>3, <1>5, <1>11 DEF Safe, Typed, DueInv

\* What PoolTyped adds to the rest of the types.
LEMMA TypedFromPool ==
    ASSUME Typed, PoolTyped', sess' \in [Clients -> Session], cached' \in BOOLEAN,
           poolRoute' \in 0..MaxRoutes, UNCHANGED route,
           delivered' \subseteq Clients \X (Clients \cup {None})
    PROVE  Typed'
  BY DEF Typed, PoolTyped

LEMMA CurrentTyped ==
    ASSUME Typed
    PROVE  /\ Current \in [idle : SUBSET Conns, all : SUBSET Conns, waiters : Seq(Clients)]
           /\ Current.idle = idle /\ Current.all = all /\ Current.waiters = waiters
           /\ Emptied \in [idle : SUBSET Conns, all : SUBSET Conns, waiters : Seq(Clients)]
           /\ Emptied.idle = {} /\ Emptied.all = {} /\ Emptied.waiters = <<>>
  <1>1. <<>> \in Seq(Clients)
    OBVIOUS
  <1> QED  BY <1>1 DEF Current, Emptied, Typed

\* acquire() on the pool as it is.
LEMMA AcquireSafe ==
    ASSUME Typed, BoundInv, NEW s \in Clients, Acquire(s, conn, Current),
           \A t \in Clients : sess'[t].holding \in {sess[t].holding, None}
    PROVE  PoolTyped' /\ BoundInv'
  <1>1. /\ Current \in [idle : SUBSET Conns, all : SUBSET Conns, waiters : Seq(Clients)]
        /\ Current.idle \subseteq idle /\ Current.all \subseteq all /\ Current.all = all
    BY CurrentTyped
  <1>2. conn \in [Conns -> Connection]
    BY DEF Typed
  <1>3. PoolTyped'
    BY <1>1, <1>2, AcquireTyped
  <1>4. /\ \A c \in Conns : conn[c].sock = "open" => c \in Current.all
        /\ \A c \in Conns : conn[c].sock = "opening" <=> IsOpening(c)
        /\ \A c \in Conns : IsOpening(c) => ~Referenced(c)
    BY <1>1 DEF BoundInv, IsOpening
  <1> QED  BY <1>1, <1>2, <1>3, <1>4, BoundAcquire

LEMMA ClientSendsSafe ==
    ASSUME Safe, NEW s \in Clients, NEW opens \in BOOLEAN, ClientSends(s, opens) PROVE Safe'
  <1> DEFINE q == Append(sess[s].queued, opens)
             y == [sess[s] EXCEPT !.sent = sess[s].sent + 1, !.due = sess[s].due + 1]
             z == [y EXCEPT !.queued = q]
             w == [z EXCEPT !.acquiring = TRUE]
  <1>0. Typed /\ DueInv /\ BoundInv
    BY DEF Safe
  <1>1. /\ sess[s] \in Session /\ sess[s].due \in 0..MaxQueries /\ sess[s].sent \in 0..MaxQueries
        /\ sess[s].due <= sess[s].sent /\ sess[s].sent < MaxQueries
        /\ sess[s].queued \in Seq(BOOLEAN) /\ sess[s].holding \in Conns \cup {None}
    BY <1>0 DEF Typed, DueInv, Session, ClientSends
  <1>2. /\ sess[s].due + 1 \in 0..MaxQueries /\ sess[s].sent + 1 \in 0..MaxQueries
        /\ sess[s].due + 1 <= sess[s].sent + 1
    BY <1>1, BoundsAssumption
  <1>3. q \in Seq(BOOLEAN)
    BY <1>1
  <1> HIDE DEF q
  <1>4. /\ y \in Session /\ y.due <= y.sent /\ y.holding = sess[s].holding
        /\ y.queued = sess[s].queued
    BY <1>1, <1>2 DEF Session
  <1>5. [sess EXCEPT ![s].sent = @ + 1, ![s].due = @ + 1] = [sess EXCEPT ![s] = y]
    BY <1>0 DEF Typed
  <1> HIDE DEF y
  <1>6. z \in Session /\ z.due <= z.sent /\ z.holding = sess[s].holding
    BY <1>3, <1>4 DEF Session
  <1>7. w \in Session /\ w.due <= w.sent /\ w.holding = sess[s].holding
    <2> HIDE DEF z
    <2> QED  BY <1>6 DEF Session
  <1>8. [[sess EXCEPT ![s] = y] EXCEPT ![s].queued = Append(@, opens)] = [sess EXCEPT ![s] = z]
    BY <1>0, <1>4 DEF Typed, q
  <1>9. [[sess EXCEPT ![s] = y] EXCEPT ![s].queued = Append(@, opens), ![s].acquiring = TRUE]
          = [sess EXCEPT ![s] = w]
    BY <1>0, <1>4 DEF Typed, q
  <1> HIDE DEF z, w
  <1>10. UNCHANGED <<cached, poolRoute, route, delivered>>
    BY DEF ClientSends
  <1>11. ASSUME NEW x \in Session, x.due <= x.sent, x.holding = sess[s].holding,
                sess' = [sess EXCEPT ![s] = x]
         PROVE  /\ sess' \in [Clients -> Session] /\ DueInv'
                /\ \A t \in Clients : sess'[t].holding \in {sess[t].holding, None}
    BY <1>0, <1>11, SessionReplaced DEF Typed
  <1>12. CASE /\ sess[s].holding # None /\ sess' = [sess EXCEPT ![s] = y]
              /\ conn' = Sent(conn, sess[s].holding, <<[from |-> s, opens |-> opens]>>)
              /\ UNCHANGED <<idle, all, opening, waiters, granted>>
    <2>1. sess[s].holding \in Conns /\ conn \in [Conns -> Connection]
      BY <1>0, <1>1, <1>12 DEF Typed
    <2>2. <<[from |-> s, opens |-> opens]>> \in Seq(Query)
      <3>1. [from |-> s, opens |-> opens] \in Query
        BY DEF Query
      <3> QED  BY <3>1
    <2>3. conn' \in [Conns -> Connection] /\ \A d \in Conns : conn'[d].sock = conn[d].sock
      BY <1>12, <2>1, <2>2, SentTyped
    <2>4. BoundInv'
      BY <1>0, <1>4, <1>11, <1>12, <2>3, PoolUntouched
    <2> QED  BY <1>0, <1>4, <1>10, <1>11, <1>12, <2>3, <2>4 DEF Safe, Typed
  <1>13. CASE /\ sess' = [sess EXCEPT ![s] = z]
              /\ UNCHANGED <<conn, idle, all, opening, waiters, granted>>
    <2>1. BoundInv'
      BY <1>0, <1>6, <1>11, <1>13, PoolUntouched
    <2> QED  BY <1>0, <1>6, <1>10, <1>11, <1>13, <2>1 DEF Safe, Typed
  <1>14. CASE sess' = [sess EXCEPT ![s] = w] /\ Acquire(s, conn, Current)
    <2>1. PoolTyped' /\ BoundInv'
      BY <1>0, <1>7, <1>11, <1>14, AcquireSafe
    <2>2. cached' \in BOOLEAN /\ poolRoute' \in 0..MaxRoutes /\ UNCHANGED route
          /\ delivered' \subseteq Clients \X (Clients \cup {None})
      BY <1>0, <1>10 DEF Typed
    <2> QED  BY <1>0, <1>7, <1>11, <1>14, <2>1, <2>2, TypedFromPool DEF Safe
  <1> QED  BY <1>5, <1>8, <1>9, <1>12, <1>13, <1>14 DEF ClientSends

LEMMA LoginSafe == ASSUME Safe, NEW s \in Clients, Login(s) PROVE Safe'
  <1>0. Typed /\ DueInv /\ BoundInv
    BY DEF Safe
  <1>1. sess[s] \in Session /\ sess[s].due <= sess[s].sent /\ sess[s].seen \in 0..MaxRoutes
    BY <1>0 DEF Typed, DueInv, Session
  <1>2. /\ poolRoute' \in 0..MaxRoutes /\ UNCHANGED <<route, delivered>>
        /\ delivered' \subseteq Clients \X (Clients \cup {None})
    BY <1>0, <1>1 DEF Login, Typed
  <1>3. CASE /\ sess' = [sess EXCEPT ![s].phase = "active"]
             /\ UNCHANGED <<conn, idle, all, opening, waiters, cached, granted>>
    <2> DEFINE x == [sess[s] EXCEPT !.phase = "active"]
    <2>1. x \in Session /\ x.due <= x.sent /\ x.holding = sess[s].holding
      BY <1>1 DEF Session
    <2>2. sess' = [sess EXCEPT ![s] = x]
      BY <1>3
    <2> HIDE DEF x
    <2>3. /\ sess' \in [Clients -> Session] /\ DueInv'
          /\ \A t \in Clients : sess'[t].holding \in {sess[t].holding, None}
      BY <1>0, <2>1, <2>2, SessionReplaced DEF Typed
    <2>4. BoundInv'
      BY <1>0, <1>3, <2>3, PoolUntouched
    <2> QED  BY <1>0, <1>2, <1>3, <2>3, <2>4 DEF Safe, Typed
  <1>4. ASSUME NEW ss \in [Clients -> Session],
               \A t \in Clients : ss[t].due <= ss[t].sent,
               \A t \in Clients : ss[t].holding \in {sess[t].holding, None},
               sess' = [ss EXCEPT ![s].phase = "login", ![s].acquiring = TRUE]
        PROVE  /\ sess' \in [Clients -> Session] /\ DueInv'
               /\ \A t \in Clients : sess'[t].holding \in {sess[t].holding, None}
    <2> DEFINE x == [ss[s] EXCEPT !.phase = "login", !.acquiring = TRUE]
    <2>1. x \in Session /\ x.due = ss[s].due /\ x.sent = ss[s].sent /\ x.holding = ss[s].holding
      BY SessionMoved
    <2>2. sess' = [ss EXCEPT ![s] = x]
      BY <1>4
    <2> HIDE DEF x
    <2> QED  BY <1>4, <2>1, <2>2 DEF DueInv
  <1>5. CASE /\ sess' = [sess EXCEPT ![s].phase = "login", ![s].acquiring = TRUE]
             /\ Acquire(s, conn, Current) /\ UNCHANGED cached
    <2>1. /\ sess' \in [Clients -> Session] /\ DueInv'
          /\ \A t \in Clients : sess'[t].holding \in {sess[t].holding, None}
      BY <1>0, <1>4, <1>5 DEF Typed, DueInv
    <2>2. PoolTyped' /\ BoundInv'
      BY <1>0, <1>5, <2>1, AcquireSafe
    <2> QED  BY <1>0, <1>2, <1>5, <2>1, <2>2, TypedFromPool DEF Safe, Typed
  <1>6. ASSUME NEW ss,
               ss = [t \in Clients |-> IF \E i \in 1..Len(waiters) : waiters[i] = t
                                       THEN Rejected(sess[t]) ELSE sess[t]],
               sess' = [ss EXCEPT ![s].phase = "login", ![s].acquiring = TRUE],
               cached' = FALSE, Acquire(s, Destroyed(conn, all), Emptied)
        PROVE  Safe'
    <2>1. \A t \in Clients : sess[t] \in Session /\ sess[t].due <= sess[t].sent
      BY <1>0 DEF Typed, DueInv
    <2>2. \A t \in Clients : ss[t] \in {sess[t], Rejected(sess[t])}
      BY <1>6
    <2>3. \A t \in Clients : /\ ss[t] \in Session /\ ss[t].due <= ss[t].sent
                             /\ ss[t].holding \in {sess[t].holding, None}
      BY <2>1, <2>2, RejectedTyped
    <2>4. ss \in [Clients -> Session]
      BY <1>6, <2>3
    <2>5. /\ sess' \in [Clients -> Session] /\ DueInv'
          /\ \A t \in Clients : sess'[t].holding \in {sess[t].holding, None}
      BY <1>4, <1>6, <2>3, <2>4
    <2> DEFINE cs == Destroyed(conn, all)
    <2>6. /\ cs \in [Conns -> Connection]
          /\ \A c \in Conns : c \in all => cs[c].sock = "closed"
          /\ \A c \in Conns : c \notin all => cs[c] = conn[c]
      BY <1>0, DestroyedTyped DEF Typed
    <2>7. Acquire(s, cs, Emptied)
      BY <1>6
    <2> HIDE DEF cs
    <2>8. /\ Emptied \in [idle : SUBSET Conns, all : SUBSET Conns, waiters : Seq(Clients)]
          /\ Emptied.idle \subseteq idle /\ Emptied.all \subseteq all /\ Emptied.all = {}
      BY <1>0, CurrentTyped
    <2>9. PoolTyped'
      BY <1>0, <2>6, <2>7, <2>8, AcquireTyped
    <2>10. /\ \A c \in Conns : cs[c].sock = "opening" <=> IsOpening(c)
           /\ \A c \in Conns : cs[c].sock = "open" => c \in Emptied.all
           /\ \A c \in Conns : IsOpening(c) => ~Referenced(c)
      BY <1>0, <2>6 DEF BoundInv, IsOpening, Referenced
    <2>11. BoundInv'
      BY <1>0, <2>5, <2>6, <2>7, <2>8, <2>10, BoundAcquire
    <2> QED  BY <1>0, <1>2, <1>6, <2>5, <2>9, <2>11, TypedFromPool DEF Safe
  <1> QED  BY <1>3, <1>5, <1>6 DEF Login

LEMMA GrantedSafe == ASSUME Safe, NEW s \in Clients, Granted(s) PROVE Safe'
  <1> DEFINE c == granted[s]
             gr == [granted EXCEPT ![s] = None]
  <1>0. Typed /\ DueInv /\ BoundInv
    BY DEF Safe
  <1>1. /\ c \in Conns /\ gr \in [Clients -> Conns \cup {None}]
        /\ \A t \in Clients : gr[t] \in {granted[t], None}
        /\ conn \in [Conns -> Connection]
    BY <1>0 DEF Granted, Typed
  <1>2. ~IsOpening(c)
    BY <1>0, <1>1 DEF BoundInv, Referenced
  <1>3. sess[s] \in Session /\ sess[s].due <= sess[s].sent /\ sess[s].queued \in Seq(BOOLEAN)
    BY <1>0 DEF Typed, DueInv, Session
  <1>4. UNCHANGED <<poolRoute, route, delivered>>
    BY DEF Granted
  <1>5. ASSUME NEW ph \in {"active", "closed"}, ph = "active" \/ sess[s].phase = ph,
               sess' = [sess EXCEPT ![s] = [sess[s] EXCEPT !.phase = ph, !.acquiring = FALSE]],
               cached' \in BOOLEAN, Release(c, conn, gr)
        PROVE  Safe'
    <2> DEFINE x == [sess[s] EXCEPT !.phase = ph, !.acquiring = FALSE]
    <2>1. x \in Session /\ x.due = sess[s].due /\ x.sent = sess[s].sent
          /\ x.holding = sess[s].holding
      BY <1>3, <1>5 DEF Session
    <2>2. sess' = [sess EXCEPT ![s] = x]
      BY <1>5
    <2> HIDE DEF x
    <2>3. /\ sess' \in [Clients -> Session] /\ DueInv'
          /\ \A t \in Clients : sess'[t].holding \in {sess[t].holding, None}
      BY <1>0, <1>3, <2>1, <2>2, SessionReplaced DEF Typed
    <2> HIDE DEF c, gr
    <2>4. PoolTyped'
      BY <1>0, <1>1, <1>5, ReleaseTyped
    <2>5. BoundInv'
      BY <1>0, <1>1, <1>2, <1>5, <2>3, BoundRelease
    <2> QED  BY <1>0, <1>4, <1>5, <2>3, <2>4, <2>5, TypedFromPool DEF Safe, Typed
  <1>6. CASE /\ sess[s].phase = "login"
             /\ sess' = [sess EXCEPT ![s].phase = "active", ![s].acquiring = FALSE]
             /\ cached' = TRUE /\ Release(c, conn, gr)
    <2>1. sess' = [sess EXCEPT ![s] = [sess[s] EXCEPT !.phase = "active", !.acquiring = FALSE]]
      BY <1>6
    <2> QED  BY <1>5, <1>6, <2>1
  <1>7. CASE /\ sess[s].phase = "closed"
             /\ sess' = [sess EXCEPT ![s].acquiring = FALSE]
             /\ UNCHANGED cached /\ Release(c, conn, gr)
    <2>1. [sess[s] EXCEPT !.acquiring = FALSE]
             = [sess[s] EXCEPT !.phase = "closed", !.acquiring = FALSE]
      BY <1>3, <1>7 DEF Session
    <2>2. sess' = [sess EXCEPT ![s] = [sess[s] EXCEPT !.phase = "closed", !.acquiring = FALSE]]
      BY <1>7, <2>1
    <2>3. cached' \in BOOLEAN
      BY <1>0, <1>7 DEF Typed
    <2> QED  BY <1>5, <1>7, <2>2, <2>3
  <1>8. CASE /\ sess' = [sess EXCEPT ![s].holding = c, ![s].queued = <<>>, ![s].acquiring = FALSE]
             /\ conn' = Sent([conn EXCEPT ![c].onMessage = s], c,
                             [i \in DOMAIN sess[s].queued |->
                                [from |-> s, opens |-> sess[s].queued[i]]])
             /\ granted' = gr
             /\ UNCHANGED <<idle, all, opening, waiters, cached>>
    <2> DEFINE x == [sess[s] EXCEPT !.holding = c, !.queued = <<>>, !.acquiring = FALSE]
               r == [conn[c] EXCEPT !.onMessage = s]
               cs == [conn EXCEPT ![c] = r]
               qs == [i \in DOMAIN sess[s].queued |-> [from |-> s, opens |-> sess[s].queued[i]]]
    <2>0. <<>> \in Seq(BOOLEAN)
      OBVIOUS
    <2>1. x \in Session /\ x.due = sess[s].due /\ x.sent = sess[s].sent /\ x.holding = c
      BY <1>1, <1>3, <2>0 DEF Session
    <2>2. sess' = [sess EXCEPT ![s] = x]
      BY <1>8
    <2>3. r \in Connection /\ r.sock = conn[c].sock
      <3>1. conn[c] \in Connection
        BY <1>1
      <3> QED  BY <3>1 DEF Connection
    <2>4. qs \in Seq(Query)
      <3>1. Len(sess[s].queued) \in Nat /\ DOMAIN sess[s].queued = 1..Len(sess[s].queued)
            /\ \A i \in 1..Len(sess[s].queued) : sess[s].queued[i] \in BOOLEAN
        BY <1>3, LenProperties, ElementOfSeq
      <3>2. \A i \in DOMAIN sess[s].queued : [from |-> s, opens |-> sess[s].queued[i]] \in Query
        BY <3>1 DEF Query
      <3>3. qs \in [1..Len(sess[s].queued) -> Query]
        BY <3>1, <3>2
      <3> HIDE DEF qs
      <3> QED  BY <3>1, <3>3, SeqDef
    <2> HIDE DEF x, r, qs
    <2>5. cs \in [Conns -> Connection] /\ \A d \in Conns : cs[d].sock = conn[d].sock
      BY <1>1, <2>3
    <2>6. conn' = Sent(cs, c, qs)
      BY <1>8 DEF r, qs
    <2> HIDE DEF cs
    <2>7. conn' \in [Conns -> Connection] /\ \A d \in Conns : conn'[d].sock = conn[d].sock
      BY <1>1, <2>4, <2>5, <2>6, SentTyped
    <2>8. sess' \in [Clients -> Session] /\ DueInv'
      BY <1>0, <1>3, <2>1, <2>2, SessionReplaced
    <2>9. /\ \A t \in Clients : sess'[t].holding \in {sess[t].holding, c}
          /\ \A t \in Clients : granted'[t] \in {granted[t], None}
      BY <1>0, <1>1, <1>8, <2>1, <2>2 DEF Typed
    <2>10. \A d \in Conns : IsOpening(d) => ~Referenced(d)'
      <3> SUFFICES ASSUME NEW d \in Conns, IsOpening(d) PROVE ~Referenced(d)'
        OBVIOUS
      <3>1. d # c /\ d # None /\ ~Referenced(d)
        BY <1>0, <1>2, NoneAssumption DEF BoundInv
      <3> QED  BY <1>8, <2>9, <3>1 DEF Referenced
    <2>11. BoundInv'
      BY <1>0, <1>8, <2>7, <2>10, BoundKept DEF BoundInv, IsOpening
    <2> QED  BY <1>0, <1>1, <1>4, <1>8, <2>7, <2>8, <2>11 DEF Safe, Typed
  <1> QED  BY <1>6, <1>7, <1>8 DEF Granted

LEMMA AnswerSafe == ASSUME Safe, NEW c \in Conns, Answer(c) PROVE Safe'
  <1> DEFINE q == Head(conn[c].inbox)
             tx == IF q.opens THEN q.from ELSE None
             y == [conn[c] EXCEPT !.inbox = Tail(conn[c].inbox), !.tx = tx]
             cs == [conn EXCEPT ![c].inbox = Tail(@), ![c].tx = tx]
             s == conn[c].onMessage
             answered == [sess EXCEPT ![s].due = IF @ = 0 THEN 0 ELSE @ - 1]
  <1>0. Typed /\ DueInv /\ BoundInv
    BY DEF Safe
  <1>1. /\ conn[c] \in Connection /\ conn[c].inbox \in Seq(Query) /\ conn[c].inbox # <<>>
        /\ conn[c].sock = "open" /\ s \in Clients \cup {None}
    BY <1>0 DEF Answer, Reading, Typed, Connection
  <1>2. q \in Query /\ Tail(conn[c].inbox) \in Seq(Query)
    BY <1>1, HeadTailProperties
  <1>3. q.from \in Clients \cup {None} /\ tx \in Clients \cup {None}
    BY <1>2 DEF Query
  <1>4. cs = [conn EXCEPT ![c] = y]
    BY <1>0 DEF Typed
  <1> HIDE DEF tx
  <1>5. y \in Connection /\ y.sock = "open"
    BY <1>1, <1>2, <1>3 DEF Connection
  <1> HIDE DEF y
  <1>6. cs \in [Conns -> Connection] /\ \A d \in Conns : cs[d].sock = conn[d].sock
    BY <1>0, <1>1, <1>4, <1>5 DEF Typed
  <1>7. UNCHANGED <<cached, poolRoute, route>>
    BY DEF Answer
  <1>8. \/ conn' = cs /\ UNCHANGED <<sess, idle, all, opening, waiters, granted, delivered>>
        \/ /\ s # None /\ delivered' = delivered \cup {<<s, q.from>>}
           /\ \/ sess' = [answered EXCEPT ![s].holding = None] /\ Release(c, cs, granted)
              \/ sess' = answered /\ conn' = cs /\ UNCHANGED <<idle, all, opening, waiters, granted>>
    BY DEF Answer, tx
  <1> HIDE DEF cs
  <1>9. CASE conn' = cs /\ UNCHANGED <<sess, idle, all, opening, waiters, granted, delivered>>
    <2>1. BoundInv'
      BY <1>0, <1>6, <1>9, PoolUntouched
    <2> QED  BY <1>0, <1>6, <1>7, <1>9, <2>1 DEF Safe, Typed, DueInv
  <1>10. CASE s # None /\ delivered' = delivered \cup {<<s, q.from>>}
    <2> DEFINE due == IF sess[s].due = 0 THEN 0 ELSE sess[s].due - 1
               x == [sess[s] EXCEPT !.due = due]
               z == [x EXCEPT !.holding = None]
    <2>1. s \in Clients /\ delivered' \subseteq Clients \X (Clients \cup {None})
      BY <1>0, <1>1, <1>3, <1>10 DEF Typed
    <2>2. /\ sess[s] \in Session /\ sess[s].due \in 0..MaxQueries /\ sess[s].sent \in 0..MaxQueries
          /\ sess[s].due <= sess[s].sent
      BY <1>0, <2>1 DEF Typed, DueInv, Session
    <2>3. due \in 0..MaxQueries /\ due <= sess[s].sent
      BY <2>2, BoundsAssumption
    <2>4. answered = [sess EXCEPT ![s] = x]
      OBVIOUS
    <2> HIDE DEF due
    <2>5. x \in Session /\ x.due <= x.sent /\ x.holding = sess[s].holding
      BY <2>2, <2>3 DEF Session
    <2>6. [answered EXCEPT ![s].holding = None] = [sess EXCEPT ![s] = z]
      BY <1>0, <2>1, <2>4 DEF Typed
    <2> HIDE DEF x, answered
    <2>7. z \in Session /\ z.due <= z.sent /\ z.holding = None
      BY <2>5 DEF Session
    <2> HIDE DEF z
    <2>8. CASE sess' = [sess EXCEPT ![s] = z] /\ Release(c, cs, granted)
      <3>1. /\ sess' \in [Clients -> Session] /\ DueInv'
            /\ \A t \in Clients : sess'[t].holding \in {sess[t].holding, None}
        BY <1>0, <2>1, <2>7, <2>8, SessionReplaced DEF Typed
      <3>2. granted \in [Clients -> Conns \cup {None}] /\ ~IsOpening(c)
            /\ \A t \in Clients : granted[t] \in {granted[t], None}
        BY <1>0, <1>1 DEF Typed, IsOpening
      <3>3. PoolTyped'
        BY <1>0, <1>6, <2>8, <3>2, ReleaseTyped
      <3>4. BoundInv'
        BY <1>0, <1>6, <2>8, <3>1, <3>2, BoundRelease
      <3> QED  BY <1>0, <1>7, <2>1, <3>1, <3>3, <3>4, TypedFromPool DEF Safe, Typed
    <2>9. CASE /\ sess' = [sess EXCEPT ![s] = x] /\ conn' = cs
               /\ UNCHANGED <<idle, all, opening, waiters, granted>>
      <3>1. /\ sess' \in [Clients -> Session] /\ DueInv'
            /\ \A t \in Clients : sess'[t].holding \in {sess[t].holding, None}
        BY <1>0, <2>1, <2>5, <2>9, SessionReplaced DEF Typed
      <3>2. BoundInv'
        BY <1>0, <1>6, <2>9, <3>1, PoolUntouched
      <3> QED  BY <1>0, <1>6, <1>7, <2>1, <2>9, <3>1, <3>2 DEF Safe, Typed
    <2> QED  BY <1>8, <1>9, <1>10, <2>4, <2>6, <2>8, <2>9
  <1> QED  BY <1>8, <1>9, <1>10

LEMMA SafeInit == Init => Safe
  <1> SUFFICES ASSUME Init PROVE Safe
    OBVIOUS
  <1>1. Typed
    <2>1. <<>> \in Seq(Clients)
      OBVIOUS
    <2>2. sess \in [Clients -> Session] /\ conn \in [Conns -> Connection]
      BY NoSessionTyped, NoConnectionTyped DEF Init
    <2>3. poolRoute \in 0..MaxRoutes /\ route \in 1..MaxRoutes
      BY BoundsAssumption DEF Init
    <2>4. granted \in [Clients -> Conns \cup {None}]
      BY DEF Init
    <2> QED  BY <2>1, <2>2, <2>3, <2>4 DEF Init, Typed
  <1>2. NoSession.due = 0 /\ NoSession.sent = 0 /\ NoConnection.sock = "unused"
    BY DEF NoSession, NoConnection
  <1>3. DueInv
    BY <1>2 DEF Init, DueInv
  <1>4. {c \in Conns : IsOpening(c)} = {}
    BY <1>2 DEF Init, IsOpening
  <1>5. BoundInv
    <2>1. Cardinality({}) = 0 /\ all = {} /\ opening = 0
      BY FS_EmptySet DEF Init
    <2>2. opening = Cardinality({c \in Conns : IsOpening(c)}) /\ Cardinality(all) + opening <= Size
      BY <1>4, <2>1, SizeAssumption
    <2>3. \A c \in Conns : ~IsOpening(c) /\ conn[c].sock # "open"
      BY <1>2 DEF Init, IsOpening
    <2> QED  BY <2>2, <2>3 DEF BoundInv
  <1> QED  BY <1>1, <1>3, <1>5 DEF Safe

LEMMA SafeNext == Safe /\ [Next]_vars => Safe'
  <1> SUFFICES ASSUME Safe, [Next]_vars PROVE Safe'
    OBVIOUS
  <1>1. CASE UNCHANGED vars
    BY <1>1 DEF vars, Safe, Typed, DueInv, BoundInv, IsOpening, Referenced
  <1>2. ASSUME NEW s \in Clients, Connect(s) \/ AuthenticationFails(s) \/ Login(s)
        PROVE  Safe'
    BY <1>2, ConnectSafe, AuthenticationFailsSafe, LoginSafe
  <1>3. ASSUME NEW s \in Clients, ClientLeaves(s) \/ Granted(s) \/ WaitTimesOut(s)
        PROVE  Safe'
    BY <1>3, ClientLeavesSafe, GrantedSafe, WaitTimesOutSafe
  <1>4. ASSUME NEW s \in Clients, NEW opens \in BOOLEAN, ClientSends(s, opens) PROVE Safe'
    BY <1>4, ClientSendsSafe
  <1>5. ASSUME NEW c \in Conns, OpenSucceeds(c) \/ OpenFails(c) \/ Answer(c) PROVE Safe'
    BY <1>5, OpenSucceedsSafe, OpenFailsSafe, AnswerSafe
  <1>6. ASSUME NEW c \in Conns, BackendCloses(c) \/ BackendGarbles(c) PROVE Safe'
    BY <1>6, BackendClosesSafe, BackendGarblesSafe
  <1> QED
    BY <1>1, <1>2, <1>3, <1>4, <1>5, <1>6, SweepIdleSafe, RouteChangesSafe DEF Next

\* Sessions, connections and the pool keep their types.
THEOREM TypeCorrect == Spec => []TypeOK
  <1>1. Safe => TypeOK
    BY ConnsFinite DEF Safe, Typed, BoundInv, TypeOK
  <1> QED  BY <1>1, SafeInit, SafeNext, PTL DEF Spec

\* The project never has more server connections than the pool size, whatever breaks, times
\* out or changes its route, and whether or not clients pipeline.
THEOREM ConnectionsAreBounded == Spec => []ServerConnectionsBounded
  <1>1. Safe => ServerConnectionsBounded
    <2> SUFFICES ASSUME Safe PROVE ServerConnectionsBounded
      OBVIOUS
    <2> DEFINE O == {c \in Conns : IsOpening(c)}
               S == {c \in Conns : conn[c].sock \in {"opening", "open"}}
    <2>1. S \subseteq O \cup all
      BY DEF Safe, BoundInv, IsOpening
    <2>2. IsFiniteSet(O) /\ Cardinality(O) = opening /\ opening \in Nat
      BY ConnsFinite DEF Safe, BoundInv
    <2>3. IsFiniteSet(all) /\ Cardinality(all) \in Nat
      BY ConnsFinite DEF Safe, Typed
    <2>4. O \cap all = {}
      BY DEF Safe, BoundInv, Referenced
    <2>5. IsFiniteSet(O \cup all) /\ Cardinality(O \cup all) = opening + Cardinality(all)
      <3>1. Cardinality(O \cap all) = 0
        BY <2>4, FS_EmptySet
      <3>2. /\ IsFiniteSet(O \cup all)
            /\ Cardinality(O \cup all) = Cardinality(O) + Cardinality(all) - Cardinality(O \cap all)
        BY <2>2, <2>3, FS_Union
      <3> HIDE DEF O
      <3> QED  BY <2>2, <2>3, <3>1, <3>2
    <2>6. Cardinality(S) <= Cardinality(O \cup all) /\ Cardinality(S) \in Nat
      BY <2>1, <2>5, FS_Subset, FS_CardinalityType
    <2>7. Cardinality(all) + opening <= Size
      BY DEF Safe, BoundInv
    <2> QED  BY <2>2, <2>3, <2>5, <2>6, <2>7, SizeAssumption DEF ServerConnectionsBounded
  <1> QED  BY <1>1, SafeInit, SafeNext, PTL DEF Spec

-----------------------------------------------------------------------------
(***************************************************************************)
(* Answers and transactions stay with the client they belong to, provided  *)
(* that clients wait for the answer to one query before they send the next *)
(* and that no reset query is configured.                                  *)
(***************************************************************************)

-----------------------------------------------------------------------------
(* One acquire() per session: it waits, or a connection is being opened    *)
(* for it, or one has been granted to it.                                  *)

Waits(s) == \E i \in 1..Len(waiters) : waiters[i] = s

OpensFor(c, s) == IsOpening(c) /\ conn[c].opener = s

Pending(s) == granted[s] # None \/ Waits(s) \/ \E c \in Conns : OpensFor(c, s)

RequestOf(s) ==
    /\ granted[s] # None => ~Waits(s) /\ \A c \in Conns : ~OpensFor(c, s)
    /\ \A c \in Conns : OpensFor(c, s) => ~Waits(s)
    /\ \A c, d \in Conns : OpensFor(c, s) /\ OpensFor(d, s) => c = d
    /\ Pending(s) => sess[s].acquiring
    /\ sess[s].acquiring => sess[s].holding = None /\ sess[s].phase \in {"login", "active", "closed"}
    /\ sess[s].holding # None => sess[s].phase = "active"

OneRequest ==
    /\ \A i, j \in 1..Len(waiters) : waiters[i] = waiters[j] => i = j
    /\ \A s \in Clients : RequestOf(s)

\* A step that takes nothing up for s, and at most ends what it has.
LEMMA RequestKept ==
    ASSUME NEW s \in Clients, RequestOf(s),
           granted'[s] \in {granted[s], None},
           Waits(s)' => Waits(s),
           \A c \in Conns : OpensFor(c, s)' => OpensFor(c, s),
           Pending(s)' => sess'[s].acquiring,
           sess'[s].acquiring => sess[s].acquiring,
           sess'[s].holding \in {sess[s].holding, None},
           sess'[s].acquiring => sess'[s].phase \in {sess[s].phase, "active", "closed"},
           sess'[s].holding # None => sess'[s].phase \in {sess[s].phase, "active"}
    PROVE  RequestOf(s)'
  BY DEF RequestOf, Pending

\* acquire() takes up one request for s, which had none.
LEMMA AcquireRequests ==
    ASSUME Typed, OneRequest, NEW s \in Clients, ~sess[s].acquiring,
           NEW cs \in [Conns -> Connection],
           \A c \in Conns : cs[c].sock = "opening" => cs[c] = conn[c],
           NEW pool \in [idle : SUBSET Conns, all : SUBSET Conns, waiters : Seq(Clients)],
           pool.waiters \in {waiters, <<>>},
           Acquire(s, cs, pool),
           sess'[s].acquiring, sess'[s].holding = None, sess'[s].phase \in {"login", "active"},
           \A t \in Clients : t # s =>
              /\ sess'[t].holding = sess[t].holding
              /\ sess'[t].phase \in {sess[t].phase, "closed"}
              /\ sess[t].holding # None => sess'[t].phase = sess[t].phase
              /\ \/ sess'[t].acquiring = sess[t].acquiring
                 \/ sess'[t].acquiring = FALSE /\ Waits(t) /\ pool.waiters = <<>>
    PROVE  OneRequest'
  <1> DEFINE x == [NoConnection EXCEPT !.sock = "opening", !.opener = s]
  <1>1. RequestOf(s) /\ ~Pending(s)
    BY DEF OneRequest, RequestOf
  <1>2. x.sock = "opening" /\ x.opener = s
    BY DEF NoConnection
  <1> HIDE DEF x
  <1>3. \/ /\ UNCHANGED <<>> /\ conn' = cs /\ waiters' = pool.waiters
           /\ \E c \in Conns : granted' = [granted EXCEPT ![s] = c]
        \/ /\ waiters' = pool.waiters /\ granted' = granted
           /\ \E c \in Conns : Unreferenced(c) /\ conn' = [cs EXCEPT ![c] = x]
        \/ waiters' = Append(pool.waiters, s) /\ granted' = granted /\ conn' = cs
    BY DEF Acquire, Open, x
  <1>4. /\ waiters \in Seq(Clients) /\ pool.waiters \in Seq(Clients)
        /\ Len(pool.waiters) \in Nat
        /\ granted \in [Clients -> Conns \cup {None}]
    BY LenProperties DEF Typed
  <1>5. \A i \in 1..Len(pool.waiters) : pool.waiters[i] # s
    BY <1>1, <1>4 DEF Pending, Waits
  <1>6. \A i, j \in 1..Len(pool.waiters) : pool.waiters[i] = pool.waiters[j] => i = j
    BY <1>4 DEF OneRequest
  <1>7. \/ waiters' = pool.waiters
        \/ /\ Len(waiters') = Len(pool.waiters) + 1
           /\ \A i \in 1..Len(pool.waiters) : waiters'[i] = pool.waiters[i]
           /\ waiters'[Len(pool.waiters) + 1] = s
    BY <1>3, <1>4, AppendProperties
  <1>8. \A i, j \in 1..Len(waiters') : waiters'[i] = waiters'[j] => i = j
    BY <1>4, <1>5, <1>6, <1>7
  <1>9. \A t \in Clients : t # s => (Waits(t)' => Waits(t) /\ pool.waiters # <<>>)
    <2> SUFFICES ASSUME NEW t \in Clients, t # s, NEW i \in 1..Len(waiters'), waiters'[i] = t
                 PROVE  Waits(t) /\ pool.waiters # <<>>
      BY DEF Waits
    <2>1. i \in 1..Len(pool.waiters) /\ pool.waiters[i] = t
      BY <1>4, <1>7
    <2>2. pool.waiters # <<>> /\ pool.waiters = waiters
      BY <1>4, <2>1
    <2> QED  BY <2>1, <2>2 DEF Waits
  <1>10. \A t \in Clients : t # s => granted'[t] = granted[t]
    BY <1>3, <1>4
  <1>11. \A t \in Clients, c \in Conns : t # s => (OpensFor(c, t)' => OpensFor(c, t))
    BY <1>2, <1>3 DEF OpensFor, IsOpening
  <1>12. ASSUME NEW t \in Clients, t # s PROVE RequestOf(t)'
    <2>1. RequestOf(t)
      BY DEF OneRequest
    <2>2. Pending(t)' => sess'[t].acquiring
      <3>1. Pending(t)' => Pending(t)
        BY <1>9, <1>10, <1>11, <1>12 DEF Pending
      <3>2. Waits(t) /\ Pending(t)' /\ pool.waiters = <<>> => FALSE
        BY <1>9, <1>10, <1>11, <1>12, <2>1 DEF Pending, RequestOf
      <3> QED  BY <1>12, <2>1, <3>1, <3>2 DEF RequestOf
    <2> QED  BY <1>9, <1>10, <1>11, <1>12, <2>1, <2>2, RequestKept
  <1>13. RequestOf(s)'
    <2>1. /\ granted[s] = None /\ ~Waits(s) /\ \A c \in Conns : ~OpensFor(c, s)
      BY <1>1 DEF Pending
    <2>2. \A c \in Conns : ~(cs[c].sock = "opening" /\ cs[c].opener = s)
      BY <2>1 DEF OpensFor, IsOpening
    <2>3. CASE /\ conn' = cs /\ waiters' = pool.waiters
               /\ \E c \in Conns : granted' = [granted EXCEPT ![s] = c]
      BY <1>5, <2>2, <2>3 DEF RequestOf, Pending, Waits, OpensFor, IsOpening
    <2>4. CASE /\ waiters' = pool.waiters /\ granted' = granted
               /\ \E c \in Conns : conn' = [cs EXCEPT ![c] = x]
      BY <1>2, <1>5, <2>1, <2>2, <2>4 DEF RequestOf, Pending, Waits, OpensFor, IsOpening
    <2>5. CASE granted' = granted /\ conn' = cs
      BY <2>1, <2>2, <2>5 DEF RequestOf, Pending, OpensFor, IsOpening
    <2> QED  BY <1>3, <2>3, <2>4, <2>5
  <1> QED  BY <1>8, <1>12, <1>13 DEF OneRequest

LEMMA AcquireCurrentRequests ==
    ASSUME Typed, OneRequest, NEW s \in Clients, ~sess[s].acquiring,
           Acquire(s, conn, Current),
           sess'[s].acquiring, sess'[s].holding = None, sess'[s].phase \in {"login", "active"},
           \A t \in Clients : t # s => sess'[t] = sess[t]
    PROVE  OneRequest'
  <1> DEFINE cs == conn
             pool == Current
  <1>1. /\ pool \in [idle : SUBSET Conns, all : SUBSET Conns, waiters : Seq(Clients)]
        /\ pool.waiters \in {waiters, <<>>} /\ cs \in [Conns -> Connection]
        /\ \A c \in Conns : cs[c].sock = "opening" => cs[c] = conn[c]
        /\ Acquire(s, cs, pool)
    BY CurrentTyped DEF Typed
  <1>2. \A t \in Clients : t # s =>
              /\ sess'[t].holding = sess[t].holding
              /\ sess'[t].phase \in {sess[t].phase, "closed"}
              /\ sess[t].holding # None => sess'[t].phase = sess[t].phase
              /\ \/ sess'[t].acquiring = sess[t].acquiring
                 \/ sess'[t].acquiring = FALSE /\ Waits(t) /\ pool.waiters = <<>>
    <2> SUFFICES ASSUME NEW t \in Clients, t # s
                 PROVE  /\ sess'[t].holding = sess[t].holding
                        /\ sess'[t].phase \in {sess[t].phase, "closed"}
                        /\ sess[t].holding # None => sess'[t].phase = sess[t].phase
                        /\ \/ sess'[t].acquiring = sess[t].acquiring
                           \/ sess'[t].acquiring = FALSE /\ Waits(t) /\ pool.waiters = <<>>
      BY Zenon
    <2>1. /\ sess'[t].holding = sess[t].holding /\ sess'[t].phase = sess[t].phase
          /\ sess'[t].acquiring = sess[t].acquiring
      OBVIOUS
    <2> QED  BY <2>1
  <1> HIDE DEF cs, pool
  <1> QED  BY <1>1, <1>2, AcquireRequests

\* release() may turn the first waiting request into a grant.
LEMMA ReleaseRequests ==
    ASSUME Typed, OneRequest, NEW c \in Conns, NEW cs \in [Conns -> Connection],
           \A d \in Conns : cs[d].sock = conn[d].sock /\ cs[d].opener = conn[d].opener,
           NEW gr \in [Clients -> Conns \cup {None}],
           Release(c, cs, gr),
           \A t \in Clients :
              /\ gr[t] \in {granted[t], None}
              /\ gr[t] # None \/ Waits(t) \/ (\E d \in Conns : OpensFor(d, t)) => sess'[t].acquiring
              /\ sess'[t].holding \in {sess[t].holding, None}
              /\ sess'[t].acquiring => sess[t].acquiring
              /\ sess'[t].phase = sess[t].phase \/ sess'[t].phase = "active"
    PROVE  OneRequest'
  <1>1. /\ \A d \in Conns : conn'[d].sock = conn[d].sock /\ conn'[d].opener = conn[d].opener
    BY ReleaseTyped
  <1>2. \A t \in Clients, d \in Conns : OpensFor(d, t)' <=> OpensFor(d, t)
    BY <1>1 DEF OpensFor, IsOpening
  <1>3. \/ granted' = gr /\ waiters' = waiters
        \/ /\ waiters # <<>> /\ waiters' = Tail(waiters)
           /\ granted' = [gr EXCEPT ![Head(waiters)] = c]
    BY DEF Release
  <1>4. \A t \in Clients : RequestOf(t)
    BY DEF OneRequest
  <1>5. CASE granted' = gr /\ waiters' = waiters
    <2>1. \A t \in Clients : Waits(t)' <=> Waits(t)
      BY <1>5 DEF Waits
    <2>2. ASSUME NEW t \in Clients PROVE RequestOf(t)'
      <3>1. Pending(t)' => sess'[t].acquiring
        BY <1>2, <1>5, <2>1 DEF Pending
      <3> QED  BY <1>2, <1>4, <1>5, <2>1, <3>1, RequestKept
    <2> QED  BY <1>5, <2>2 DEF OneRequest
  <1>6. CASE /\ waiters # <<>> /\ waiters' = Tail(waiters)
             /\ granted' = [gr EXCEPT ![Head(waiters)] = c]
    <2>0. PICK h \in Clients : h = Head(waiters)
      BY <1>6, HeadTailProperties DEF Typed
    <2>1. /\ waiters \in Seq(Clients) /\ h = waiters[1]
          /\ Len(waiters) \in Nat /\ Len(waiters) > 0
          /\ Len(waiters') = Len(waiters) - 1
          /\ \A i \in 1..Len(waiters') : waiters'[i] = waiters[i + 1]
      BY <1>6, <2>0, HeadTailProperties, LenProperties, EmptySeq DEF Typed
    <2>2. Waits(h) /\ ~Waits(h)'
      <3>1. Waits(h)
        BY <2>1 DEF Waits
      <3>2. ASSUME NEW i \in 1..Len(waiters'), waiters'[i] = h PROVE FALSE
        <4>1. i + 1 \in 1..Len(waiters) /\ 1 \in 1..Len(waiters) /\ waiters[i + 1] = waiters[1]
          BY <2>1, <3>2
        <4> QED  BY <3>2, <4>1 DEF OneRequest
      <3> QED  BY <3>1, <3>2 DEF Waits
    <2>3. \A t \in Clients : Waits(t)' => Waits(t)
      BY <2>1 DEF Waits
    <2>4. \A i, j \in 1..Len(waiters') : waiters'[i] = waiters'[j] => i = j
      BY <2>1 DEF OneRequest
    <2>5. granted'[h] = c /\ \A t \in Clients : t # h => granted'[t] = gr[t]
      BY <1>6, <2>0
    <2>6. ASSUME NEW t \in Clients, t # h PROVE RequestOf(t)'
      <3>1. Pending(t)' => sess'[t].acquiring
        BY <1>2, <2>3, <2>5, <2>6 DEF Pending
      <3> QED  BY <1>2, <1>4, <2>3, <2>5, <2>6, <3>1, RequestKept
    <2>7. RequestOf(h)'
      <3>1. sess'[h].acquiring /\ sess[h].acquiring
        BY <2>1, <2>2
      <3>2. \A d \in Conns : ~OpensFor(d, h)'
        BY <1>2, <1>4, <2>1, <2>2 DEF RequestOf
      <3> QED  BY <1>4, <2>1, <2>2, <3>1, <3>2 DEF RequestOf, Pending
    <2> QED  BY <2>4, <2>6, <2>7 DEF OneRequest
  <1> QED  BY <1>3, <1>5, <1>6

\* The steps that leave every request as it is.
LEMMA RequestsUntouched ==
    ASSUME OneRequest, UNCHANGED <<waiters, granted>>,
           \A c \in Conns, s \in Clients : OpensFor(c, s)' => OpensFor(c, s),
           \A s \in Clients :
              /\ sess'[s].acquiring = sess[s].acquiring
              /\ sess'[s].holding \in {sess[s].holding, None}
              /\ sess'[s].acquiring => sess'[s].phase \in {sess[s].phase, "active", "closed"}
              /\ sess'[s].holding # None => sess'[s].phase \in {sess[s].phase, "active"}
    PROVE  OneRequest'
  <1>1. \A s \in Clients : Waits(s)' <=> Waits(s)
    BY DEF Waits
  <1>2. ASSUME NEW s \in Clients PROVE RequestOf(s)'
    <2>1. RequestOf(s) /\ (Pending(s)' => Pending(s))
      BY <1>1 DEF OneRequest, Pending
    <2>2. Pending(s)' => sess'[s].acquiring
      BY <2>1 DEF RequestOf
    <2> QED  BY <1>1, <2>1, <2>2, RequestKept
  <1> QED  BY <1>2 DEF OneRequest

LEMMA QuietStepsRequests ==
    ASSUME Safe, OneRequest, NEW s \in Clients,
           Connect(s) \/ AuthenticationFails(s) \/ ClientLeaves(s)
    PROVE  OneRequest'
  <1>1. Typed /\ RequestOf(s) /\ sess[s] \in Session
    BY DEF Safe, OneRequest, Typed
  <1>2. UNCHANGED <<waiters, granted>> /\ \A t \in Clients : t # s => sess'[t] = sess[t]
    BY <1>1 DEF Connect, AuthenticationFails, ClientLeaves, poolVars, Typed
  <1>3. \A d \in Conns, t \in Clients : OpensFor(d, t)' => OpensFor(d, t)
    <2>1. CASE UNCHANGED conn
      BY <2>1 DEF OpensFor, IsOpening
    <2>2. CASE ClientLeaves(s) /\ sess[s].holding # None
      <3> DEFINE c == sess[s].holding
                 cs == [conn EXCEPT ![c].onMessage = None]
      <3>1. c \in Conns
        BY <1>1, <2>2 DEF Session
      <3>2. conn' = Destroyed(cs, {c}) /\ \A d \in Conns : d # c => cs[d] = conn[d]
        BY <1>1, <2>2 DEF ClientLeaves, Typed
      <3>3. conn' = [d \in Conns |-> IF d \in {c} THEN Closed(cs[d]) ELSE cs[d]]
        BY <3>2 DEF Destroyed
      <3>4. conn'[c].sock = "closed"
        BY <3>1, <3>3 DEF Closed, NoConnection
      <3> QED  BY <3>2, <3>3, <3>4 DEF OpensFor, IsOpening
    <2> QED  BY <2>1, <2>2 DEF Connect, AuthenticationFails, ClientLeaves
  <1>4. /\ sess'[s].acquiring = sess[s].acquiring
        /\ sess'[s].holding \in {sess[s].holding, None}
        /\ sess'[s].acquiring => sess'[s].phase \in {sess[s].phase, "active", "closed"}
        /\ sess'[s].holding # None => sess'[s].phase \in {sess[s].phase, "active"}
    <2>1. CASE Connect(s)
      <3>1. sess' = [sess EXCEPT ![s] = [sess[s] EXCEPT !.phase = "authenticating", !.seen = route]]
            /\ sess[s].phase = "new"
        BY <2>1 DEF Connect
      <3>2. sess'[s].acquiring = sess[s].acquiring /\ sess'[s].holding = sess[s].holding
        BY <1>1, <3>1 DEF Session, Typed
      <3> QED  BY <1>1, <3>1, <3>2 DEF RequestOf
    <2>2. CASE AuthenticationFails(s)
      <3>1. sess' = [sess EXCEPT ![s] = Gone(FALSE)] /\ sess[s].phase = "authenticating"
        BY <2>2 DEF AuthenticationFails
      <3>2. sess'[s] = Gone(FALSE)
        BY <1>1, <3>1 DEF Typed
      <3>3. sess[s].acquiring = FALSE
        BY <1>1, <3>1 DEF RequestOf, Session
      <3> QED  BY <3>2, <3>3, GoneTyped
    <2>3. CASE ClientLeaves(s)
      <3>1. sess'[s] = Gone(sess[s].acquiring) /\ sess[s].acquiring \in BOOLEAN
        BY <1>1, <2>3 DEF ClientLeaves, Typed, Session
      <3> QED  BY <3>1, GoneTyped
    <2> QED  BY <2>1, <2>2, <2>3
  <1> QED
    BY <1>2, <1>3, <1>4, RequestsUntouched

LEMMA ServerStepsRequests ==
    ASSUME Safe, OneRequest,
           \/ SweepIdle \/ RouteChanges
           \/ \E c \in Conns : BackendCloses(c) \/ BackendGarbles(c)
    PROVE  OneRequest'
  <1>1. UNCHANGED <<waiters, granted, sess>>
    BY DEF SweepIdle, RouteChanges, BackendCloses, BackendGarbles, poolVars
  <1>2. conn' = conn \/ \E C : conn' = Destroyed(conn, C)
    BY DEF SweepIdle, RouteChanges, BackendCloses, BackendGarbles
  <1>3. \A d \in Conns, t \in Clients : OpensFor(d, t)' => OpensFor(d, t)
    <2>1. ASSUME NEW C, conn' = Destroyed(conn, C), NEW d \in Conns
          PROVE  conn'[d].sock = "closed" \/ conn'[d] = conn[d]
      BY <2>1, DestroyedTyped DEF Safe, Typed
    <2> QED  BY <1>2, <2>1 DEF OpensFor, IsOpening
  <1> QED  BY <1>1, <1>3, RequestsUntouched

LEMMA LoginRequests ==
    ASSUME Safe, OneRequest, NEW s \in Clients, Login(s) PROVE OneRequest'
  <1>1. Typed /\ DueInv /\ RequestOf(s) /\ sess[s] \in Session /\ sess[s].phase = "authenticating"
    BY DEF Safe, OneRequest, Typed, Login
  <1>2. ~sess[s].acquiring /\ sess[s].holding = None
    BY <1>1 DEF RequestOf
  <1>3. CASE /\ sess' = [sess EXCEPT ![s].phase = "active"]
             /\ UNCHANGED <<conn, idle, all, opening, waiters, cached, granted>>
    <2>1. sess' = [sess EXCEPT ![s] = [sess[s] EXCEPT !.phase = "active"]]
      BY <1>3
    <2>2. /\ sess'[s].acquiring = sess[s].acquiring /\ sess'[s].holding = sess[s].holding
          /\ sess'[s].phase = "active"
          /\ \A t \in Clients : t # s => sess'[t] = sess[t]
      BY <1>1, <2>1 DEF Session, Typed
    <2> QED  BY <1>3, <2>2, RequestsUntouched DEF OpensFor, IsOpening
  <1>4. ASSUME NEW r \in Session, r.holding = None
        PROVE  LET x == [r EXCEPT !.phase = "login", !.acquiring = TRUE]
               IN x.acquiring /\ x.holding = None /\ x.phase \in {"login", "active"}
    BY <1>4 DEF Session
  <1>5. CASE /\ sess' = [sess EXCEPT ![s].phase = "login", ![s].acquiring = TRUE]
             /\ Acquire(s, conn, Current)
    <2>1. sess' = [sess EXCEPT ![s] = [sess[s] EXCEPT !.phase = "login", !.acquiring = TRUE]]
      BY <1>5
    <2>2. /\ sess'[s].acquiring /\ sess'[s].holding = None /\ sess'[s].phase \in {"login", "active"}
          /\ \A t \in Clients : t # s => sess'[t] = sess[t]
      BY <1>1, <1>2, <1>4, <2>1 DEF Typed
    <2> QED  BY <1>1, <1>2, <1>5, <2>2, AcquireCurrentRequests
  <1>6. ASSUME NEW ss,
               ss = [t \in Clients |-> IF \E i \in 1..Len(waiters) : waiters[i] = t
                                       THEN Rejected(sess[t]) ELSE sess[t]],
               sess' = [ss EXCEPT ![s].phase = "login", ![s].acquiring = TRUE],
               Acquire(s, Destroyed(conn, all), Emptied)
        PROVE  OneRequest'
    <2>1. ~Waits(s)
      BY <1>1, <1>2 DEF RequestOf, Pending
    <2>2. ss[s] = sess[s]
      BY <1>6, <2>1 DEF Waits
    <2>3. sess' = [ss EXCEPT ![s] = [ss[s] EXCEPT !.phase = "login", !.acquiring = TRUE]]
      BY <1>6
    <2>4. /\ sess'[s].acquiring /\ sess'[s].holding = None /\ sess'[s].phase \in {"login", "active"}
          /\ \A t \in Clients : t # s => sess'[t] = ss[t]
        <3> DEFINE x == [ss[s] EXCEPT !.phase = "login", !.acquiring = TRUE]
      <3>1. x.acquiring /\ x.holding = None /\ x.phase \in {"login", "active"}
        BY <1>1, <1>2, <1>4, <2>2
      <3> HIDE DEF x
      <3>2. sess' = [ss EXCEPT ![s] = x]
        BY <2>3 DEF x
      <3>3. sess'[s] = x /\ \A t \in Clients : t # s => sess'[t] = ss[t]
        BY <1>6, <3>2
      <3> QED  BY <3>1, <3>3
    <2>5. ASSUME NEW t \in Clients, t # s
          PROVE  /\ sess'[t].holding = sess[t].holding
                 /\ sess'[t].phase \in {sess[t].phase, "closed"}
                 /\ sess[t].holding # None => sess'[t].phase = sess[t].phase
                 /\ \/ sess'[t].acquiring = sess[t].acquiring
                    \/ sess'[t].acquiring = FALSE /\ Waits(t) /\ Emptied.waiters = <<>>
      <3>1. CASE ~Waits(t)
        <4>1. sess'[t] = sess[t]
          BY <1>6, <2>4, <2>5, <3>1 DEF Waits
        <4>2. /\ sess'[t].holding = sess[t].holding /\ sess'[t].phase = sess[t].phase
              /\ sess'[t].acquiring = sess[t].acquiring
          BY <4>1
        <4> QED  BY <4>2
      <3>2. CASE Waits(t)
        <4>1. sess'[t] = Rejected(sess[t])
          BY <1>6, <2>4, <2>5, <3>2 DEF Waits
        <4>2. sess[t] \in Session /\ sess[t].due <= sess[t].sent
          BY <1>1 DEF Typed, DueInv
        <4>3. sess[t].acquiring /\ sess[t].holding = None
          BY <3>2 DEF OneRequest, RequestOf, Pending
        <4>4. /\ sess'[t].holding \in {sess[t].holding, None} /\ sess'[t].acquiring = FALSE
              /\ sess'[t].phase \in {sess[t].phase, "closed"}
          BY <4>1, <4>2, RejectedTyped
        <4> QED  BY <3>2, <4>3, <4>4 DEF Emptied
      <3> QED  BY <3>1, <3>2
    <2> DEFINE cs == Destroyed(conn, all)
    <2>6. cs \in [Conns -> Connection] /\ \A c \in Conns : cs[c].sock = "opening" => cs[c] = conn[c]
      BY <1>1, DestroyedTyped DEF Typed
    <2>7. Acquire(s, cs, Emptied)
      BY <1>6
    <2> HIDE DEF cs
    <2> QED  BY <1>1, <1>2, <2>4, <2>5, <2>6, <2>7, CurrentTyped, AcquireRequests
  <1> QED  BY <1>3, <1>5, <1>6 DEF Login

\* What sending does to the session, by the place the query goes to.
LEMMA SendsEffect ==
    ASSUME Safe, NEW s \in Clients, NEW opens \in BOOLEAN, ClientSends(s, opens)
    PROVE  /\ sess[s].phase = "active"
           /\ sess'[s].sent = sess[s].sent + 1 /\ sess'[s].due = sess[s].due + 1
           /\ sess'[s].phase = "active" /\ sess'[s].holding = sess[s].holding
           /\ \A t \in Clients : t # s => sess'[t] = sess[t]
           /\ \/ /\ sess[s].holding # None
                 /\ sess'[s].queued = sess[s].queued /\ sess'[s].acquiring = sess[s].acquiring
                 /\ conn' = Sent(conn, sess[s].holding, <<[from |-> s, opens |-> opens]>>)
                 /\ UNCHANGED <<idle, all, opening, waiters, granted>>
              \/ /\ sess[s].holding = None /\ sess[s].acquiring
                 /\ sess'[s].queued = Append(sess[s].queued, opens) /\ sess'[s].acquiring
                 /\ UNCHANGED <<conn, idle, all, opening, waiters, granted>>
              \/ /\ sess[s].holding = None /\ ~sess[s].acquiring
                 /\ sess'[s].queued = Append(sess[s].queued, opens) /\ sess'[s].acquiring
                 /\ Acquire(s, conn, Current)
  <1> DEFINE y == [sess[s] EXCEPT !.sent = sess[s].sent + 1, !.due = sess[s].due + 1]
             z == [y EXCEPT !.queued = Append(sess[s].queued, opens)]
             w == [z EXCEPT !.acquiring = TRUE]
  <1>1. sess \in [Clients -> Session] /\ sess[s] \in Session
    BY DEF Safe, Typed
  <1>2. /\ y.sent = sess[s].sent + 1 /\ y.due = sess[s].due + 1 /\ y.phase = sess[s].phase
        /\ y.holding = sess[s].holding /\ y.queued = sess[s].queued
        /\ y.acquiring = sess[s].acquiring
        /\ DOMAIN y = DOMAIN sess[s]
    BY <1>1 DEF Session
  <1>3. [sess EXCEPT ![s].sent = @ + 1, ![s].due = @ + 1] = [sess EXCEPT ![s] = y]
    BY <1>1
  <1>d. DOMAIN y = {"phase", "seen", "holding", "acquiring", "queued", "sent", "due"}
    BY <1>1, <1>2 DEF Session
  <1> HIDE DEF y
  <1>4. /\ z.sent = y.sent /\ z.due = y.due /\ z.phase = y.phase /\ z.holding = y.holding
        /\ z.queued = Append(sess[s].queued, opens) /\ z.acquiring = y.acquiring
    BY <1>d
  <1>5. DOMAIN z = {"phase", "seen", "holding", "acquiring", "queued", "sent", "due"}
    BY <1>d
  <1>6. [[sess EXCEPT ![s] = y] EXCEPT ![s].queued = Append(@, opens)] = [sess EXCEPT ![s] = z]
    BY <1>1, <1>2
  <1>7. [[sess EXCEPT ![s] = y] EXCEPT ![s].queued = Append(@, opens), ![s].acquiring = TRUE]
          = [sess EXCEPT ![s] = w]
    BY <1>1, <1>2
  <1> HIDE DEF z
  <1>8. /\ w.sent = y.sent /\ w.due = y.due /\ w.phase = y.phase /\ w.holding = y.holding
        /\ w.queued = Append(sess[s].queued, opens) /\ w.acquiring = TRUE
    BY <1>4, <1>5
  <1> HIDE DEF w
  <1>9. ASSUME NEW x, sess' = [sess EXCEPT ![s] = x]
        PROVE  sess'[s] = x /\ \A t \in Clients : t # s => sess'[t] = sess[t]
    BY <1>1, <1>9
  <1>10. sess[s].phase = "active"
    BY DEF ClientSends
  <1>11. \/ /\ sess[s].holding # None /\ sess' = [sess EXCEPT ![s] = y]
            /\ conn' = Sent(conn, sess[s].holding, <<[from |-> s, opens |-> opens]>>)
            /\ UNCHANGED <<idle, all, opening, waiters, granted>>
         \/ /\ sess[s].holding = None /\ sess[s].acquiring
            /\ sess' = [sess EXCEPT ![s] = z]
            /\ UNCHANGED <<conn, idle, all, opening, waiters, granted>>
         \/ /\ sess[s].holding = None /\ ~sess[s].acquiring
            /\ sess' = [sess EXCEPT ![s] = w]
            /\ Acquire(s, conn, Current)
    BY <1>3, <1>6, <1>7 DEF ClientSends
  <1> QED  BY <1>2, <1>4, <1>8, <1>9, <1>10, <1>11

LEMMA ClientSendsRequests ==
    ASSUME Safe, OneRequest, NEW s \in Clients, NEW opens \in BOOLEAN, ClientSends(s, opens)
    PROVE  OneRequest'
  <1>1. Typed /\ conn \in [Conns -> Connection] /\ sess[s] \in Session
    BY DEF Safe, Typed
  <1>2. /\ sess[s].phase = "active"
        /\ sess'[s].phase = "active" /\ sess'[s].holding = sess[s].holding
        /\ \A t \in Clients : t # s => sess'[t] = sess[t]
    BY SendsEffect
  <1>3. CASE /\ sess'[s].acquiring = sess[s].acquiring
             /\ \/ conn' = conn
                \/ /\ sess[s].holding # None
                   /\ conn' = Sent(conn, sess[s].holding, <<[from |-> s, opens |-> opens]>>)
             /\ UNCHANGED <<waiters, granted>>
    <2>1. \A d \in Conns : conn'[d].sock = conn[d].sock /\ conn'[d].opener = conn[d].opener
      <3>1. <<[from |-> s, opens |-> opens]>> \in Seq(Query)
        <4>1. [from |-> s, opens |-> opens] \in Query
          BY DEF Query
        <4> QED  BY <4>1
      <3>2. sess[s].holding # None => sess[s].holding \in Conns
        BY <1>1 DEF Session
      <3>3. CASE /\ sess[s].holding # None
                 /\ conn' = Sent(conn, sess[s].holding, <<[from |-> s, opens |-> opens]>>)
        <4> DEFINE c == sess[s].holding
                   qs == <<[from |-> s, opens |-> opens]>>
        <4>1. c \in Conns /\ qs \in Seq(Query) /\ conn' = Sent(conn, c, qs)
          BY <3>1, <3>2, <3>3
        <4> HIDE DEF c, qs
        <4> QED  BY <1>1, <4>1, SentTyped, ZenonT(60)
      <3> QED  BY <1>3, <3>3
    <2> QED  BY <1>2, <1>3, <2>1, RequestsUntouched DEF OpensFor, IsOpening
  <1>4. CASE /\ sess[s].holding = None /\ ~sess[s].acquiring /\ sess'[s].acquiring
             /\ Acquire(s, conn, Current)
    BY <1>1, <1>2, <1>4, AcquireCurrentRequests
  <1>5. sess[s].acquiring \in BOOLEAN /\ sess'[s].acquiring \in BOOLEAN
    BY ClientSendsSafe DEF Safe, Typed, Session
  <1> QED  BY <1>3, <1>4, <1>5, SendsEffect

\* The grant of s ends.
LEMMA GrantedRequests ==
    ASSUME Safe, OneRequest, NEW s \in Clients, Granted(s) PROVE OneRequest'
  <1> DEFINE c == granted[s]
             gr == [granted EXCEPT ![s] = None]
  <1>1. /\ Typed /\ RequestOf(s) /\ sess[s] \in Session /\ c \in Conns /\ c # None
        /\ conn \in [Conns -> Connection] /\ gr \in [Clients -> Conns \cup {None}]
        /\ gr[s] = None /\ \A t \in Clients : t # s => gr[t] = granted[t]
    BY NoneAssumption DEF Safe, OneRequest, Typed, Granted
  <1>2. /\ sess[s].acquiring /\ sess[s].holding = None
        /\ ~Waits(s) /\ \A d \in Conns : ~OpensFor(d, s)
    BY <1>1 DEF RequestOf, Pending
  <1>3. \A t \in Clients : t # s => sess'[t] = sess[t]
    BY <1>1 DEF Granted, Typed
  <1>4. CASE /\ \/ sess' = [sess EXCEPT ![s].phase = "active", ![s].acquiring = FALSE]
                \/ sess[s].phase = "closed" /\ sess' = [sess EXCEPT ![s].acquiring = FALSE]
             /\ Release(c, conn, gr)
    <2>1. /\ sess'[s].holding = None /\ sess'[s].acquiring = FALSE
          /\ sess'[s].phase \in {sess[s].phase, "active"}
      BY <1>1, <1>2, <1>4 DEF Typed, Session
    <2>2. ASSUME NEW t \in Clients
          PROVE /\ gr[t] \in {granted[t], None}
                /\ gr[t] # None \/ Waits(t) \/ (\E d \in Conns : OpensFor(d, t)) => sess'[t].acquiring
                /\ sess'[t].holding \in {sess[t].holding, None}
                /\ sess'[t].acquiring => sess[t].acquiring
                /\ sess'[t].phase = sess[t].phase \/ sess'[t].phase = "active"
      <3>1. CASE t = s
        BY <1>1, <1>2, <2>1, <3>1
      <3>2. CASE t # s
        <4>1. sess'[t] = sess[t] /\ gr[t] = granted[t]
          BY <1>1, <1>3, <3>2
        <4>2. granted[t] # None \/ Waits(t) \/ (\E d \in Conns : OpensFor(d, t)) => sess[t].acquiring
          BY DEF OneRequest, RequestOf, Pending
        <4> QED  BY <4>1, <4>2
      <3> QED  BY <3>1, <3>2
    <2> HIDE DEF c, gr
    <2> QED  BY <1>1, <1>4, <2>2, ReleaseRequests
  <1>5. CASE /\ sess' = [sess EXCEPT ![s].holding = c, ![s].queued = <<>>, ![s].acquiring = FALSE]
             /\ sess[s].phase = "active" /\ granted' = gr /\ waiters' = waiters
             /\ \A d \in Conns : conn'[d].sock = conn[d].sock /\ conn'[d].opener = conn[d].opener
    <2>1. /\ sess'[s].holding = c /\ sess'[s].acquiring = FALSE /\ sess'[s].phase = "active"
      BY <1>1, <1>5 DEF Typed, Session
    <2>2. \A d \in Conns, t \in Clients : OpensFor(d, t)' <=> OpensFor(d, t)
      BY <1>5 DEF OpensFor, IsOpening
    <2>3. \A t \in Clients : Waits(t)' <=> Waits(t)
      BY <1>5 DEF Waits
    <2>4. RequestOf(s)'
      BY <1>1, <1>2, <1>5, <2>1, <2>2, <2>3 DEF RequestOf, Pending
    <2>5. ASSUME NEW t \in Clients, t # s PROVE RequestOf(t)'
      <3>1. sess'[t] = sess[t] /\ granted'[t] = granted[t]
        BY <1>1, <1>3, <1>5, <2>5
      <3>2. RequestOf(t)
        BY DEF OneRequest
      <3> QED  BY <2>2, <2>3, <3>1, <3>2 DEF RequestOf, Pending
    <2> QED  BY <1>5, <2>4, <2>5 DEF OneRequest
  <1>6. ASSUME conn' = Sent([conn EXCEPT ![c].onMessage = s], c,
                            [i \in DOMAIN sess[s].queued |->
                               [from |-> s, opens |-> sess[s].queued[i]]])
        PROVE  \A d \in Conns : conn'[d].sock = conn[d].sock /\ conn'[d].opener = conn[d].opener
    <2> DEFINE r == [conn[c] EXCEPT !.onMessage = s]
               cs == [conn EXCEPT ![c] = r]
               qs == [i \in DOMAIN sess[s].queued |-> [from |-> s, opens |-> sess[s].queued[i]]]
               x == [cs[c] EXCEPT !.inbox = @ \o qs]
    <2>1. conn[c] \in Connection
      BY <1>1
    <2>2. r.sock = conn[c].sock /\ r.opener = conn[c].opener /\ r \in Connection
      BY <2>1 DEF Connection
    <2> HIDE DEF r, qs
    <2>3. /\ cs \in [Conns -> Connection]
          /\ \A d \in Conns : cs[d].sock = conn[d].sock /\ cs[d].opener = conn[d].opener
      BY <1>1, <2>2
    <2> HIDE DEF cs
    <2>4. x.sock = cs[c].sock /\ x.opener = cs[c].opener
      BY <2>3 DEF Connection
    <2>5. conn' = cs \/ conn' = [cs EXCEPT ![c] = x]
      BY <1>6 DEF Sent, cs, r, qs
    <2> HIDE DEF x
    <2> QED  BY <2>3, <2>4, <2>5
  <1>7. \/ /\ sess' = [sess EXCEPT ![s].phase = "active", ![s].acquiring = FALSE]
           /\ Release(c, conn, gr)
        \/ /\ sess[s].phase = "closed" /\ sess' = [sess EXCEPT ![s].acquiring = FALSE]
           /\ Release(c, conn, gr)
        \/ /\ sess[s].phase = "active"
           /\ sess' = [sess EXCEPT ![s].holding = c, ![s].queued = <<>>, ![s].acquiring = FALSE]
           /\ conn' = Sent([conn EXCEPT ![c].onMessage = s], c,
                           [i \in DOMAIN sess[s].queued |->
                              [from |-> s, opens |-> sess[s].queued[i]]])
           /\ granted' = gr /\ waiters' = waiters
    BY DEF Granted
  <1> QED  BY <1>4, <1>5, <1>6, <1>7

LEMMA OpenSucceedsRequests ==
    ASSUME Safe, OneRequest, NEW c \in Conns, OpenSucceeds(c) PROVE OneRequest'
  <1> DEFINE x == [conn[c] EXCEPT !.sock = "open", !.opener = None]
  <1>1. /\ Typed /\ conn \in [Conns -> Connection] /\ conn[c] \in Connection
        /\ granted \in [Clients -> Conns \cup {None}] /\ IsOpening(c) /\ c # None
    BY NoneAssumption DEF Safe, Typed, OpenSucceeds, IsOpening
  <1>2. /\ conn' = [conn EXCEPT ![c] = x] /\ x.sock = "open"
        /\ granted' = [granted EXCEPT ![conn[c].opener] = c]
        /\ UNCHANGED <<sess, waiters>>
    BY <1>1 DEF OpenSucceeds, Connection
  <1> HIDE DEF x
  <1>3. \A t \in Clients : granted'[t] = IF OpensFor(c, t) THEN c ELSE granted[t]
    BY <1>1, <1>2 DEF OpensFor
  <1>4. \A d \in Conns, t \in Clients : OpensFor(d, t)' <=> OpensFor(d, t) /\ d # c
    BY <1>1, <1>2 DEF OpensFor, IsOpening
  <1>5. \A t \in Clients : Waits(t)' <=> Waits(t)
    BY <1>2 DEF Waits
  <1>6. ASSUME NEW t \in Clients PROVE RequestOf(t)'
    <2>1. RequestOf(t) /\ sess'[t] = sess[t]
      BY <1>2 DEF OneRequest
    <2> QED  BY <1>1, <1>3, <1>4, <1>5, <2>1 DEF RequestOf, Pending
  <1> QED  BY <1>2, <1>6 DEF OneRequest

LEMMA OpenFailsRequests ==
    ASSUME Safe, OneRequest, NEW c \in Conns, OpenFails(c) PROVE OneRequest'
  <1>1. /\ Typed /\ DueInv /\ IsOpening(c) /\ conn' = Destroyed(conn, {c})
        /\ sess' = [sess EXCEPT ![conn[c].opener] = Rejected(@)]
        /\ UNCHANGED <<waiters, granted>>
    BY DEF Safe, OpenFails, IsOpening
  <1>2. conn'[c].sock = "closed" /\ \A d \in Conns : d # c => conn'[d] = conn[d]
    BY <1>1, DestroyedTyped DEF Typed
  <1>3. \A d \in Conns, t \in Clients : OpensFor(d, t)' <=> OpensFor(d, t) /\ d # c
    BY <1>2 DEF OpensFor, IsOpening
  <1>4. \A t \in Clients : Waits(t)' <=> Waits(t)
    BY <1>1 DEF Waits
  <1>5. ASSUME NEW t \in Clients PROVE RequestOf(t)'
    <2>1. RequestOf(t) /\ sess[t] \in Session /\ sess[t].due <= sess[t].sent
      BY <1>1 DEF OneRequest, Typed, DueInv
    <2>2. CASE OpensFor(c, t)
      <3>1. sess'[t] = Rejected(sess[t])
        BY <1>1, <2>2 DEF OpensFor, Typed
      <3>2. /\ sess'[t].holding \in {sess[t].holding, None} /\ sess'[t].acquiring = FALSE
            /\ sess'[t].phase \in {sess[t].phase, "closed"}
        BY <2>1, <3>1, RejectedTyped
      <3>3. ~Pending(t)' /\ sess[t].holding = None
        BY <1>1, <1>3, <1>4, <2>1, <2>2 DEF RequestOf, Pending
      <3> QED  BY <1>1, <1>3, <1>4, <2>1, <3>2, <3>3, RequestKept
    <2>3. CASE ~OpensFor(c, t)
      <3>1. sess'[t] = sess[t]
        BY <1>1, <2>3 DEF OpensFor, Typed
      <3> QED  BY <1>1, <1>3, <1>4, <2>1, <3>1 DEF RequestOf, Pending
    <2> QED  BY <2>2, <2>3
  <1> QED  BY <1>1, <1>5 DEF OneRequest

LEMMA WaitTimesOutRequests ==
    ASSUME Safe, OneRequest, NEW s \in Clients, WaitTimesOut(s) PROVE OneRequest'
  <1>1. /\ Typed /\ DueInv /\ waiters \in Seq(Clients) /\ Len(waiters) \in Nat
        /\ sess' = [sess EXCEPT ![s] = Rejected(@)]
        /\ UNCHANGED <<conn, granted>>
    BY LenProperties DEF Safe, WaitTimesOut, Typed
  <1>2. PICK i \in 1..Len(waiters) :
          /\ waiters[i] = s
          /\ waiters' = SubSeq(waiters, 1, i - 1) \o SubSeq(waiters, i + 1, Len(waiters))
    BY DEF WaitTimesOut
  <1>3. /\ Len(waiters') = Len(waiters) - 1
        /\ \A j \in 1..Len(waiters') : waiters'[j] = IF j < i THEN waiters[j] ELSE waiters[j + 1]
    <2> DEFINE a == SubSeq(waiters, 1, i - 1)
               b == SubSeq(waiters, i + 1, Len(waiters))
    <2>1. /\ a \in Seq(Clients) /\ Len(a) = i - 1
          /\ \A j \in 1..(i - 1) : a[j] = waiters[j]
      BY <1>1, SubSeqProperties
    <2>2. /\ b \in Seq(Clients) /\ Len(b) = Len(waiters) - i
          /\ \A j \in 1..(Len(waiters) - i) : b[j] = waiters[j + i]
      <3>1. \A j \in (i + 1)..Len(waiters) : waiters[j] \in Clients
        BY <1>1
      <3>2. /\ b \in Seq(Clients)
            /\ Len(b) = IF i + 1 <= Len(waiters) THEN Len(waiters) - (i + 1) + 1 ELSE 0
            /\ \A j \in 1..(Len(waiters) - (i + 1) + 1) : b[j] = waiters[(i + 1) + j - 1]
        BY <1>1, <3>1, SubSeqProperties
      <3> HIDE DEF b
      <3>3. PICK n \in Nat : n = Len(waiters)
        BY <1>1
      <3>4. (IF i + 1 <= n THEN n - (i + 1) + 1 ELSE 0) = n - i /\ n - (i + 1) + 1 = n - i
        BY <3>3
      <3>5. \A j \in 1..(n - i) : (i + 1) + j - 1 = j + i
        BY <3>3
      <3> QED  BY ONLY <3>2, <3>3, <3>4, <3>5
    <2>3. waiters' = a \o b
      BY <1>2
    <2> HIDE DEF a, b
    <2>4. /\ Len(a \o b) = Len(a) + Len(b)
          /\ \A j \in 1..(Len(a) + Len(b)) :
                (a \o b)[j] = IF j <= Len(a) THEN a[j] ELSE b[j - Len(a)]
      BY <2>1, <2>2, ConcatProperties
    <2>5. Len(waiters') = Len(waiters) - 1
      BY <1>1, <2>1, <2>2, <2>3, <2>4
    <2>6. ASSUME NEW j \in 1..Len(waiters')
          PROVE  waiters'[j] = IF j < i THEN waiters[j] ELSE waiters[j + 1]
      <3>1. waiters'[j] = IF j <= i - 1 THEN a[j] ELSE b[j - (i - 1)]
        BY <1>1, <2>1, <2>2, <2>3, <2>4, <2>5, <2>6
      <3>2. CASE j < i
        <4>1. j \in 1..(i - 1)
          BY <2>5, <2>6, <3>2
        <4> QED  BY <2>1, <3>1, <3>2, <4>1
      <3>3. CASE ~(j < i)
        <4>1. j - (i - 1) \in 1..(Len(waiters) - i) /\ j - (i - 1) + i = j + 1 /\ ~(j <= i - 1)
          BY <1>1, <2>5, <2>6, <3>3
        <4>2. b[j - (i - 1)] = waiters[j - (i - 1) + i]
          BY <2>2, <4>1
        <4> QED  BY <3>1, <3>3, <4>1, <4>2
      <3> QED  BY <3>2, <3>3
    <2> QED  BY <2>5, <2>6
  <1>4. \A j, k \in 1..Len(waiters') : waiters'[j] = waiters'[k] => j = k
    BY <1>1, <1>3 DEF OneRequest
  <1>5. \A t \in Clients : Waits(t)' => Waits(t) /\ t # s
    <2> SUFFICES ASSUME NEW t \in Clients, NEW j \in 1..Len(waiters'), waiters'[j] = t
                 PROVE  Waits(t) /\ t # s
      BY DEF Waits
    <2>1. PICK k \in 1..Len(waiters) : waiters[k] = t /\ k # i
      <3>1. CASE j < i
        BY <1>1, <1>3, <3>1, SMTT(30)
      <3>2. CASE ~(j < i)
        <4>1. j + 1 \in 1..Len(waiters) /\ j + 1 # i /\ waiters[j + 1] = t
          BY <1>1, <1>3, <3>2
        <4> QED  BY <4>1
      <3> QED  BY <3>1, <3>2
    <2> QED  BY <1>2, <2>1 DEF Waits, OneRequest
  <1>6. \A d \in Conns, t \in Clients : OpensFor(d, t)' <=> OpensFor(d, t)
    BY <1>1 DEF OpensFor, IsOpening
  <1>7. Waits(s)
    BY <1>2 DEF Waits
  <1>8. ASSUME NEW t \in Clients, t # s PROVE RequestOf(t)'
    <2>1. RequestOf(t) /\ sess'[t] = sess[t]
      BY <1>1, <1>8 DEF OneRequest, Typed
    <2> QED  BY <1>1, <1>5, <1>6, <2>1 DEF RequestOf, Pending
  <1>9. RequestOf(s)'
    <2>1. RequestOf(s) /\ sess[s] \in Session /\ sess[s].due <= sess[s].sent
          /\ sess'[s] = Rejected(sess[s])
      BY <1>1 DEF OneRequest, Typed, DueInv
    <2>2. /\ sess'[s].holding \in {sess[s].holding, None} /\ sess'[s].acquiring = FALSE
          /\ sess'[s].phase \in {sess[s].phase, "closed"}
      BY <2>1, RejectedTyped
    <2>3. ~Pending(s)' /\ sess[s].holding = None
      BY <1>1, <1>5, <1>6, <1>7, <2>1 DEF RequestOf, Pending
    <2> QED  BY <1>1, <1>5, <1>6, <2>1, <2>2, <2>3, RequestKept
  <1> QED  BY <1>4, <1>8, <1>9 DEF OneRequest

\* The transaction status of the next answer, and the connections once it has been read.
AnswerTx(c) == IF Head(conn[c].inbox).opens THEN Head(conn[c].inbox).from ELSE None

Answered(c) == [conn EXCEPT ![c].inbox = Tail(@), ![c].tx = AnswerTx(c)]

LEMMA AnswerEffect ==
    ASSUME Safe, NEW c \in Conns, Answer(c)
    PROVE  /\ conn[c].sock = "open" /\ conn[c].inbox # <<>> /\ conn[c].inbox \in Seq(Query)
           /\ Answered(c) \in [Conns -> Connection]
           /\ \A d \in Conns : d # c => Answered(c)[d] = conn[d]
           /\ Answered(c)[c].sock = "open" /\ Answered(c)[c].opener = conn[c].opener
           /\ Answered(c)[c].onMessage = conn[c].onMessage
           /\ Answered(c)[c].inbox = Tail(conn[c].inbox) /\ Answered(c)[c].tx = AnswerTx(c)
           /\ \/ /\ conn[c].onMessage = None /\ conn' = Answered(c)
                 /\ UNCHANGED <<sess, idle, all, waiters, granted, delivered>>
              \/ \E s \in Clients :
                    /\ conn[c].onMessage = s
                    /\ delivered' = delivered \cup {<<s, Head(conn[c].inbox).from>>}
                    /\ \A t \in Clients : t # s => sess'[t] = sess[t]
                    /\ sess'[s].due = IF sess[s].due = 0 THEN 0 ELSE sess[s].due - 1
                    /\ sess'[s].acquiring = sess[s].acquiring /\ sess'[s].phase = sess[s].phase
                    /\ sess'[s].queued = sess[s].queued
                    /\ \/ /\ AnswerTx(c) = None /\ sess'[s].holding = None
                          /\ Release(c, Answered(c), granted)
                       \/ /\ AnswerTx(c) # None /\ sess'[s].holding = sess[s].holding
                          /\ conn' = Answered(c)
                          /\ UNCHANGED <<idle, all, waiters, granted>>
  <1> DEFINE y == [conn[c] EXCEPT !.inbox = Tail(conn[c].inbox), !.tx = AnswerTx(c)]
  <1>1. /\ conn \in [Conns -> Connection] /\ conn[c] \in Connection
        /\ conn[c].inbox \in Seq(Query) /\ conn[c].inbox # <<>>
        /\ conn[c].sock = "open" /\ conn[c].onMessage \in Clients \cup {None}
        /\ sess \in [Clients -> Session]
    BY DEF Safe, Answer, Reading, Typed, Connection
  <1>2. Head(conn[c].inbox) \in Query /\ Tail(conn[c].inbox) \in Seq(Query)
    BY <1>1, HeadTailProperties
  <1>3. AnswerTx(c) \in Clients \cup {None}
    BY <1>2 DEF AnswerTx, Query
  <1>4. Answered(c) = [conn EXCEPT ![c] = y]
    BY <1>1 DEF Answered
  <1>5. /\ y \in Connection /\ y.sock = "open" /\ y.opener = conn[c].opener
        /\ y.onMessage = conn[c].onMessage /\ y.inbox = Tail(conn[c].inbox) /\ y.tx = AnswerTx(c)
    BY <1>1, <1>2, <1>3 DEF Connection
  <1> HIDE DEF y
  <1>6. Answered(c) \in [Conns -> Connection] /\ Answered(c)[c] = y
        /\ \A d \in Conns : d # c => Answered(c)[d] = conn[d]
    BY <1>1, <1>4, <1>5
  <1>7. CASE conn[c].onMessage = None
    <2>1. conn' = Answered(c) /\ UNCHANGED <<sess, idle, all, waiters, granted, delivered>>
      BY <1>7 DEF Answer, Answered, AnswerTx
    <2> QED  BY <1>1, <1>5, <1>6, <1>7, <2>1
  <1>8. ASSUME NEW s \in Clients, conn[c].onMessage = s
        PROVE  /\ delivered' = delivered \cup {<<s, Head(conn[c].inbox).from>>}
               /\ \A t \in Clients : t # s => sess'[t] = sess[t]
               /\ sess'[s].due = IF sess[s].due = 0 THEN 0 ELSE sess[s].due - 1
               /\ sess'[s].acquiring = sess[s].acquiring /\ sess'[s].phase = sess[s].phase
               /\ sess'[s].queued = sess[s].queued
               /\ \/ /\ AnswerTx(c) = None /\ sess'[s].holding = None
                     /\ Release(c, Answered(c), granted)
                  \/ /\ AnswerTx(c) # None /\ sess'[s].holding = sess[s].holding
                     /\ conn' = Answered(c)
                     /\ UNCHANGED <<idle, all, waiters, granted>>
    <2> DEFINE due == IF sess[s].due = 0 THEN 0 ELSE sess[s].due - 1
               x == [sess[s] EXCEPT !.due = due]
               z == [x EXCEPT !.holding = None]
               answered == [sess EXCEPT ![s].due = IF @ = 0 THEN 0 ELSE @ - 1]
    <2>1. s # None /\ sess[s] \in Session
      BY <1>1, <1>8, NoneAssumption
    <2>2. answered = [sess EXCEPT ![s] = x]
      OBVIOUS
    <2>3. /\ delivered' = delivered \cup {<<s, Head(conn[c].inbox).from>>}
          /\ \/ /\ AnswerTx(c) = None
                /\ sess' = [answered EXCEPT ![s].holding = None]
                /\ Release(c, Answered(c), granted)
             \/ /\ AnswerTx(c) # None /\ sess' = answered /\ conn' = Answered(c)
                /\ UNCHANGED <<idle, all, waiters, granted>>
      BY <1>8, <2>1 DEF Answer, Answered, AnswerTx, Frees
    <2> HIDE DEF due
    <2>4. /\ x.due = due /\ x.holding = sess[s].holding /\ x.acquiring = sess[s].acquiring
          /\ x.phase = sess[s].phase /\ x.queued = sess[s].queued
      BY <2>1 DEF Session
    <2>5. /\ z.due = due /\ z.holding = None /\ z.acquiring = sess[s].acquiring
          /\ z.phase = sess[s].phase /\ z.queued = sess[s].queued
      BY <2>1 DEF Session
    <2>6. [answered EXCEPT ![s].holding = None] = [sess EXCEPT ![s] = z]
      BY <1>1, <2>2
    <2> HIDE DEF x, z, answered
    <2>7. ASSUME NEW r, sess' = [sess EXCEPT ![s] = r]
          PROVE  sess'[s] = r /\ \A t \in Clients : t # s => sess'[t] = sess[t]
      BY <1>1, <2>7
    <2> QED  BY <2>2, <2>3, <2>4, <2>5, <2>6, <2>7 DEF due
  <1> QED  BY <1>1, <1>5, <1>6, <1>7, <1>8

LEMMA AnswerRequests ==
    ASSUME Safe, OneRequest, NEW c \in Conns, Answer(c) PROVE OneRequest'
  <1> DEFINE cs == Answered(c)
  <1>1. /\ Typed /\ cs \in [Conns -> Connection]
        /\ \A d \in Conns : cs[d].sock = conn[d].sock /\ cs[d].opener = conn[d].opener
    BY AnswerEffect DEF Safe
  <1>2. conn' = cs => \A d \in Conns, t \in Clients : OpensFor(d, t)' => OpensFor(d, t)
    BY <1>1 DEF OpensFor, IsOpening
  <1>3. CASE /\ conn' = cs /\ UNCHANGED <<waiters, granted>>
             /\ \A t \in Clients : /\ sess'[t].acquiring = sess[t].acquiring
                                   /\ sess'[t].phase = sess[t].phase
                                   /\ sess'[t].holding = sess[t].holding
    BY <1>2, <1>3, RequestsUntouched
  <1>4. CASE /\ \A t \in Clients : /\ sess'[t].acquiring = sess[t].acquiring
                                   /\ sess'[t].phase = sess[t].phase
                                   /\ sess'[t].holding \in {sess[t].holding, None}
             /\ Release(c, cs, granted)
    <2>1. granted \in [Clients -> Conns \cup {None}]
      BY <1>1 DEF Typed
    <2>2. ASSUME NEW t \in Clients
          PROVE granted[t] # None \/ Waits(t) \/ (\E d \in Conns : OpensFor(d, t)) => sess'[t].acquiring
      BY <1>4 DEF OneRequest, RequestOf, Pending
    <2> HIDE DEF cs
    <2>3. \A t \in Clients : sess'[t].acquiring => sess[t].acquiring
      BY <1>4
    <2> QED  BY <1>1, <1>4, <2>1, <2>2, <2>3, ReleaseRequests
  <1> HIDE DEF cs
  <1>5. \/ conn' = cs /\ UNCHANGED <<sess, waiters, granted>>
        \/ \E s \in Clients :
              /\ \A t \in Clients : t # s => sess'[t] = sess[t]
              /\ sess'[s].acquiring = sess[s].acquiring /\ sess'[s].phase = sess[s].phase
              /\ \/ sess'[s].holding = None /\ Release(c, cs, granted)
                 \/ /\ sess'[s].holding = sess[s].holding
                    /\ conn' = cs /\ UNCHANGED <<waiters, granted>>
    BY AnswerEffect DEF cs
  <1> QED  BY <1>3, <1>4, <1>5

LEMMA RequestsInit == Init => OneRequest
  <1> SUFFICES ASSUME Init PROVE OneRequest
    OBVIOUS
  <1>1. \A s \in Clients : /\ sess[s].acquiring = FALSE /\ sess[s].holding = None
                           /\ granted[s] = None
    BY DEF Init, NoSession
  <1>2. \A c \in Conns : ~IsOpening(c)
    BY DEF Init, NoConnection, IsOpening
  <1>3. Len(waiters) = 0
    BY DEF Init
  <1>4. \A s \in Clients : ~Waits(s) /\ \A c \in Conns : ~OpensFor(c, s)
    BY <1>2, <1>3 DEF Waits, OpensFor
  <1> QED  BY <1>1, <1>3, <1>4 DEF OneRequest, RequestOf, Pending

LEMMA RequestsNext == Safe /\ OneRequest /\ [Next]_vars => OneRequest'
  <1> SUFFICES ASSUME Safe, OneRequest, [Next]_vars PROVE OneRequest'
    OBVIOUS
  <1>1. CASE UNCHANGED vars
    BY <1>1, RequestsUntouched DEF vars, OpensFor, IsOpening
  <1>2. ASSUME NEW s \in Clients,
               Connect(s) \/ AuthenticationFails(s) \/ ClientLeaves(s) \/ Login(s)
        PROVE  OneRequest'
    BY <1>2, QuietStepsRequests, LoginRequests
  <1>3. ASSUME NEW s \in Clients, Granted(s) \/ WaitTimesOut(s) PROVE OneRequest'
    BY <1>3, GrantedRequests, WaitTimesOutRequests
  <1>4. ASSUME NEW s \in Clients, NEW opens \in BOOLEAN, ClientSends(s, opens) PROVE OneRequest'
    BY <1>4, ClientSendsRequests
  <1>5. ASSUME NEW c \in Conns, OpenSucceeds(c) \/ OpenFails(c) \/ Answer(c) PROVE OneRequest'
    BY <1>5, OpenSucceedsRequests, OpenFailsRequests, AnswerRequests
  <1>6. ASSUME \/ SweepIdle \/ RouteChanges
               \/ \E c \in Conns : BackendCloses(c) \/ BackendGarbles(c)
        PROVE  OneRequest'
    BY <1>6, ServerStepsRequests
  <1> QED  BY <1>1, <1>2, <1>3, <1>4, <1>5, <1>6 DEF Next

-----------------------------------------------------------------------------
(* One place per connection: it is idle, or granted to one session, or     *)
(* held by one.                                                            *)

Uses(s, c) == sess[s].holding = c \/ granted[s] = c

PlaceOf(c) ==
    /\ \A s, t \in Clients : Uses(s, c) /\ Uses(t, c) => s = t
    /\ c \in idle => \A s \in Clients : ~Uses(s, c)

OnePlace == \A c \in Conns : PlaceOf(c)

LEMMA PlaceKept ==
    ASSUME NEW c, PlaceOf(c), \A s \in Clients : Uses(s, c)' => Uses(s, c),
           c \in idle' => c \in idle
    PROVE  PlaceOf(c)'
  BY DEF PlaceOf

\* acquire() takes what it hands over out of pool.idle.
LEMMA AcquirePlaces ==
    ASSUME Typed, OnePlace, NEW s \in Clients, NEW cs \in [Conns -> Connection],
           NEW pool \in [idle : SUBSET Conns, all : SUBSET Conns, waiters : Seq(Clients)],
           pool.idle \subseteq idle,
           \A t \in Clients : sess'[t].holding \in {sess[t].holding, None},
           Acquire(s, cs, pool)
    PROVE  OnePlace'
  <1> SUFFICES ASSUME NEW d \in Conns PROVE PlaceOf(d)'
    BY DEF OnePlace
  <1>1. d # None /\ PlaceOf(d) /\ granted \in [Clients -> Conns \cup {None}]
    BY NoneAssumption DEF OnePlace, Typed
  <1>2. CASE granted' = granted /\ idle' \subseteq pool.idle
    BY <1>1, <1>2, PlaceKept DEF Uses
  <1>3. ASSUME NEW c \in pool.idle, granted' = [granted EXCEPT ![s] = c], idle' = pool.idle \ {c}
        PROVE  PlaceOf(d)'
    <2>1. CASE d = c
      <3>1. \A t \in Clients : ~Uses(t, d)
        BY <1>1, <2>1 DEF PlaceOf
      <3>2. \A t \in Clients : Uses(t, d)' => t = s
        BY <1>1, <1>3, <2>1, <3>1 DEF Uses
      <3> QED  BY <1>3, <2>1, <3>2 DEF PlaceOf
    <2>2. CASE d # c
      BY <1>1, <1>3, <2>2, PlaceKept DEF Uses
    <2> QED  BY <2>1, <2>2
  <1> QED  BY <1>2, <1>3 DEF Acquire

\* release() hands the connection to the first session waiting, or puts it in pool.idle.
LEMMA ReleasePlaces ==
    ASSUME Typed, OnePlace, NEW c \in Conns, c \notin idle, NEW cs \in [Conns -> Connection],
           NEW gr \in [Clients -> Conns \cup {None}],
           \A t \in Clients : /\ gr[t] \in {granted[t], None}
                              /\ sess'[t].holding \in {sess[t].holding, None}
                              /\ sess'[t].holding # c /\ gr[t] # c,
           Release(c, cs, gr)
    PROVE  OnePlace'
  <1> SUFFICES ASSUME NEW d \in Conns PROVE PlaceOf(d)'
    BY DEF OnePlace
  <1>1. d # None /\ PlaceOf(d)
    BY NoneAssumption DEF OnePlace
  <1>2. \A t \in Clients : gr[t] = d \/ sess'[t].holding = d => Uses(t, d) /\ d # c
    BY <1>1 DEF Uses
  <1>3. CASE granted' = gr /\ idle' \subseteq idle \cup {c}
    <2>1. \A t \in Clients : Uses(t, d)' => Uses(t, d) /\ d # c
      BY <1>2, <1>3 DEF Uses
    <2> QED  BY <1>1, <1>3, <2>1 DEF PlaceOf
  <1>4. ASSUME NEW h \in Clients, granted' = [gr EXCEPT ![h] = c], idle' = idle, c \notin idle
        PROVE  PlaceOf(d)'
    <2>1. \A t \in Clients : Uses(t, d)' => (d # c /\ Uses(t, d)) \/ (d = c /\ t = h)
      BY <1>2, <1>4 DEF Uses
    <2> QED  BY <1>1, <1>4, <2>1 DEF PlaceOf
  <1>5. waiters # <<>> => Head(waiters) \in Clients
    BY HeadTailProperties DEF Typed
  <1> QED  BY <1>3, <1>4, <1>5 DEF Release

\* What a connection carries belongs to the session that holds it.
TurnOf(c) ==
    conn[c].sock \in {"opening", "open"} =>
      IF conn[c].onMessage = None
      THEN conn[c].inbox = <<>> /\ conn[c].tx = None /\ \A s \in Clients : sess[s].holding # c
      ELSE /\ sess[conn[c].onMessage].holding = c
           /\ conn[c].tx \in {None, conn[c].onMessage}
           /\ Len(conn[c].inbox) <= sess[conn[c].onMessage].due
           /\ \A i \in 1..Len(conn[c].inbox) : conn[c].inbox[i].from = conn[c].onMessage

\* A session has one query under way, and holds it back only while it acquires.
SessionTurn(s) ==
    /\ sess[s].due <= 1 /\ Len(sess[s].queued) <= sess[s].due
    /\ sess[s].queued # <<>> => sess[s].acquiring /\ sess[s].phase = "active"

Turns ==
    /\ \A c \in Conns : TurnOf(c)
    /\ \A s \in Clients : SessionTurn(s)
    /\ AnswersReachTheirSender

LEMMA PlacesNext == Safe /\ OneRequest /\ OnePlace /\ Turns /\ [Next]_vars => OnePlace'
  <1> SUFFICES ASSUME Safe, OneRequest, OnePlace, Turns, [Next]_vars PROVE OnePlace'
    OBVIOUS
  <1>0. /\ Typed /\ DueInv /\ BoundInv /\ sess \in [Clients -> Session]
        /\ granted \in [Clients -> Conns \cup {None}]
        /\ \A c \in Conns : c # None
        /\ \A t \in Clients : sess[t] \in Session /\ sess[t].due <= sess[t].sent
    BY NoneAssumption DEF Safe, Typed, DueInv
  <1>1. ASSUME idle' \subseteq idle, granted' = granted,
               \A t \in Clients : sess'[t].holding \in {sess[t].holding, None}
        PROVE  OnePlace'
    BY <1>0, <1>1, PlaceKept DEF OnePlace, Uses
  <1>2. CASE UNCHANGED vars
    BY <1>1, <1>2 DEF vars
  <1>3. ASSUME NEW s \in Clients, Connect(s) \/ AuthenticationFails(s) \/ ClientLeaves(s)
        PROVE  OnePlace'
    <2>1. sess'[s].holding \in {sess[s].holding, None} /\ \A t \in Clients : t # s => sess'[t] = sess[t]
      <3>1. CASE Connect(s)
        <4>1. sess' = [sess EXCEPT ![s] = [sess[s] EXCEPT !.phase = "authenticating", !.seen = route]]
          BY <3>1 DEF Connect
        <4> QED  BY <1>0, <4>1 DEF Session
      <3>2. ASSUME NEW b \in BOOLEAN, sess' = [sess EXCEPT ![s] = Gone(b)]
            PROVE  sess'[s].holding = None /\ \A t \in Clients : t # s => sess'[t] = sess[t]
        BY <1>0, <3>2, GoneTyped
      <3>3. sess[s].acquiring \in BOOLEAN
        BY <1>0 DEF Session
      <3> QED  BY <1>3, <3>1, <3>2, <3>3 DEF AuthenticationFails, ClientLeaves
    <2>2. idle' \subseteq idle /\ granted' = granted
      BY <1>3 DEF Connect, AuthenticationFails, ClientLeaves, poolVars
    <2> QED  BY <1>1, <2>1, <2>2
  <1>4. ASSUME NEW s \in Clients, WaitTimesOut(s) PROVE OnePlace'
    <2>1. sess' = [sess EXCEPT ![s] = Rejected(sess[s])] /\ UNCHANGED <<idle, granted>>
      BY <1>4 DEF WaitTimesOut
    <2>2. Rejected(sess[s]).holding \in {sess[s].holding, None}
      BY <1>0, RejectedTyped
    <2> QED  BY <1>0, <1>1, <2>1, <2>2
  <1>5. ASSUME NEW s \in Clients, NEW opens \in BOOLEAN, ClientSends(s, opens) PROVE OnePlace'
    <2>1. /\ \A t \in Clients : sess'[t].holding = sess[t].holding
          /\ UNCHANGED <<idle, granted>> \/ Acquire(s, conn, Current)
      BY <1>5, SendsEffect
    <2>2. CASE Acquire(s, conn, Current)
      BY <1>0, <2>1, <2>2, CurrentTyped, AcquirePlaces DEF Typed
    <2> QED  BY <1>1, <2>1, <2>2
  <1>6. ASSUME NEW c \in Conns, OpenFails(c) PROVE OnePlace'
    <2>1. /\ \A t \in Clients : sess'[t] \in {sess[t], Rejected(sess[t])}
          /\ UNCHANGED <<idle, granted>>
      BY <1>0, <1>6 DEF OpenFails
    <2> QED  BY <1>0, <1>1, <2>1, RejectedTyped
  <1>7. ASSUME NEW c \in Conns, OpenSucceeds(c) PROVE OnePlace'
    <2>1. granted' = [granted EXCEPT ![conn[c].opener] = c] /\ UNCHANGED <<sess, idle>>
          /\ ~Referenced(c)
      BY <1>0, <1>7 DEF OpenSucceeds, BoundInv, IsOpening
    <2>2. ASSUME NEW d \in Conns PROVE PlaceOf(d)'
      <3>1. CASE d # c
        BY <1>0, <2>1, <3>1, PlaceKept DEF OnePlace, Uses
      <3>2. CASE d = c
        <4>1. \A t \in Clients : Uses(t, d)' => t = conn[c].opener
          BY <1>0, <2>1, <3>2 DEF Uses, Referenced
        <4> QED  BY <2>1, <3>2, <4>1 DEF PlaceOf, Referenced
      <3> QED  BY <3>1, <3>2
    <2> QED  BY <2>2 DEF OnePlace
  <1>8. ASSUME NEW s \in Clients, Login(s) PROVE OnePlace'
    <2>1. ASSUME NEW ss \in [Clients -> Session],
                 \A t \in Clients : ss[t].holding \in {sess[t].holding, None},
                 sess' = [ss EXCEPT ![s].phase = "login", ![s].acquiring = TRUE]
          PROVE  \A t \in Clients : sess'[t].holding \in {sess[t].holding, None}
      <3> DEFINE x == [ss[s] EXCEPT !.phase = "login", !.acquiring = TRUE]
      <3>1. x.holding = ss[s].holding
        BY SessionMoved
      <3>2. sess' = [ss EXCEPT ![s] = x]
        BY <2>1
      <3> HIDE DEF x
      <3> QED  BY <2>1, <3>1, <3>2
    <2>2. CASE /\ sess' = [sess EXCEPT ![s].phase = "active"] /\ UNCHANGED <<idle, granted>>
      <3>1. sess' = [sess EXCEPT ![s] = [sess[s] EXCEPT !.phase = "active"]]
        BY <2>2
      <3>2. \A t \in Clients : sess'[t].holding = sess[t].holding
        BY <1>0, <3>1 DEF Session
      <3> QED  BY <1>1, <2>2, <3>2
    <2>3. CASE /\ sess' = [sess EXCEPT ![s].phase = "login", ![s].acquiring = TRUE]
               /\ Acquire(s, conn, Current)
      BY <1>0, <2>1, <2>3, CurrentTyped, AcquirePlaces DEF Typed
    <2>4. ASSUME NEW ss,
                 ss = [t \in Clients |-> IF \E i \in 1..Len(waiters) : waiters[i] = t
                                         THEN Rejected(sess[t]) ELSE sess[t]],
                 sess' = [ss EXCEPT ![s].phase = "login", ![s].acquiring = TRUE],
                 Acquire(s, Destroyed(conn, all), Emptied)
          PROVE  OnePlace'
      <3>1. \A t \in Clients : ss[t] \in {sess[t], Rejected(sess[t])}
        BY <2>4
      <3>2. \A t \in Clients : ss[t] \in Session /\ ss[t].holding \in {sess[t].holding, None}
        BY <1>0, <3>1, RejectedTyped
      <3>3. ss \in [Clients -> Session]
        BY <2>4, <3>2
      <3>4. \A t \in Clients : sess'[t].holding \in {sess[t].holding, None}
        BY <2>1, <2>4, <3>2, <3>3
      <3>5. Destroyed(conn, all) \in [Conns -> Connection]
        BY <1>0, DestroyedTyped DEF Typed
      <3> QED  BY <1>0, <2>4, <3>4, <3>5, CurrentTyped, AcquirePlaces
    <2> QED  BY <1>8, <2>2, <2>3, <2>4 DEF Login
  <1>9. ASSUME NEW s \in Clients, Granted(s) PROVE OnePlace'
    <2> DEFINE c == granted[s]
               gr == [granted EXCEPT ![s] = None]
    <2>1. /\ c \in Conns /\ c # None /\ gr \in [Clients -> Conns \cup {None}]
          /\ gr[s] = None /\ \A t \in Clients : t # s => gr[t] = granted[t]
          /\ conn \in [Conns -> Connection]
      BY <1>0, <1>9 DEF Granted, Typed
    <2>2. /\ sess[s].holding = None /\ c \notin idle
          /\ \A t \in Clients : t # s => ~Uses(t, c)
      BY <2>1 DEF OneRequest, RequestOf, Pending, OnePlace, PlaceOf, Uses
    <2>3. \A t \in Clients : t # s => sess'[t] = sess[t]
      BY <1>0, <1>9 DEF Granted
    <2>4. ASSUME Release(c, conn, gr), sess'[s].holding = None PROVE OnePlace'
      <3>1. \A t \in Clients : /\ gr[t] \in {granted[t], None}
                               /\ sess'[t].holding \in {sess[t].holding, None}
                               /\ sess'[t].holding # c /\ gr[t] # c
        BY <2>1, <2>2, <2>3, <2>4 DEF Uses
      <3> HIDE DEF c, gr
      <3> QED  BY <1>0, <2>1, <2>2, <2>4, <3>1, ReleasePlaces
    <2>5. ASSUME granted' = gr, idle' = idle, sess'[s].holding = c PROVE OnePlace'
      <3>1. \A t \in Clients, d \in Conns : Uses(t, d)' => Uses(t, d)
        BY <1>0, <2>1, <2>2, <2>3, <2>5 DEF Uses
      <3> QED  BY <2>5, <3>1, PlaceKept DEF OnePlace
    <2>6. \/ Release(c, conn, gr) /\ sess'[s].holding = None
          \/ granted' = gr /\ idle' = idle /\ sess'[s].holding = c
      <3>1. \/ /\ sess' = [sess EXCEPT ![s].phase = "active", ![s].acquiring = FALSE]
               /\ Release(c, conn, gr)
            \/ /\ sess' = [sess EXCEPT ![s].acquiring = FALSE]
               /\ Release(c, conn, gr)
            \/ /\ sess' = [sess EXCEPT ![s].holding = c, ![s].queued = <<>>, ![s].acquiring = FALSE]
               /\ granted' = gr /\ idle' = idle
        BY <1>9 DEF Granted
      <3>2. sess[s] \in Session
        BY <1>0
      <3>3. sess' = [sess EXCEPT ![s].phase = "active", ![s].acquiring = FALSE]
              => sess'[s].holding = sess[s].holding
        BY <1>0, <3>2 DEF Session
      <3>4. sess' = [sess EXCEPT ![s].acquiring = FALSE] => sess'[s].holding = sess[s].holding
        BY <1>0, <3>2 DEF Session
      <3>5. sess' = [sess EXCEPT ![s].holding = c, ![s].queued = <<>>, ![s].acquiring = FALSE]
              => sess'[s].holding = c
        BY <1>0, <3>2 DEF Session
      <3> HIDE DEF c, gr
      <3> QED  BY <2>2, <3>1, <3>3, <3>4, <3>5
    <2> QED  BY <2>4, <2>5, <2>6
  <1>10. ASSUME NEW c \in Conns, Answer(c) PROVE OnePlace'
    <2>1. CASE /\ UNCHANGED <<idle, granted>>
               /\ \A t \in Clients : sess'[t].holding \in {sess[t].holding, None}
      BY <1>1, <2>1
    <2>2. ASSUME NEW s \in Clients, conn[c].onMessage = s, sess[s].holding = c,
                 \A t \in Clients : t # s => sess'[t] = sess[t],
                 sess'[s].holding = None, Release(c, Answered(c), granted)
          PROVE  OnePlace'
      <3>1. Answered(c) \in [Conns -> Connection]
        BY <1>10, AnswerEffect
      <3>2. /\ granted[s] = None /\ c \notin idle
            /\ \A t \in Clients : t # s => ~Uses(t, c)
        BY <1>0, <2>2 DEF OneRequest, RequestOf, Pending, OnePlace, PlaceOf, Uses
      <3>3. \A t \in Clients : /\ granted[t] \in {granted[t], None}
                               /\ sess'[t].holding \in {sess[t].holding, None}
                               /\ sess'[t].holding # c /\ granted[t] # c
        BY <1>0, <2>2, <3>2 DEF Uses
      <3> QED  BY <1>0, <2>2, <3>1, <3>2, <3>3, ReleasePlaces
    <2>3. ASSUME NEW s \in Clients, conn[c].onMessage = s PROVE sess[s].holding = c
      <3>1. conn[c].sock = "open" /\ s # None
        BY <1>10, AnswerEffect, NoneAssumption
      <3> QED  BY <2>3, <3>1 DEF Turns, TurnOf
    <2> QED  BY <1>10, <2>1, <2>2, <2>3, AnswerEffect
  <1>11. ASSUME \/ SweepIdle \/ RouteChanges
                \/ \E c \in Conns : BackendCloses(c) \/ BackendGarbles(c)
         PROVE  OnePlace'
    BY <1>1, <1>11 DEF SweepIdle, RouteChanges, BackendCloses, BackendGarbles, poolVars
  <1> QED
    BY <1>2, <1>3, <1>4, <1>5, <1>6, <1>7, <1>8, <1>9, <1>10, <1>11 DEF Next

-----------------------------------------------------------------------------
(* Turns, when clients wait and nothing is reset. *)

\* A connection that a step leaves as it is, or closes.
LEMMA TurnKept ==
    ASSUME NEW c \in Conns, TurnOf(c),
           conn'[c] = conn[c] \/ conn'[c].sock \notin {"opening", "open"},
           \A s \in Clients : sess'[s].holding = c <=> sess[s].holding = c,
           \A s \in Clients : sess[s].holding = c => sess'[s].due = sess[s].due,
           conn[c].onMessage \in Clients \cup {None}
    PROVE  TurnOf(c)'
  <1>1. CASE conn'[c].sock \notin {"opening", "open"}
    BY <1>1 DEF TurnOf
  <1>2. CASE conn'[c] = conn[c] /\ conn[c].onMessage = None
    BY <1>2 DEF TurnOf
  <1>3. CASE conn'[c] = conn[c] /\ conn[c].onMessage # None /\ conn'[c].sock \in {"opening", "open"}
    <2> DEFINE s == conn[c].onMessage
    <2>1. s \in Clients /\ sess[s].holding = c
      BY <1>3 DEF TurnOf
    <2>2. sess'[s].holding = c /\ sess'[s].due = sess[s].due
      BY <2>1
    <2> QED  BY <1>3, <2>2 DEF TurnOf
  <1> QED  BY <1>1, <1>2, <1>3

\* A session whose acquire() is rejected had no turn to lose.
LEMMA RejectedTurn ==
    ASSUME NEW r \in Session, r.due <= r.sent, r.due <= 1
    PROVE  LET x == Rejected(r)
           IN x.due <= 1 /\ Len(x.queued) <= x.due /\ x.queued = <<>>
  <1>1. /\ Rejected(r) \in Session /\ Rejected(r).due <= r.due /\ Rejected(r).queued = <<>>
    BY RejectedTyped
  <1>2. Rejected(r).due \in Nat /\ r.due \in Nat
    BY <1>1, BoundsAssumption DEF Session
  <1> QED  BY <1>1, <1>2

\* acquire() leaves the turns alone: what it opens has none yet.
LEMMA AcquireTurns ==
    ASSUME Typed, \A c \in Conns : TurnOf(c), NEW s \in Clients,
           NEW cs \in [Conns -> Connection],
           \A c \in Conns : cs[c] = conn[c] \/ cs[c].sock = "closed",
           NEW pool, Acquire(s, cs, pool),
           \A t \in Clients : sess'[t].holding = sess[t].holding,
           \A t \in Clients : sess[t].holding # None => sess'[t].due = sess[t].due
    PROVE  \A c \in Conns : TurnOf(c)'
  <1> SUFFICES ASSUME NEW d \in Conns PROVE TurnOf(d)'
    OBVIOUS
  <1> DEFINE x == [NoConnection EXCEPT !.sock = "opening", !.opener = s]
  <1>1. x.onMessage = None /\ x.inbox = <<>> /\ x.tx = None
    BY DEF NoConnection
  <1>2. conn' = cs \/ \E c \in Conns : Unreferenced(c) /\ conn' = [cs EXCEPT ![c] = x]
    BY DEF Acquire, Open
  <1> HIDE DEF x
  <1>3. CASE conn'[d] = cs[d]
    <2>1. conn'[d] = conn[d] \/ conn'[d].sock \notin {"opening", "open"}
      BY <1>3
    <2>2. d # None /\ conn[d].onMessage \in Clients \cup {None}
      BY NoneAssumption DEF Typed, Connection
    <2> QED  BY <2>1, <2>2, TurnKept
  <1>4. CASE conn'[d] = x /\ Unreferenced(d)
    BY <1>1, <1>4 DEF TurnOf, Unreferenced
  <1> QED  BY <1>2, <1>3, <1>4

\* release() of a connection without anything under way.
LEMMA ReleaseTurns ==
    ASSUME ~ResetQuery, Typed, \A d \in Conns : TurnOf(d), NEW c \in Conns,
           NEW cs \in [Conns -> Connection],
           \A d \in Conns : d # c => cs[d] = conn[d],
           cs[c].sock = "open" => cs[c].inbox = <<>> /\ cs[c].tx = None,
           cs[c].sock # "opening",
           NEW gr, Release(c, cs, gr),
           \A t \in Clients : sess'[t].holding # c,
           \A t \in Clients, d \in Conns : d # c => (sess'[t].holding = d <=> sess[t].holding = d),
           \A t \in Clients : sess[t].holding # None /\ sess[t].holding # c => sess'[t].due = sess[t].due
    PROVE  \A d \in Conns : TurnOf(d)'
  <1> DEFINE r == [cs[c] EXCEPT !.onMessage = None]
             fs == [cs EXCEPT ![c] = r]
  <1>1. /\ r \in Connection /\ r.sock = cs[c].sock /\ r.inbox = cs[c].inbox /\ r.tx = cs[c].tx
        /\ r.onMessage = None
    BY DEF Connection
  <1>2. conn' = Sent(fs, c, <<>>)
    BY DEF Release
  <1> HIDE DEF r
  <1>3. fs \in [Conns -> Connection] /\ fs[c] = r /\ \A d \in Conns : d # c => fs[d] = cs[d]
    BY <1>1
  <1>4. <<>> \in Seq(Query)
    OBVIOUS
  <1> HIDE DEF fs
  <1>5. /\ \A d \in Conns : d # c => conn'[d] = fs[d]
        /\ conn'[c].sock = fs[c].sock /\ conn'[c].onMessage = fs[c].onMessage
        /\ conn'[c].tx = fs[c].tx
        /\ fs[c].sock # "closed" => conn'[c].inbox = fs[c].inbox \o <<>>
    <2> DEFINE qs == <<>>
    <2>1. qs \in Seq(Query) /\ conn' = Sent(fs, c, qs)
      BY <1>2, <1>4
    <2>2. /\ \A d \in Conns : d # c => conn'[d] = fs[d]
          /\ conn'[c].sock = fs[c].sock /\ conn'[c].onMessage = fs[c].onMessage
          /\ conn'[c].tx = fs[c].tx
          /\ fs[c].sock # "closed" => conn'[c].inbox = fs[c].inbox \o qs
      <3> HIDE DEF qs
      <3>1. \A d \in Conns : d # c => Sent(fs, c, qs)[d] = fs[d]
        BY <1>3, <2>1, SentTyped
      <3>2. /\ Sent(fs, c, qs)[c].sock = fs[c].sock /\ Sent(fs, c, qs)[c].tx = fs[c].tx
            /\ Sent(fs, c, qs)[c].onMessage = fs[c].onMessage
        BY <1>3, <2>1, SentTyped
      <3>3. fs[c].sock # "closed" => Sent(fs, c, qs)[c].inbox = fs[c].inbox \o qs
        BY <1>3, <2>1, SentTyped
      <3> QED  BY <2>1, <3>1, <3>2, <3>3
    <2> QED  BY <2>2
  <1>6. TurnOf(c)'
    <2>1. CASE cs[c].sock = "open"
      <3>1. /\ conn'[c].sock = "open" /\ conn'[c].onMessage = None /\ conn'[c].tx = None
            /\ conn'[c].inbox = <<>> \o <<>>
        BY <1>1, <1>3, <1>5, <2>1
      <3>2. conn'[c].inbox = <<>>
        BY <3>1
      <3> QED  BY <3>1, <3>2 DEF TurnOf
    <2>2. CASE cs[c].sock # "open"
      BY <1>1, <1>3, <1>5, <2>2 DEF TurnOf
    <2> QED  BY <2>1, <2>2
  <1>7. ASSUME NEW d \in Conns, d # c PROVE TurnOf(d)'
    <2>1. conn'[d] = conn[d] /\ d # None /\ conn[d].onMessage \in Clients \cup {None}
      BY <1>3, <1>5, <1>7, NoneAssumption DEF Typed, Connection
    <2> QED  BY <1>7, <2>1, TurnKept
  <1> QED  BY <1>6, <1>7

\* What is known of every session and connection before a step.
LEMMA TurnFacts ==
    ASSUME Safe, OneRequest, OnePlace, Turns
    PROVE  /\ Typed /\ DueInv /\ BoundInv /\ sess \in [Clients -> Session]
           /\ conn \in [Conns -> Connection]
           /\ \A t \in Clients : /\ sess[t] \in Session /\ sess[t].due \in Nat
                                 /\ sess[t].due <= 1 /\ sess[t].due <= sess[t].sent
                                 /\ sess[t].queued \in Seq(BOOLEAN)
                                 /\ sess[t].acquiring \in BOOLEAN
                                 /\ (sess[t].acquiring => sess[t].holding = None)
           /\ \A c \in Conns : /\ TurnOf(c) /\ c # None
                               /\ conn[c] \in Connection
                               /\ conn[c].inbox \in Seq(Query)
                               /\ conn[c].onMessage \in Clients \cup {None}
                               /\ IsOpening(c) => conn[c].onMessage = None
           /\ \A c \in Conns, t \in Clients :
                 conn[c].sock \in {"opening", "open"} =>
                    (conn[c].onMessage = t <=> sess[t].holding = c)
  <1>1. Typed /\ DueInv /\ BoundInv /\ sess \in [Clients -> Session] /\ conn \in [Conns -> Connection]
    BY DEF Safe, Typed
  <1>2. ASSUME NEW t \in Clients
        PROVE  /\ sess[t] \in Session /\ sess[t].due \in Nat
               /\ sess[t].due <= 1 /\ sess[t].due <= sess[t].sent
               /\ sess[t].queued \in Seq(BOOLEAN)
               /\ sess[t].acquiring \in BOOLEAN
               /\ (sess[t].acquiring => sess[t].holding = None)
    <2>1. sess[t] \in Session
      BY <1>1
    <2>2. sess[t].due \in 0..MaxQueries /\ sess[t].queued \in Seq(BOOLEAN)
          /\ sess[t].acquiring \in BOOLEAN
      BY <2>1 DEF Session
    <2>3. sess[t].due <= 1 /\ sess[t].due <= sess[t].sent
      BY <1>1 DEF Turns, SessionTurn, DueInv
    <2>4. sess[t].acquiring => sess[t].holding = None
      BY DEF OneRequest, RequestOf
    <2> QED  BY <2>1, <2>2, <2>3, <2>4, BoundsAssumption
  <1>3. ASSUME NEW c \in Conns
        PROVE  /\ TurnOf(c) /\ c # None /\ conn[c] \in Connection
               /\ conn[c].inbox \in Seq(Query)
               /\ conn[c].onMessage \in Clients \cup {None}
    <2>1. conn[c] \in Connection
      BY <1>1
    <2> QED  BY <2>1, NoneAssumption DEF Connection, Turns
  <1>4. ASSUME NEW c \in Conns, NEW t \in Clients, conn[c].sock \in {"opening", "open"}
        PROVE  conn[c].onMessage = t <=> sess[t].holding = c
    <2>1. t # None
      BY NoneAssumption
    <2>2. conn[c].onMessage # None => /\ conn[c].onMessage \in Clients
                                      /\ sess[conn[c].onMessage].holding = c
      BY <1>3, <1>4 DEF TurnOf
    <2>3. conn[c].onMessage = None => sess[t].holding # c
      BY <1>3, <1>4 DEF TurnOf
    <2>4. conn[c].onMessage # None /\ sess[t].holding = c => t = conn[c].onMessage
      BY <2>2 DEF OnePlace, PlaceOf, Uses
    <2> QED  BY <2>1, <2>2, <2>3, <2>4
  <1>5. ASSUME NEW c \in Conns, IsOpening(c) PROVE conn[c].onMessage = None
    <2>1. \A t \in Clients : sess[t].holding # c
      BY <1>1, <1>5 DEF BoundInv, Referenced
    <2> QED  BY <1>3, <1>4, <1>5, <2>1 DEF IsOpening
  <1> QED  BY <1>1, <1>2, <1>3, <1>4, <1>5

\* Steps that touch one session, and at most close connections.
LEMMA QuietStepsTurns ==
    ASSUME Safe, OneRequest, OnePlace, Turns,
           \/ \E s \in Clients : Connect(s) \/ AuthenticationFails(s) \/ ClientLeaves(s)
           \/ SweepIdle \/ RouteChanges
           \/ \E c \in Conns : BackendCloses(c) \/ BackendGarbles(c)
    PROVE  Turns'
  <1>0. /\ Typed /\ sess \in [Clients -> Session] /\ conn \in [Conns -> Connection]
        /\ \A t \in Clients : sess[t] \in Session /\ sess[t].acquiring \in BOOLEAN
        /\ \A c \in Conns : TurnOf(c) /\ c # None /\ conn[c].onMessage \in Clients \cup {None}
        /\ \A t \in Clients : SessionTurn(t)
    BY TurnFacts DEF Turns
  <1>1. delivered' = delivered
    BY DEF Connect, AuthenticationFails, ClientLeaves, SweepIdle, RouteChanges, BackendCloses,
           BackendGarbles
  <1>2. ASSUME \A c \in Conns : conn'[c] = conn[c] \/ conn'[c].sock = "closed",
               \A t \in Clients :
                  /\ sess'[t].queued = sess[t].queued /\ sess'[t].due = sess[t].due
                  /\ sess'[t].acquiring = sess[t].acquiring
                  /\ sess'[t].holding = sess[t].holding
                  /\ sess[t].queued # <<>> => sess'[t].phase = sess[t].phase
        PROVE  Turns'
    BY <1>0, <1>1, <1>2, TurnKept DEF Turns, SessionTurn, AnswersReachTheirSender
  <1>3. CASE sess' = sess /\ \E C : conn' = Destroyed(conn, C)
    <2>1. \A c \in Conns : conn'[c] = conn[c] \/ conn'[c].sock = "closed"
      BY <1>0, <1>3, DestroyedTyped
    <2> QED  BY <1>2, <1>3, <2>1
  <1>4. CASE UNCHANGED <<sess, conn>>
    BY <1>2, <1>4
  <1>5. ASSUME NEW s \in Clients, Connect(s) PROVE Turns'
    <2>1. conn' = conn
          /\ sess' = [sess EXCEPT ![s] = [sess[s] EXCEPT !.phase = "authenticating", !.seen = route]]
      BY <1>5 DEF Connect
    <2>2. sess[s].queued = <<>>
      BY <1>0, <1>5 DEF Connect, SessionTurn
    <2> QED  BY <1>0, <1>2, <2>1, <2>2 DEF Session
  <1>6. ASSUME NEW s \in Clients, NEW b \in BOOLEAN, sess' = [sess EXCEPT ![s] = Gone(b)],
               \A c \in Conns : /\ conn'[c] = conn[c] \/ conn'[c].sock = "closed"
                                /\ sess[s].holding = c => conn'[c].sock = "closed"
        PROVE  Turns'
    <2>1. /\ sess'[s].holding = None /\ sess'[s].due = 0 /\ sess'[s].queued = <<>>
          /\ \A t \in Clients : t # s => sess'[t] = sess[t]
      BY <1>0, <1>6, GoneTyped
    <2>2. \A t \in Clients : SessionTurn(t)'
      <3>1. SessionTurn(s)'
        BY <2>1 DEF SessionTurn
      <3> QED  BY <1>0, <2>1, <3>1 DEF SessionTurn
    <2>3. ASSUME NEW c \in Conns PROVE TurnOf(c)'
      <3>1. CASE conn'[c].sock = "closed"
        BY <3>1 DEF TurnOf
      <3>2. CASE conn'[c].sock # "closed"
        <4>0. /\ conn'[c] = conn[c] \/ conn'[c].sock = "closed"
              /\ sess[s].holding = c => conn'[c].sock = "closed"
          BY <1>6, Zenon
        <4>1. conn'[c] = conn[c] /\ sess[s].holding # c
          BY <4>0, <3>2
        <4>2. c # None /\ TurnOf(c) /\ conn[c].onMessage \in Clients \cup {None}
          BY <1>0
        <4>3. \A t \in Clients : sess'[t].holding = c <=> sess[t].holding = c
          BY <2>1, <4>1, <4>2
        <4>4. \A t \in Clients : sess[t].holding = c => sess'[t].due = sess[t].due
          BY <2>1, <4>1
        <4> QED  BY <4>1, <4>2, <4>3, <4>4, TurnKept
      <3> QED  BY <3>1, <3>2
    <2> QED  BY <1>1, <2>2, <2>3 DEF Turns, AnswersReachTheirSender
  <1>7. ASSUME NEW s \in Clients, AuthenticationFails(s) PROVE Turns'
    <2>1. sess[s].holding = None
      BY <1>7 DEF AuthenticationFails, OneRequest, RequestOf
    <2> QED  BY <1>0, <1>6, <1>7, <2>1 DEF AuthenticationFails
  <1>8. ASSUME NEW s \in Clients, ClientLeaves(s) PROVE Turns'
    <2> DEFINE c == sess[s].holding
    <2>1. CASE c = None
      BY <1>0, <1>6, <1>8, <2>1 DEF ClientLeaves
    <2>2. CASE c # None
      <3> DEFINE cs == [conn EXCEPT ![c].onMessage = None]
      <3>1. conn' = Destroyed(cs, {c}) /\ c \in Conns
        BY <1>0, <1>8, <2>2 DEF ClientLeaves, Session
      <3>2. \A d \in Conns : d # c => cs[d] = conn[d]
        BY <1>0
      <3> HIDE DEF cs
      <3>3. \A d \in Conns : IF d = c THEN conn'[d].sock = "closed" ELSE conn'[d] = conn[d]
        BY <3>1, <3>2 DEF Destroyed, Closed, NoConnection
      <3> QED  BY <1>0, <1>6, <1>8, <3>3 DEF ClientLeaves
    <2> QED  BY <2>1, <2>2
  <1> QED
    BY <1>3, <1>4, <1>5, <1>7, <1>8 DEF SweepIdle, RouteChanges, BackendCloses, BackendGarbles

LEMMA LoginTurns ==
    ASSUME Safe, OneRequest, OnePlace, Turns, NEW s \in Clients, Login(s)
    PROVE  Turns'
  <1>0. /\ Typed /\ sess \in [Clients -> Session] /\ conn \in [Conns -> Connection]
        /\ \A t \in Clients : sess[t] \in Session
        /\ \A t \in Clients : SessionTurn(t)
        /\ \A c \in Conns : TurnOf(c)
    BY TurnFacts DEF Turns
  <1>1. delivered' = delivered
    BY DEF Login
  <1>2. sess[s].holding = None /\ ~sess[s].acquiring /\ ~Waits(s) /\ sess[s].queued = <<>>
    <2>1. RequestOf(s) /\ sess[s].phase = "authenticating"
      BY DEF OneRequest, Login
    <2> QED  BY <1>0, <2>1 DEF RequestOf, Pending, SessionTurn
  <1>3. ASSUME NEW ss \in [Clients -> Session],
               \A t \in Clients : ss[t].holding = sess[t].holding,
               \A t \in Clients : sess[t].holding # None => ss[t].due = sess[t].due,
               \A t \in Clients :
                  /\ ss[t].due <= 1 /\ Len(ss[t].queued) <= ss[t].due
                  /\ ss[t].queued # <<>> => ss[t].acquiring /\ ss[t].phase = "active",
               ss[s].queued = <<>>,
               sess' = [ss EXCEPT ![s].phase = "login", ![s].acquiring = TRUE]
        PROVE  /\ \A t \in Clients : sess'[t].holding = sess[t].holding
               /\ \A t \in Clients : sess[t].holding # None => sess'[t].due = sess[t].due
               /\ \A t \in Clients : SessionTurn(t)'
    <2> DEFINE x == [ss[s] EXCEPT !.phase = "login", !.acquiring = TRUE]
    <2>1. x.holding = ss[s].holding /\ x.due = ss[s].due /\ x.queued = ss[s].queued /\ x.acquiring
      BY SessionMoved
    <2>2. sess' = [ss EXCEPT ![s] = x]
      BY <1>3
    <2> HIDE DEF x
    <2>3. sess'[s] = x /\ \A t \in Clients : t # s => sess'[t] = ss[t]
      BY <1>3, <2>2
    <2>4. \A t \in Clients : SessionTurn(t)'
      BY <1>3, <2>1, <2>3 DEF SessionTurn
    <2> QED  BY <1>3, <2>1, <2>3, <2>4
  <1>4. CASE /\ sess' = [sess EXCEPT ![s].phase = "active"]
             /\ UNCHANGED <<conn, idle, all, opening, waiters, cached, granted>>
    <2>1. sess' = [sess EXCEPT ![s] = [sess[s] EXCEPT !.phase = "active"]]
      BY <1>4
    <2>2. \A t \in Clients : /\ sess'[t].holding = sess[t].holding /\ sess'[t].due = sess[t].due
                             /\ sess'[t].queued = sess[t].queued
                             /\ sess'[t].acquiring = sess[t].acquiring
                             /\ sess'[t].phase \in {sess[t].phase, "active"}
      BY <1>0, <2>1 DEF Session
    <2>3. \A c \in Conns : conn[c].onMessage \in Clients \cup {None}
      BY TurnFacts
    <2> QED  BY <1>0, <1>1, <1>4, <2>2, <2>3, TurnKept DEF Turns, SessionTurn, AnswersReachTheirSender
  <1>5. CASE /\ sess' = [sess EXCEPT ![s].phase = "login", ![s].acquiring = TRUE]
             /\ Acquire(s, conn, Current)
    <2>1. /\ \A t \in Clients : sess'[t].holding = sess[t].holding
          /\ \A t \in Clients : sess[t].holding # None => sess'[t].due = sess[t].due
          /\ \A t \in Clients : SessionTurn(t)'
      BY <1>0, <1>2, <1>3, <1>5 DEF SessionTurn
    <2>2. \A c \in Conns : TurnOf(c)'
      BY <1>0, <1>5, <2>1, AcquireTurns
    <2> QED  BY <1>1, <2>1, <2>2 DEF Turns, AnswersReachTheirSender
  <1>6. ASSUME NEW ss,
               ss = [t \in Clients |-> IF \E i \in 1..Len(waiters) : waiters[i] = t
                                       THEN Rejected(sess[t]) ELSE sess[t]],
               sess' = [ss EXCEPT ![s].phase = "login", ![s].acquiring = TRUE],
               Acquire(s, Destroyed(conn, all), Emptied)
        PROVE  Turns'
    <2>1. ASSUME NEW t \in Clients
          PROVE  /\ ss[t] \in Session /\ ss[t].holding = sess[t].holding
                 /\ sess[t].holding # None => ss[t].due = sess[t].due
                 /\ ss[t].due <= 1 /\ Len(ss[t].queued) <= ss[t].due
                 /\ ss[t].queued # <<>> => ss[t].acquiring /\ ss[t].phase = "active"
      <3>1. CASE Waits(t)
        <4>1. ss[t] = Rejected(sess[t])
          BY <1>6, <3>1 DEF Waits
        <4>2. sess[t].holding = None
          BY <3>1 DEF OneRequest, RequestOf, Pending
        <4>3. sess[t] \in Session /\ sess[t].due <= sess[t].sent /\ sess[t].due <= 1
          BY TurnFacts
        <4> DEFINE r == sess[t]
        <4>4. /\ Rejected(r) \in Session /\ Rejected(r).holding \in {r.holding, None}
          BY <4>3, RejectedTyped
        <4>5. /\ Rejected(r).due <= 1 /\ Len(Rejected(r).queued) <= Rejected(r).due
              /\ Rejected(r).queued = <<>>
          BY <4>3, RejectedTurn
        <4> QED  BY <4>1, <4>2, <4>4, <4>5
      <3>2. CASE ~Waits(t)
        <4>1. ss[t] = sess[t]
          BY <1>6, <3>2 DEF Waits
        <4> QED  BY <1>0, <4>1 DEF SessionTurn
      <3> QED  BY <3>1, <3>2
    <2>2. ss \in [Clients -> Session]
      BY <1>6, <2>1
    <2>3. /\ \A t \in Clients : sess'[t].holding = sess[t].holding
          /\ \A t \in Clients : sess[t].holding # None => sess'[t].due = sess[t].due
          /\ \A t \in Clients : SessionTurn(t)'
      <3>1. \A t \in Clients : ss[t].holding = sess[t].holding
        BY <2>1
      <3>2. \A t \in Clients : sess[t].holding # None => ss[t].due = sess[t].due
        BY <2>1
      <3>3. \A t \in Clients :
               /\ ss[t].due <= 1 /\ Len(ss[t].queued) <= ss[t].due
               /\ ss[t].queued # <<>> => ss[t].acquiring /\ ss[t].phase = "active"
        BY <2>1
      <3>5. ss[s].queued = <<>>
        BY <1>2, <1>6 DEF Waits
      <3>4. sess' = [ss EXCEPT ![s].phase = "login", ![s].acquiring = TRUE]
        BY <1>6
      <3> QED  BY <1>3, <2>2, <3>1, <3>2, <3>3, <3>4, <3>5
    <2> DEFINE cs == Destroyed(conn, all)
    <2>4. cs \in [Conns -> Connection] /\ \A c \in Conns : cs[c] = conn[c] \/ cs[c].sock = "closed"
      BY <1>0, DestroyedTyped
    <2>5. Acquire(s, cs, Emptied)
      BY <1>6
    <2> HIDE DEF cs
    <2>6. \A c \in Conns : TurnOf(c)'
      BY <1>0, <2>3, <2>4, <2>5, AcquireTurns
    <2> QED  BY <1>1, <2>3, <2>6 DEF Turns, AnswersReachTheirSender
  <1> QED  BY <1>4, <1>5, <1>6 DEF Login

\* A step that rejects the acquire() of at most one session, and at most closes connections.
LEMMA RejectsTurns ==
    ASSUME Safe, OneRequest, OnePlace, Turns, NEW s, s \in Clients => sess[s].acquiring,
           sess' = [sess EXCEPT ![s] = Rejected(@)],
           \A c \in Conns : conn'[c] = conn[c] \/ conn'[c].sock = "closed",
           delivered' = delivered
    PROVE  Turns'
  <1>1. ASSUME NEW t \in Clients
        PROVE  /\ SessionTurn(t)'
               /\ sess'[t].holding = sess[t].holding
               /\ sess[t].holding # None => sess'[t].due = sess[t].due
    <2>1. /\ sess[t] \in Session /\ sess[t].due <= sess[t].sent /\ sess[t].due <= 1
          /\ (sess[t].acquiring => sess[t].holding = None)
          /\ sess \in [Clients -> Session]
      BY TurnFacts
    <2>2. CASE t = s
      <3> DEFINE r == sess[t]
      <3>1. sess'[t] = Rejected(r) /\ sess[t].holding = None
        BY <2>1, <2>2
      <3>2. Rejected(r).holding \in {r.holding, None}
        BY <2>1, RejectedTyped
      <3>3. /\ Rejected(r).due <= 1 /\ Len(Rejected(r).queued) <= Rejected(r).due
            /\ Rejected(r).queued = <<>>
        BY <2>1, RejectedTurn
      <3> QED  BY <3>1, <3>2, <3>3 DEF SessionTurn
    <2>3. CASE t # s
      <3>1. sess'[t] = sess[t] /\ SessionTurn(t)
        BY <2>1, <2>3 DEF Turns
      <3> QED  BY <3>1 DEF SessionTurn
    <2> QED  BY <2>2, <2>3
  <1>2. \A c \in Conns : TurnOf(c) /\ c # None /\ conn[c].onMessage \in Clients \cup {None}
    BY TurnFacts
  <1>3. ASSUME NEW c \in Conns PROVE TurnOf(c)'
    <2>1. conn'[c] = conn[c] \/ conn'[c].sock \notin {"opening", "open"}
      OBVIOUS
    <2>2. \A t \in Clients : sess'[t].holding = c <=> sess[t].holding = c
      BY <1>1
    <2>3. \A t \in Clients : sess[t].holding = c => sess'[t].due = sess[t].due
      BY <1>1, <1>2
    <2> QED  BY <1>2, <2>1, <2>2, <2>3, TurnKept
  <1> QED  BY <1>1, <1>3 DEF Turns, AnswersReachTheirSender

LEMMA WaitTimesOutTurns ==
    ASSUME Safe, OneRequest, OnePlace, Turns, NEW s \in Clients, WaitTimesOut(s)
    PROVE  Turns'
  <1>1. Waits(s) /\ sess' = [sess EXCEPT ![s] = Rejected(@)] /\ UNCHANGED <<conn, delivered>>
    BY DEF WaitTimesOut, Waits
  <1>2. sess[s].acquiring
    BY <1>1 DEF OneRequest, RequestOf, Pending
  <1> QED  BY <1>1, <1>2, RejectsTurns

LEMMA OpenFailsTurns ==
    ASSUME Safe, OneRequest, OnePlace, Turns, NEW c \in Conns, OpenFails(c)
    PROVE  Turns'
  <1> DEFINE s == conn[c].opener
  <1>1. /\ IsOpening(c) /\ conn' = Destroyed(conn, {c})
        /\ sess' = [sess EXCEPT ![s] = Rejected(@)] /\ delivered' = delivered
    BY DEF OpenFails, IsOpening
  <1>2. \A d \in Conns : conn'[d] = conn[d] \/ conn'[d].sock = "closed"
    BY <1>1, TurnFacts, DestroyedTyped
  <1>3. s \in Clients => sess[s].acquiring
    BY <1>1 DEF OneRequest, RequestOf, Pending, OpensFor
  <1> HIDE DEF s
  <1> QED  BY <1>1, <1>2, <1>3, RejectsTurns

LEMMA OpenSucceedsTurns ==
    ASSUME Safe, OneRequest, OnePlace, Turns, NEW c \in Conns, OpenSucceeds(c)
    PROVE  Turns'
  <1> DEFINE x == [conn[c] EXCEPT !.sock = "open", !.opener = None]
  <1>1. IsOpening(c) /\ conn' = [conn EXCEPT ![c] = x] /\ UNCHANGED <<sess, delivered>>
    BY DEF OpenSucceeds, IsOpening
  <1>2. /\ conn \in [Conns -> Connection] /\ conn[c] \in Connection /\ conn[c].onMessage = None
        /\ \A d \in Conns : TurnOf(d) /\ d # None /\ conn[d].onMessage \in Clients \cup {None}
    BY <1>1, TurnFacts
  <1>3. x.onMessage = conn[c].onMessage /\ x.inbox = conn[c].inbox /\ x.tx = conn[c].tx
    BY <1>2 DEF Connection
  <1> HIDE DEF x
  <1>4. conn'[c] = x /\ \A d \in Conns : d # c => conn'[d] = conn[d]
    BY <1>1, <1>2
  <1>5. TurnOf(c)'
    BY <1>1, <1>2, <1>3, <1>4 DEF TurnOf, IsOpening
  <1>6. \A d \in Conns : d # c => TurnOf(d)'
    BY <1>1, <1>2, <1>4, TurnKept
  <1> QED  BY <1>1, <1>5, <1>6 DEF Turns, SessionTurn, AnswersReachTheirSender

LEMMA ClientSendsTurns ==
    ASSUME ~Pipelining, Safe, OneRequest, OnePlace, Turns,
           NEW s \in Clients, NEW opens \in BOOLEAN, ClientSends(s, opens)
    PROVE  Turns'
  <1> DEFINE q == [from |-> s, opens |-> opens]
  <1>0. /\ Typed /\ BoundInv /\ sess \in [Clients -> Session] /\ conn \in [Conns -> Connection]
        /\ sess[s] \in Session /\ sess[s].queued \in Seq(BOOLEAN) /\ sess[s].acquiring \in BOOLEAN
        /\ (sess[s].acquiring => sess[s].holding = None)
        /\ \A d \in Conns : TurnOf(d) /\ d # None /\ conn[d].onMessage \in Clients \cup {None}
        /\ \A t \in Clients : SessionTurn(t)
    BY TurnFacts DEF Turns
  <1>1. sess[s].due = 0 /\ delivered' = delivered
    BY DEF ClientSends
  <1>2. /\ sess'[s].due = 1 /\ sess'[s].holding = sess[s].holding /\ sess'[s].phase = "active"
        /\ \A t \in Clients : t # s => sess'[t] = sess[t]
    <2>1. /\ sess'[s].due = sess[s].due + 1 /\ sess'[s].holding = sess[s].holding
          /\ sess'[s].phase = "active" /\ \A t \in Clients : t # s => sess'[t] = sess[t]
      BY SendsEffect
    <2> QED  BY <1>1, <2>1
  <1>3. Len(sess[s].queued) = 0 /\ sess[s].queued = <<>>
    <2>1. Len(sess[s].queued) <= 0
      BY <1>0, <1>1 DEF SessionTurn
    <2> QED  BY <1>0, <2>1, EmptySeq, LenProperties
  <1>4. \A t \in Clients : sess'[t].holding = sess[t].holding
    BY <1>2
  <1>5. \A t \in Clients : t # s => SessionTurn(t)'
    BY <1>0, <1>2 DEF SessionTurn
  <1>6. ASSUME NEW c \in Conns, c = sess[s].holding, sess'[s].queued = sess[s].queued,
               conn' = Sent(conn, c, <<q>>)
        PROVE  Turns'
    <2>1. c \in Conns
      OBVIOUS
    <2>2. <<q>> \in Seq(Query) /\ Len(<<q>>) = 1 /\ <<q>>[1] = q /\ q.from = s
      <3>1. q \in Query
        BY DEF Query
      <3> QED  BY <3>1
    <2> DEFINE qs == <<q>>
    <2>3. /\ \A d \in Conns : d # c => conn'[d] = conn[d]
          /\ conn'[c].sock = conn[c].sock /\ conn'[c].onMessage = conn[c].onMessage
          /\ conn'[c].tx = conn[c].tx
          /\ conn[c].sock # "closed" => conn'[c].inbox = conn[c].inbox \o <<q>>
      <3>1. qs \in Seq(Query) /\ conn' = Sent(conn, c, qs)
        BY <1>6, <2>2
      <3> HIDE DEF qs
      <3>2. \A d \in Conns : d # c => Sent(conn, c, qs)[d] = conn[d]
        BY <1>0, <2>1, <3>1, SentTyped
      <3>3. /\ Sent(conn, c, qs)[c].sock = conn[c].sock /\ Sent(conn, c, qs)[c].tx = conn[c].tx
            /\ Sent(conn, c, qs)[c].onMessage = conn[c].onMessage
        BY <1>0, <2>1, <3>1, SentTyped
      <3>4. conn[c].sock # "closed" => Sent(conn, c, qs)[c].inbox = conn[c].inbox \o qs
        BY <1>0, <2>1, <3>1, SentTyped
      <3> QED  BY <3>1, <3>2, <3>3, <3>4 DEF qs
    <2>4. SessionTurn(s)'
      BY <1>2, <1>3, <1>6 DEF SessionTurn
    <2>5. TurnOf(c)'
      <3>1. CASE conn[c].sock \in {"opening", "open"}
        <4>1. conn[c].onMessage = s
          BY <1>0, <1>6, <2>1, <3>1, TurnFacts
        <4>2. s # None /\ conn[c].tx \in {None, s} /\ Len(conn[c].inbox) <= 0
          BY <1>1, <3>1, <4>1, <1>0, <2>1, NoneAssumption DEF TurnOf
        <4>3. conn[c].inbox \in Seq(Query)
          BY <2>1, TurnFacts
        <4>4. conn[c].inbox = <<>>
          BY <4>2, <4>3, EmptySeq, LenProperties
        <4>5. conn'[c].inbox = <<q>>
          BY <2>2, <2>3, <3>1, <4>4
        <4>6. Len(conn'[c].inbox) = 1 /\ \A i \in 1..Len(conn'[c].inbox) : conn'[c].inbox[i].from = s
          BY <2>2, <4>5
        <4>7. /\ conn'[c].onMessage = s /\ s # None
              /\ sess'[s].holding = c /\ conn'[c].tx \in {None, s}
              /\ Len(conn'[c].inbox) <= sess'[s].due
          <5>1. sess'[s].holding = c /\ sess'[s].due = 1
            BY <1>2, <1>6
          <5>2. conn'[c].onMessage = s /\ s # None /\ conn'[c].tx \in {None, s}
            BY ONLY <2>3, <4>1, <4>2
          <5>3. Len(conn'[c].inbox) <= sess'[s].due
            BY ONLY <4>6, <5>1
          <5> QED  BY ONLY <5>1, <5>2, <5>3
        <4>8. /\ conn'[c].onMessage # None /\ sess'[conn'[c].onMessage].holding = c
              /\ conn'[c].tx \in {None, conn'[c].onMessage}
              /\ Len(conn'[c].inbox) <= sess'[conn'[c].onMessage].due
              /\ \A i \in 1..Len(conn'[c].inbox) : conn'[c].inbox[i].from = conn'[c].onMessage
          BY ONLY <4>6, <4>7
        <4> QED  BY ONLY <4>8, Zenon DEF TurnOf
      <3>2. CASE conn[c].sock \notin {"opening", "open"}
        BY <2>3, <3>2 DEF TurnOf
      <3> QED  BY <3>1, <3>2
    <2>6. ASSUME NEW d \in Conns, d # c PROVE TurnOf(d)'
      <3>1. conn'[d] = conn[d]
        BY <2>3, <2>6
      <3>2. \A t \in Clients : sess[t].holding = d => sess'[t].due = sess[t].due
        BY <1>2, <1>6, <2>6
      <3> QED  BY <1>0, <1>4, <3>1, <3>2, TurnKept
    <2>7. \A d \in Conns : TurnOf(d)'
      BY <2>5, <2>6
    <2> QED  BY <1>1, <1>5, <2>4, <2>7 DEF Turns, AnswersReachTheirSender
  <1>7. CASE /\ sess[s].holding = None /\ sess'[s].queued = Append(sess[s].queued, opens) /\ sess'[s].acquiring
             /\ conn' = conn \/ Acquire(s, conn, Current)
    <2>1. Len(sess'[s].queued) = 1
      BY <1>0, <1>3, <1>7, AppendProperties
    <2>2. SessionTurn(s)'
      BY <1>2, <1>7, <2>1 DEF SessionTurn
    <2>3. \A t \in Clients : sess[t].holding # None => sess'[t].due = sess[t].due
      BY <1>2, <1>7
    <2>4. CASE conn' = conn
      <3>1. ASSUME NEW d \in Conns PROVE TurnOf(d)'
        <4>1. \A t \in Clients : sess[t].holding = d => sess'[t].due = sess[t].due
          BY <1>0, <2>3
        <4>2. conn'[d] = conn[d]
          BY <2>4
        <4> QED  BY <1>0, <1>4, <4>1, <4>2, TurnKept
      <3> QED  BY <1>1, <1>5, <2>2, <3>1 DEF Turns, AnswersReachTheirSender
    <2>5. CASE Acquire(s, conn, Current)
      <3>1. \A d \in Conns : TurnOf(d)'
        BY <1>0, <1>4, <2>3, <2>5, AcquireTurns
      <3> QED  BY <1>1, <1>5, <2>2, <3>1 DEF Turns, AnswersReachTheirSender
    <2> QED  BY <1>7, <2>4, <2>5
  <1>8. sess[s].holding \in Conns \cup {None}
    BY <1>0 DEF Session
  <1> QED  BY <1>6, <1>7, <1>8, SendsEffect

LEMMA GrantedTurns ==
    ASSUME ~ResetQuery, Safe, OneRequest, OnePlace, Turns, NEW s \in Clients, Granted(s)
    PROVE  Turns'
  <1> DEFINE gr == [granted EXCEPT ![s] = None]
  <1>c. PICK c \in Conns : c = granted[s]
    BY TurnFacts DEF Granted, Typed
  <1>0. /\ Typed /\ BoundInv /\ sess \in [Clients -> Session] /\ conn \in [Conns -> Connection]
        /\ sess[s] \in Session /\ sess[s].queued \in Seq(BOOLEAN)
        /\ \A d \in Conns : TurnOf(d) /\ d # None /\ conn[d].onMessage \in Clients \cup {None}
        /\ \A t \in Clients : SessionTurn(t)
    BY TurnFacts DEF Turns
  <1>1. /\ c # None /\ sess[s].holding = None /\ delivered' = delivered
        /\ \A t \in Clients : sess[t].holding # c
    <2>1. c # None /\ delivered' = delivered
      BY <1>0 DEF Granted
    <2>2. sess[s].holding = None
      BY <1>c, <2>1 DEF OneRequest, RequestOf, Pending
    <2> QED  BY <1>c, <2>1, <2>2 DEF OnePlace, PlaceOf, Uses
  <1>2. /\ conn[c].sock # "opening"
        /\ conn[c].sock = "open" => /\ conn[c].onMessage = None /\ conn[c].inbox = <<>>
                                    /\ conn[c].tx = None
    <2>1. ~IsOpening(c)
      BY <1>0, <1>c DEF BoundInv, Referenced
    <2>2. conn[c].sock = "open" => conn[c].onMessage = None
      BY <1>0, <1>1 DEF TurnOf
    <2>3. TurnOf(c)
      BY <1>0
    <2> QED  BY <2>1, <2>2, <2>3 DEF TurnOf, IsOpening
  <1>3. \A t \in Clients : t # s => sess'[t] = sess[t] /\ SessionTurn(t)'
    <2>1. \A t \in Clients : t # s => sess'[t] = sess[t]
      BY <1>0 DEF Granted
    <2> QED  BY <1>0, <2>1 DEF SessionTurn
  <1>4. ASSUME sess'[s].holding = None, sess'[s].due = sess[s].due,
               SessionTurn(s)', Release(c, conn, gr)
        PROVE  Turns'
    <2>1. \A t \in Clients : sess'[t].holding = sess[t].holding /\ sess'[t].due = sess[t].due
      BY <1>1, <1>3, <1>4
    <2>2. \A d \in Conns : TurnOf(d)'
      <3> HIDE DEF gr
      <3>1. conn[c].sock = "open" => conn[c].inbox = <<>> /\ conn[c].tx = None
        BY <1>2
      <3>2. \A t \in Clients : sess'[t].holding # c
        BY <1>1, <2>1
      <3> QED  BY <1>0, <1>2, <1>4, <2>1, <3>1, <3>2, ReleaseTurns
    <2> QED  BY <1>1, <1>3, <1>4, <2>2 DEF Turns, AnswersReachTheirSender
  <1>5. CASE /\ \/ /\ sess[s].phase = "login"
                   /\ sess' = [sess EXCEPT ![s].phase = "active", ![s].acquiring = FALSE]
                \/ /\ sess[s].phase = "closed"
                   /\ sess' = [sess EXCEPT ![s].acquiring = FALSE]
             /\ Release(c, conn, gr)
    <2>1. /\ sess'[s].holding = sess[s].holding /\ sess'[s].due = sess[s].due
          /\ sess'[s].queued = sess[s].queued
      BY <1>0, <1>5 DEF Session
    <2>2. sess[s].queued = <<>> /\ sess[s].due <= 1 /\ Len(sess[s].queued) <= sess[s].due
      BY <1>0, <1>5 DEF SessionTurn
    <2>3. SessionTurn(s)'
      BY <2>1, <2>2 DEF SessionTurn
    <2> QED  BY <1>1, <1>4, <1>5, <2>1, <2>3
  <1> DEFINE qs == [i \in DOMAIN sess[s].queued |-> [from |-> s, opens |-> sess[s].queued[i]]]
  <1>6. CASE /\ sess' = [sess EXCEPT ![s].holding = c, ![s].queued = <<>>, ![s].acquiring = FALSE]
             /\ conn' = Sent([conn EXCEPT ![c].onMessage = s], c, qs)
    <2>1. /\ sess'[s].holding = c /\ sess'[s].due = sess[s].due /\ sess'[s].queued = <<>>
      BY <1>0, <1>6 DEF Session
    <2>2. sess[s].due <= 1 /\ Len(sess[s].queued) <= sess[s].due
      BY <1>0 DEF SessionTurn
    <2>3. /\ qs \in Seq(Query) /\ Len(qs) = Len(sess[s].queued) /\ Len(qs) \in Nat
          /\ \A i \in 1..Len(qs) : qs[i].from = s
      <3>1. Len(sess[s].queued) \in Nat /\ DOMAIN sess[s].queued = 1..Len(sess[s].queued)
            /\ \A i \in 1..Len(sess[s].queued) : sess[s].queued[i] \in BOOLEAN
        BY <1>0, LenProperties, ElementOfSeq
      <3>2. \A i \in 1..Len(sess[s].queued) :
               qs[i] = [from |-> s, opens |-> sess[s].queued[i]] /\ qs[i] \in Query /\ qs[i].from = s
        BY <3>1 DEF Query
      <3>3. qs \in [1..Len(sess[s].queued) -> Query]
        BY <3>1, <3>2
      <3> HIDE DEF qs
      <3>4. qs \in Seq(Query)
        BY <3>1, <3>3, SeqDef
      <3>5. DOMAIN qs = 1..Len(sess[s].queued)
        BY <3>3
      <3>6. Len(qs) = Len(sess[s].queued)
        BY <3>1, <3>4, <3>5, LenProperties
      <3> QED  BY <3>1, <3>2, <3>4, <3>6
    <2> DEFINE r == [conn[c] EXCEPT !.onMessage = s]
               cs == [conn EXCEPT ![c] = r]
    <2>4. /\ r \in Connection /\ r.sock = conn[c].sock /\ r.onMessage = s
          /\ r.inbox = conn[c].inbox /\ r.tx = conn[c].tx
      <3>1. conn[c] \in Connection
        BY <1>0
      <3> QED  BY <3>1 DEF Connection
    <2>5. conn' = Sent(cs, c, qs)
      BY <1>6
    <2> HIDE DEF r, qs
    <2>6. cs \in [Conns -> Connection] /\ cs[c] = r /\ \A d \in Conns : d # c => cs[d] = conn[d]
      BY <1>0, <2>4
    <2> HIDE DEF cs
    <2>7. \A d \in Conns : d # c => conn'[d] = cs[d]
      BY <2>3, <2>5, <2>6, SentTyped
    <2>8. conn'[c].sock = cs[c].sock /\ conn'[c].onMessage = cs[c].onMessage /\ conn'[c].tx = cs[c].tx
      BY <2>3, <2>5, <2>6, SentTyped
    <2>9. cs[c].sock # "closed" => conn'[c].inbox = cs[c].inbox \o qs
      BY <2>3, <2>5, <2>6, SentTyped
    <2>10. SessionTurn(s)'
      <3>1. Len(<<>>) = 0 /\ sess[s].due \in Nat
        BY TurnFacts
      <3> QED  BY <2>1, <2>2, <3>1 DEF SessionTurn
    <2>11. TurnOf(c)'
      <3>1. CASE conn[c].sock = "open"
        <4>1. conn'[c].inbox = <<>> \o qs
          BY <1>2, <2>4, <2>6, <2>9, <3>1
        <4>2. conn'[c].inbox = qs
          BY <2>3, <4>1
        <4>3. conn'[c].onMessage = s /\ conn'[c].tx = None /\ s # None
          BY <1>2, <2>4, <2>6, <2>8, <3>1, NoneAssumption
        <4> QED  BY <2>1, <2>2, <2>3, <4>2, <4>3 DEF TurnOf
      <3>2. CASE conn[c].sock # "open"
        BY <1>2, <2>4, <2>6, <2>8, <3>2 DEF TurnOf
      <3> QED  BY <3>1, <3>2
    <2>12. ASSUME NEW d \in Conns, d # c PROVE TurnOf(d)'
      <3>1. conn'[d] = conn[d]
        BY <2>6, <2>7, <2>12
      <3>2. \A t \in Clients : sess'[t].holding = d <=> sess[t].holding = d
        BY <1>0, <1>1, <1>3, <2>1, <2>12
      <3>3. \A t \in Clients : sess[t].holding = d => sess'[t].due = sess[t].due
        BY <1>3, <2>1
      <3> QED  BY <1>0, <3>1, <3>2, <3>3, TurnKept
    <2>13. \A d \in Conns : TurnOf(d)'
      BY <2>11, <2>12
    <2> QED  BY <1>1, <1>3, <2>10, <2>13 DEF Turns, AnswersReachTheirSender
  <1> QED  BY <1>c, <1>5, <1>6 DEF Granted

LEMMA AnswerTurns ==
    ASSUME ~ResetQuery, Safe, OneRequest, OnePlace, Turns, NEW c \in Conns, Answer(c)
    PROVE  Turns'
  <1> DEFINE cs == Answered(c)
  <1>0. /\ Typed /\ BoundInv
        /\ \A d \in Conns : TurnOf(d) /\ d # None /\ conn[d].onMessage \in Clients \cup {None}
        /\ \A t \in Clients : SessionTurn(t)
    BY TurnFacts DEF Turns
  <1>1. /\ conn[c].sock = "open" /\ conn[c].inbox # <<>> /\ conn[c].inbox \in Seq(Query)
        /\ cs \in [Conns -> Connection]
        /\ \A d \in Conns : d # c => cs[d] = conn[d]
        /\ cs[c].sock = "open" /\ cs[c].onMessage = conn[c].onMessage
        /\ cs[c].inbox = Tail(conn[c].inbox) /\ cs[c].tx = AnswerTx(c)
    BY AnswerEffect
  <1>2. TurnOf(c)
    BY <1>0
  <1>3. conn[c].onMessage # None
    BY <1>1, <1>2 DEF TurnOf
  <1> HIDE DEF cs
  <1>4. PICK s \in Clients :
          /\ conn[c].onMessage = s
          /\ delivered' = delivered \cup {<<s, Head(conn[c].inbox).from>>}
          /\ \A t \in Clients : t # s => sess'[t] = sess[t]
          /\ sess'[s].due = IF sess[s].due = 0 THEN 0 ELSE sess[s].due - 1
          /\ sess'[s].acquiring = sess[s].acquiring /\ sess'[s].phase = sess[s].phase
          /\ sess'[s].queued = sess[s].queued
          /\ \/ /\ AnswerTx(c) = None /\ sess'[s].holding = None
                /\ Release(c, cs, granted)
             \/ /\ AnswerTx(c) # None /\ sess'[s].holding = sess[s].holding
                /\ conn' = cs
                /\ UNCHANGED <<idle, all, waiters, granted>>
    BY <1>3, AnswerEffect DEF cs
  <1>5. /\ sess[s].holding = c /\ Len(conn[c].inbox) <= sess[s].due
        /\ \A i \in 1..Len(conn[c].inbox) : conn[c].inbox[i].from = s
        /\ s # None
    BY <1>1, <1>2, <1>3, <1>4 DEF TurnOf
  <1>6. sess[s].due = 1 /\ Len(conn[c].inbox) = 1
    <2>1. Len(conn[c].inbox) \in Nat /\ Len(conn[c].inbox) # 0
      BY <1>1, LenProperties, EmptySeq
    <2>2. sess[s].due \in Nat /\ sess[s].due <= 1
      BY TurnFacts
    <2>3. Len(conn[c].inbox) <= sess[s].due
      BY <1>5
    <2>4. PICK n \in Nat : n = Len(conn[c].inbox)
      BY <2>1
    <2>5. PICK m \in Nat : m = sess[s].due
      BY <2>2
    <2>6. n # 0 /\ m <= 1 /\ n <= m
      BY <2>1, <2>2, <2>3, <2>4, <2>5
    <2>7. n = 1 /\ m = 1
      BY <2>6
    <2> QED  BY <2>4, <2>5, <2>7
  <1>7. /\ Tail(conn[c].inbox) = <<>> /\ Head(conn[c].inbox).from = s
    <2>1. Head(conn[c].inbox) = conn[c].inbox[1]
      BY <1>1, HeadTailProperties
    <2>2. Tail(conn[c].inbox) \in Seq(Query) /\ Len(Tail(conn[c].inbox)) = 0
      BY <1>1, <1>6, HeadTailProperties
    <2>3. Tail(conn[c].inbox) = <<>>
      BY <2>2, EmptySeq
    <2>4. 1 \in 1..Len(conn[c].inbox)
      BY <1>6
    <2>5. conn[c].inbox[1].from = s
      BY <1>5, <2>4
    <2> QED  BY <2>1, <2>3, <2>5
  <1>8. sess[s].queued = <<>> /\ Len(<<>>) = 0
    <2>1. sess[s].holding # None
      BY <1>0, <1>5
    <2>2. ~sess[s].acquiring
      BY <2>1, TurnFacts
    <2> QED  BY <1>0, <2>2 DEF SessionTurn
  <1>9. \A t \in Clients : SessionTurn(t)'
    <2>1. SessionTurn(s)'
      BY <1>4, <1>6, <1>8 DEF SessionTurn
    <2>2. \A t \in Clients : t # s => SessionTurn(t)'
      BY <1>0, <1>4 DEF SessionTurn
    <2> QED  BY <2>1, <2>2
  <1>10. AnswersReachTheirSender'
    BY <1>4, <1>7 DEF Turns, AnswersReachTheirSender
  <1>11. \A t \in Clients : t # s => sess[t].holding # c
    BY <1>5 DEF OnePlace, PlaceOf, Uses
  <1>12. CASE /\ AnswerTx(c) = None /\ sess'[s].holding = None /\ Release(c, cs, granted)
    <2>1. cs[c].sock = "open" => cs[c].inbox = <<>> /\ cs[c].tx = None
      BY <1>1, <1>7, <1>12
    <2>2. \A t \in Clients : sess'[t].holding # c
      BY <1>0, <1>4, <1>11, <1>12
    <2>3. \A t \in Clients, d \in Conns : d # c => (sess'[t].holding = d <=> sess[t].holding = d)
      BY <1>0, <1>4, <1>5, <1>12
    <2>4. \A t \in Clients : sess[t].holding # None /\ sess[t].holding # c => sess'[t].due = sess[t].due
      BY <1>4, <1>5
    <2>5. \A d \in Conns : TurnOf(d)'
      BY <1>0, <1>1, <1>12, <2>1, <2>2, <2>3, <2>4, ReleaseTurns
    <2> QED  BY <1>9, <1>10, <2>5 DEF Turns
  <1>13. CASE /\ AnswerTx(c) # None /\ sess'[s].holding = sess[s].holding /\ conn' = cs
    <2>1. AnswerTx(c) = s
      BY <1>7, <1>13 DEF AnswerTx
    <2>2. TurnOf(c)'
      <3>1. /\ conn'[c].sock = "open" /\ conn'[c].onMessage = s
            /\ conn'[c].inbox = <<>> /\ conn'[c].tx = s
        BY <1>1, <1>4, <1>7, <1>13, <2>1
      <3>2. sess'[s].holding = c /\ sess'[s].due = 0 /\ Len(<<>>) = 0
        BY <1>4, <1>5, <1>6, <1>8, <1>13
      <3>3. s # None
        BY <1>5
      <3>4. \A i \in 1..Len(<<>>) : FALSE
        BY <3>2
      <3> QED  BY <3>1, <3>2, <3>3, <3>4 DEF TurnOf
    <2>3. ASSUME NEW d \in Conns, d # c PROVE TurnOf(d)'
      <3>1. conn'[d] = conn[d]
        BY <1>1, <1>13, <2>3
      <3>2. \A t \in Clients : sess'[t].holding = d <=> sess[t].holding = d
        BY <1>4, <1>13
      <3>3. \A t \in Clients : sess[t].holding = d => sess'[t].due = sess[t].due
        BY <1>4, <1>5, <2>3
      <3> QED  BY <1>0, <3>1, <3>2, <3>3, TurnKept
    <2>4. \A d \in Conns : TurnOf(d)'
      BY <2>2, <2>3
    <2> QED  BY <1>9, <1>10, <2>4 DEF Turns
  <1> QED  BY <1>4, <1>12, <1>13

LEMMA PlacesInit == Init => OnePlace
  BY NoneAssumption DEF Init, OnePlace, PlaceOf, Uses, NoSession

LEMMA TurnsInit == Init => Turns
  <1> SUFFICES ASSUME Init PROVE Turns
    OBVIOUS
  <1>1. \A c \in Conns : conn[c].sock = "unused"
    BY DEF Init, NoConnection
  <1>2. \A s \in Clients : sess[s].due = 0 /\ sess[s].queued = <<>>
    BY DEF Init, NoSession
  <1>3. Len(<<>>) = 0
    OBVIOUS
  <1>4. \A c \in Conns : TurnOf(c)
    BY <1>1 DEF TurnOf
  <1>5. \A s \in Clients : SessionTurn(s)
    BY <1>2, <1>3 DEF SessionTurn
  <1>6. AnswersReachTheirSender
    BY DEF Init, AnswersReachTheirSender
  <1> QED  BY <1>4, <1>5, <1>6 DEF Turns

LEMMA TurnsNext ==
    ASSUME ~Pipelining, ~ResetQuery
    PROVE  Safe /\ OneRequest /\ OnePlace /\ Turns /\ [Next]_vars => Turns'
  <1> SUFFICES ASSUME Safe, OneRequest, OnePlace, Turns, [Next]_vars PROVE Turns'
    OBVIOUS
  <1>1. CASE UNCHANGED vars
    BY <1>1 DEF vars, Turns, TurnOf, SessionTurn, AnswersReachTheirSender
  <1>2. ASSUME NEW s \in Clients, Connect(s) \/ AuthenticationFails(s) \/ ClientLeaves(s)
        PROVE  Turns'
    BY <1>2, QuietStepsTurns
  <1>3. ASSUME NEW s \in Clients, Login(s) \/ Granted(s) \/ WaitTimesOut(s) PROVE Turns'
    BY <1>3, LoginTurns, GrantedTurns, WaitTimesOutTurns
  <1>4. ASSUME NEW s \in Clients, NEW opens \in BOOLEAN, ClientSends(s, opens) PROVE Turns'
    BY <1>4, ClientSendsTurns
  <1>5. ASSUME NEW c \in Conns, OpenSucceeds(c) \/ OpenFails(c) \/ Answer(c) PROVE Turns'
    BY <1>5, OpenSucceedsTurns, OpenFailsTurns, AnswerTurns
  <1>6. ASSUME \/ SweepIdle \/ RouteChanges
               \/ \E c \in Conns : BackendCloses(c) \/ BackendGarbles(c)
        PROVE  Turns'
    BY <1>6, QuietStepsTurns
  <1> QED  BY <1>1, <1>2, <1>3, <1>4, <1>5, <1>6 DEF Next

LEMMA TurnsAlways ==
    ASSUME ~Pipelining, ~ResetQuery
    PROVE  Spec => [](Safe /\ OneRequest /\ OnePlace /\ Turns)
  <1>1. Init => Safe /\ OneRequest /\ OnePlace /\ Turns
    BY SafeInit, RequestsInit, PlacesInit, TurnsInit
  <1>2. Safe /\ OneRequest /\ OnePlace /\ Turns /\ [Next]_vars
        => (Safe /\ OneRequest /\ OnePlace /\ Turns)'
    BY SafeNext, RequestsNext, PlacesNext, TurnsNext
  <1> QED  BY <1>1, <1>2, PTL DEF Spec

\* Every answer is written to the client that asked, when clients wait for an answer before
\* they ask again and no reset query is configured: server connections break, waits time
\* out, clients leave and routes change all the same.
THEOREM AnswersStay ==
    ASSUME ~Pipelining, ~ResetQuery
    PROVE  Spec => []AnswersReachTheirSender
  <1>1. Turns => AnswersReachTheirSender
    BY DEF Turns
  <1> QED  BY <1>1, TurnsAlways, PTL

\* Under the same conditions, a transaction is in the hands of the client that opened it
\* until it ends, and nobody else's query is sent on its connection.
THEOREM TransactionsStay ==
    ASSUME ~Pipelining, ~ResetQuery
    PROVE  Spec => []TransactionsAreExclusive
  <1>1. Turns => TransactionsAreExclusive
    <2> SUFFICES ASSUME Turns, NEW c \in Conns, conn[c].sock = "open", conn[c].tx # None
                 PROVE  /\ sess[conn[c].tx].holding = c
                        /\ \A i \in 1..Len(conn[c].inbox) : conn[c].inbox[i].from = conn[c].tx
      BY DEF TransactionsAreExclusive
    <2>1. TurnOf(c)
      BY DEF Turns
    <2>2. conn[c].onMessage # None
      BY <2>1 DEF TurnOf
    <2> QED  BY <2>1, <2>2 DEF TurnOf
  <1> QED  BY <1>1, TurnsAlways, PTL
=============================================================================
