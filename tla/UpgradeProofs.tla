--------------------------- MODULE UpgradeProofs ---------------------------
(***************************************************************************)
(* Proofs about Upgrade, for a container runtime that removes a container  *)
(* when it is told to: a running project is on a directory that holds all  *)
(* that was recorded of it, the way back is kept, recovery points are real *)
(* and outcomes are recorded truly, whatever else fails and whenever the   *)
(* control plane dies.                                                     *)
(***************************************************************************)
EXTENDS Upgrade, FiniteSetTheorems, WellFoundedInduction, TLAPS

\* The version whose directory holds the project's data, as the table of upgrades has it.
Tip == IF Latest = 0 THEN row.major
       ELSE IF upg[Latest].state = "succeeded" THEN upg[Latest].to ELSE upg[Latest].from

\* Upgrades are made one after the other, each to a later version.
Chain ==
    /\ Latest \in 0..MaxUpgrades
    /\ \A u \in Upgrades : upg[u].state # "absent" <=> u <= Latest
    /\ \A u \in Upgrades : u <= Latest => upg[u].from < upg[u].to
    /\ \A u, v \in Upgrades : u < v /\ v <= Latest =>
          /\ upg[u].state # "running" /\ upg[u].from <= upg[v].from
          /\ upg[u].state = "succeeded" => upg[u].to <= upg[v].from

\* Outside an upgrade the row names that version, and a container of that version.
Serving ==
    /\ row.state # "upgrading" => row.major = Tip
    /\ row.state = "upgrading" => Latest > 0 /\ upg[Latest].state = "running"
    /\ row.cid # 0
    /\ row.state # "upgrading" /\ row.cid = cont.id => cont.major = row.major
    /\ row.state = "failed" => row.cid # cont.id

Whole == dirs[Tip].made /\ \A u \in Upgrades : upg[u].before \subseteq dirs[Tip].holds

Restorable == ~repo.awaitingFirstBackup /\ repo.version # 0 =>
                 repo.version = Tip /\ Tip \in repo.backups

Queue == \A u \in Upgrades : job[u] = "queued" =>
            u = Latest /\ upg[u].state = "running" /\ row.state \in {"running", "stopped"}

\* Where the handler is.
At(S) == Forward /\ run.at \in S
Back(S) == run.phase = "rollback" /\ run.at \in S

\* It owns the last upgrade, which is running, until that is recorded.
Owner ==
    /\ run.phase = "off" <=> run.of = 0
    /\ IF run.of = 0 THEN run = NoRun ELSE run.cid # 0
    /\ run.phase = "forward" => run.at \in 1..18
    /\ run.phase = "rollback" => run.at \in 1..6
    /\ At(1..17) \/ Back(1..6) =>
          run.of = Latest /\ upg[run.of].state = "running" /\ job[run.of] # "queued"
    /\ At(1..17) \/ Back(1..4) => row.state = "upgrading"
    /\ Back(5..6) => row.state \in {"running", "stopped"}

\* The version and the container it works on.
Container ==
    /\ At(1..6) => row.major = upg[run.of].from
    /\ At(7..17) => row.major = upg[run.of].to
    /\ Back(3..6) => row.major = upg[run.of].from
    /\ At(1..5) \/ At(9..14) \/ Back(1..2) => run.cid = row.cid
    /\ At(1..2) /\ cont.id = row.cid => cont.major = upg[run.of].from
    /\ At(3..5) => cont.id = run.cid /\ cont.major = upg[run.of].from
    /\ At({6, 7, 15}) => cont.id = 0
    /\ At(8..14) \/ At(16..17) => cont.id = run.cid /\ cont.major = upg[run.of].to
    /\ Back(3..4) => cont.id # row.cid
    /\ Back({4}) => cont.id = run.cid
    /\ Back(4..6) => cont.major = upg[run.of].from
    /\ Back(5..6) => cont.id = row.cid

\* What it has found out and made so far.
Progress ==
    /\ At(3..17) => \A v \in Upgrades : upg[v].before \subseteq upg[run.of].before
    /\ At(7..17) => dirs[upg[run.of].to].made
    /\ At(12..17) => upg[run.of].before \subseteq dirs[upg[run.of].to].holds
    /\ At(13..17) => repo.awaitingFirstBackup

IInv == TypeOK /\ Chain /\ Serving /\ Whole /\ WayBackIsKept /\ Restorable /\ Queue
        /\ Owner /\ Container /\ Progress

UpgRow == [state : {"absent", "running", "succeeded", "rolled_back", "failed"},
           from : Majors, to : Majors, before : SUBSET Objects,
           retained : BOOLEAN, discarded : BOOLEAN]

-----------------------------------------------------------------------------
(* Versions. *)

\* The lowest version is one: a finite set of numbers has a least element.
LEMMA LowestTyped == Lowest \in Majors
  <1> DEFINE R == OpToRel(<, Nat)
  <1>1. IsWellFoundedOn(R, Nat)
    BY NatLessThanWellFounded
  <1>2. \A m, n \in Nat : m < n => <<m, n>> \in R
    BY DEF OpToRel
  <1> HIDE DEF R
  <1>3. PICK m \in Majors : \A n \in Majors : ~ (<<n, m>> \in R)
    BY <1>1, WFMin, MajorsAssumption
  <1>4. \A n \in Majors : m <= n
    <2>1. SUFFICES ASSUME NEW n \in Majors PROVE m <= n
      OBVIOUS
    <2>2. m \in Nat /\ n \in Nat
      BY MajorsAssumption
    <2>3. ~ (n < m)
      BY <1>2, <1>3, <2>2
    <2> QED  BY <2>2, <2>3
  <1> QED  BY <1>4 DEF Lowest

\* The number of an upgrade counts those that were inserted.
LEMMA Counted ==
    ASSUME NEW f, NEW n \in 0..MaxUpgrades,
           \A u \in Upgrades : f[u].state # "absent" <=> u <= n
    PROVE  Cardinality({u \in Upgrades : f[u].state # "absent"}) = n
  <1>1. {u \in Upgrades : f[u].state # "absent"} = 1..n
    BY UpgradesAssumption DEF Upgrades
  <1>2. Cardinality(1..n) = IF 1 > n THEN 0 ELSE n - 1 + 1
    BY UpgradesAssumption, FS_Interval
  <1>3. Cardinality(1..n) = n
    BY <1>2, UpgradesAssumption
  <1> QED  BY <1>1, <1>3

LEMMA UpgTyped ==
    ASSUME TypeOK, NEW u \in Upgrades
    PROVE  /\ upg[u].from \in Majors /\ upg[u].to \in Majors
           /\ upg[u].from \in Nat /\ upg[u].to \in Nat
           /\ upg[u].before \subseteq Objects
           /\ upg[u].state \in {"absent", "running", "succeeded", "rolled_back", "failed"}
  BY MajorsAssumption DEF TypeOK

\* An upgrade never leads above the version that counts, and a successful one above its origin.
LEMMA Versions ==
    ASSUME TypeOK, Chain
    PROVE  /\ Latest > 0 => Latest \in Upgrades
           /\ Tip \in Majors /\ Tip \in Nat
           /\ \A u \in Upgrades : u <= Latest =>
                 /\ upg[u].from <= Tip
                 /\ upg[u].state = "succeeded" => upg[u].to <= Tip /\ upg[u].from < Tip
           /\ \A u, v \in Upgrades : upg[u].state = "succeeded" /\ u # v
                                     /\ (v = Latest \/ upg[v].state = "succeeded") =>
                 upg[u].from # upg[v].from
  <1>1. Latest > 0 => Latest \in Upgrades
    BY UpgradesAssumption DEF Chain, Upgrades
  <1>2. Tip \in Majors
    BY <1>1, UpgTyped DEF Tip, TypeOK, Chain
  <1>3. Tip \in Nat
    BY <1>2, MajorsAssumption
  <1>4. ASSUME NEW u \in Upgrades, u <= Latest
        PROVE  /\ upg[u].from <= Tip
               /\ upg[u].state = "succeeded" => upg[u].to <= Tip /\ upg[u].from < Tip
    <2>1. Latest \in Upgrades /\ Latest # 0 /\ u \in Nat /\ Latest \in Nat
      BY <1>1, <1>4, UpgradesAssumption DEF Upgrades, Chain
    <2>2. /\ upg[u].from \in Nat /\ upg[u].to \in Nat /\ upg[u].from < upg[u].to
          /\ upg[Latest].from \in Nat /\ upg[Latest].to \in Nat
          /\ upg[Latest].from < upg[Latest].to
      BY <1>4, <2>1, UpgTyped DEF Chain
    <2>3. Tip = IF upg[Latest].state = "succeeded" THEN upg[Latest].to ELSE upg[Latest].from
      BY <2>1 DEF Tip
    <2>4. CASE u = Latest
      BY <2>2, <2>3, <2>4
    <2>5. CASE u < Latest
      <3>1. /\ upg[u].from <= upg[Latest].from
            /\ upg[u].state = "succeeded" => upg[u].to <= upg[Latest].from
        BY <2>1, <2>5 DEF Chain
      <3> QED  BY <2>2, <2>3, <3>1
    <2> QED  BY <1>4, <2>1, <2>4, <2>5
  <1>5. ASSUME NEW u \in Upgrades, NEW v \in Upgrades, upg[u].state = "succeeded", u # v,
               v = Latest \/ upg[v].state = "succeeded"
        PROVE  upg[u].from # upg[v].from
    <2>1. u \in Nat /\ v \in Nat /\ Latest \in Nat /\ u <= Latest /\ v <= Latest
      BY <1>5, UpgradesAssumption DEF Upgrades, Chain
    <2>2. /\ upg[u].from \in Nat /\ upg[u].to \in Nat /\ upg[u].from < upg[u].to
          /\ upg[v].from \in Nat /\ upg[v].to \in Nat /\ upg[v].from < upg[v].to
      BY <2>1, UpgTyped DEF Chain
    <2>3. CASE u < v
      BY <1>5, <2>1, <2>2, <2>3 DEF Chain
    <2>4. CASE v < u
      <3>1. upg[v].state = "succeeded"
        BY <1>5, <2>1, <2>4
      <3> QED  BY <2>1, <2>2, <2>4, <3>1 DEF Chain
    <2> QED  BY <1>5, <2>1, <2>3, <2>4
  <1> QED  BY <1>1, <1>2, <1>3, <1>4, <1>5

\* A step that leaves states and versions of the upgrades alone leaves the chain alone.
LEMMA Retold ==
    ASSUME Chain, \A u \in Upgrades : /\ upg'[u].state = upg[u].state
                                      /\ upg'[u].from = upg[u].from /\ upg'[u].to = upg[u].to
    PROVE  /\ Latest' = Latest /\ Chain'
           /\ row'.major = row.major \/ Latest # 0 => Tip' = Tip
  <1>1. Latest' = Latest
    <2>1. Latest' = Cardinality({u \in Upgrades : upg'[u].state # "absent"})
      BY DEF Latest
    <2>2. {u \in Upgrades : upg'[u].state # "absent"} = {u \in Upgrades : upg[u].state # "absent"}
      OBVIOUS
    <2> QED  BY <2>1, <2>2 DEF Latest
  <1>2. Chain'
    BY <1>1 DEF Chain
  <1>3. Latest # 0 => Latest \in Upgrades
    BY UpgradesAssumption DEF Chain, Upgrades
  <1> QED  BY <1>1, <1>2, <1>3 DEF Tip

-----------------------------------------------------------------------------
(* What happens beside the handler. *)

\* A directory loses nothing.
Kept(m) == (dirs[m].made => dirs'[m].made) /\ dirs[m].holds \subseteq dirs'[m].holds

\* A step that leaves the handler, the versions and the container alone, and every directory
\* that counts.
LEMMA Beside ==
    ASSUME IInv, TypeOK', run' = run,
           \A u \in Upgrades : /\ upg'[u].state = upg[u].state /\ upg'[u].from = upg[u].from
                               /\ upg'[u].to = upg[u].to /\ upg'[u].before = upg[u].before
                               /\ job'[u] = "queued" => job[u] = "queued",
           row'.major = row.major, row'.cid = row.cid,
           \/ row'.state = row.state
           \/ {row.state, row'.state} \subseteq {"running", "stopped"},
           cont'.id = cont.id, cont'.major = cont.major,
           Kept(Tip), At(7..17) => Kept(upg[run.of].to),
           \A u \in Upgrades : (u = Latest \/ upg[u].state = "succeeded") /\ ~upg'[u].discarded =>
              ~upg[u].discarded /\ Kept(upg[u].from),
           \/ repo' = repo
           \/ row.state # "upgrading" /\ repo'.version = Tip /\ Tip \in repo'.backups
    PROVE  IInv'
  <1>1. Latest' = Latest /\ Tip' = Tip /\ Chain'
    BY Retold DEF IInv
  <1>2. Latest > 0 => Latest \in Upgrades
    BY Versions DEF IInv
  <1>3. Serving'
    BY <1>1, <1>2 DEF IInv, Serving
  <1>4. Whole'
    BY <1>1 DEF IInv, Whole, Kept
  <1>5. WayBackIsKept'
    BY <1>1 DEF IInv, WayBackIsKept, Kept
  <1>6. Restorable'
    BY <1>1 DEF IInv, Restorable
  <1>7. Queue'
    BY <1>1 DEF IInv, Queue
  <1>8. run.of # 0 => run.of \in Upgrades
    BY DEF IInv, TypeOK, Upgrades
  <1>9. Owner'
    BY <1>1, <1>8 DEF IInv, Owner, At, Back, Forward
  <1>10. At(1..17) \/ Back(1..6) => run.of \in Upgrades
    BY <1>8 DEF IInv, Owner, At, Back, Forward
  <1>11. Container'
    BY <1>10 DEF IInv, Container, At, Back, Forward
  <1>12. Progress'
    BY <1>10 DEF IInv, Owner, Progress, At, Forward, Kept
  <1> QED  BY <1>1, <1>3, <1>4, <1>5, <1>6, <1>7, <1>9, <1>11, <1>12 DEF IInv

LEMMA AloneKeeps ==
    ASSUME IInv, UNCHANGED <<row, upg, run, dirs, dump, cont, repo>>,
           job' \in [Upgrades -> {"absent", "queued", "running", "cancelRequested", "settled",
                                  "cancelled", "swept"}],
           \A u \in Upgrades : job'[u] = "queued" => job[u] = "queued",
           process' \in {"up", "stopping"}
    PROVE  IInv'
  <1>1. TypeOK'
    BY DEF IInv, TypeOK
  <1> QED  BY <1>1, Beside DEF Kept

LEMMA DiscardKeeps ==
    ASSUME IInv, NEW u \in Upgrades, DiscardPrevious(u)
    PROVE  IInv'
  <1> DEFINE gone == [made |-> FALSE, holds |-> {}]
             told == [upg[u] EXCEPT !.discarded = TRUE]
  <1>1. /\ dirs' = [dirs EXCEPT ![upg[u].from] = gone] /\ upg' = [upg EXCEPT ![u] = told]
        /\ upg[u].state = "succeeded" /\ UNCHANGED <<row, job, run, dump, cont, repo, process>>
    BY DEF DiscardPrevious
  <1>2. /\ told.state = upg[u].state /\ told.from = upg[u].from /\ told.to = upg[u].to
        /\ told.before = upg[u].before /\ told.discarded
        /\ told \in UpgRow
    <2>1. upg[u] \in UpgRow
      BY DEF IInv, TypeOK, UpgRow
    <2> QED  BY <2>1 DEF UpgRow
  <1> HIDE DEF told
  <1>3. TypeOK'
    <2>1. gone \in [made : BOOLEAN, holds : SUBSET Objects]
      OBVIOUS
    <2> HIDE DEF gone
    <2> QED  BY <1>1, <1>2, <2>1 DEF IInv, TypeOK, UpgRow
  <1>4. \A v \in Upgrades : v # u => upg'[v] = upg[v]
    BY <1>1 DEF IInv, TypeOK
  <1>5. upg'[u] = told
    BY <1>1 DEF IInv, TypeOK
  <1>6. \A m \in Majors : m # upg[u].from => Kept(m)
    BY <1>1 DEF IInv, TypeOK, Kept
  <1>7. u <= Latest
    BY <1>1 DEF IInv, Chain
  <1>8. Kept(Tip)
    <2>1. upg[u].from < Tip /\ Tip \in Majors /\ Tip \in Nat /\ upg[u].from \in Nat
      BY <1>1, <1>7, Versions, UpgTyped DEF IInv
    <2> QED  BY <1>6, <2>1
  <1>9. ASSUME At(7..17) PROVE Kept(upg[run.of].to)
    <2>1. run.of = Latest /\ upg[Latest].state = "running" /\ Latest \in Upgrades
      BY <1>9, Versions DEF IInv, Owner, TypeOK, At, Forward, Chain
    <2>2. upg[u].from < Tip /\ Tip = upg[Latest].from
      BY <1>1, <1>7, <2>1, Versions, UpgradesAssumption DEF IInv, Tip, Upgrades
    <2>3. upg[Latest].from < upg[Latest].to
      BY <2>1 DEF IInv, Chain, Upgrades
    <2>4. /\ upg[u].from \in Nat /\ upg[Latest].from \in Nat
          /\ upg[Latest].to \in Nat /\ upg[Latest].to \in Majors
      BY <2>1, UpgTyped DEF IInv
    <2> QED  BY <1>6, <2>1, <2>2, <2>3, <2>4
  <1>10. ASSUME NEW v \in Upgrades, v = Latest \/ upg[v].state = "succeeded", ~upg'[v].discarded
         PROVE  ~upg[v].discarded /\ Kept(upg[v].from)
    <2>1. v # u
      BY <1>2, <1>5, <1>10
    <2>2. upg[u].from # upg[v].from
      BY <1>1, <1>10, <2>1, Versions DEF IInv
    <2>3. upg[v].from \in Majors
      BY UpgTyped DEF IInv
    <2> QED  BY <1>4, <1>6, <1>10, <2>1, <2>2, <2>3
  <1> QED  BY <1>1, <1>2, <1>3, <1>4, <1>5, <1>8, <1>9, <1>10, Beside

LEMMA SetRunningKeeps ==
    ASSUME IInv, NEW up \in BOOLEAN, SetRunning(up)
    PROVE  IInv'
  <1>1. /\ cont' = [cont EXCEPT !.up = up]
        /\ row' = [row EXCEPT !.state = IF up THEN "running" ELSE "stopped"]
        /\ row.state \notin {"upgrading", "failed"}
        /\ UNCHANGED <<upg, job, run, dirs, dump, repo, process>>
    BY DEF SetRunning, IInv, Serving
  <1>2. /\ cont'.id = cont.id /\ cont'.major = cont.major
        /\ cont' \in [id : 0..4, major : Majors, up : BOOLEAN]
    BY <1>1 DEF IInv, TypeOK
  <1>3. /\ row'.cid = row.cid /\ row'.major = row.major /\ row'.state \in {"running", "stopped"}
        /\ row' \in [state : {"running", "stopped", "upgrading", "failed"}, cid : 0..4, major : Majors]
    BY <1>1 DEF IInv, TypeOK
  <1>4. row.state \in {"running", "stopped"}
    BY <1>1 DEF IInv, TypeOK
  <1>5. TypeOK'
    BY <1>1, <1>2, <1>3 DEF IInv, TypeOK
  <1>6. \A m : Kept(m)
    BY <1>1 DEF Kept
  <1> QED  BY <1>1, <1>2, <1>3, <1>4, <1>5, <1>6, Beside

LEMMA CommitKeeps ==
    ASSUME IInv, NEW o \in Objects, Commit(o)
    PROVE  IInv'
  <1> DEFINE more == [dirs[cont.major] EXCEPT !.holds = @ \cup {o}]
  <1>1. /\ dirs' = [dirs EXCEPT ![cont.major] = more]
        /\ UNCHANGED <<row, upg, job, run, dump, cont, repo, process>>
    BY DEF Commit
  <1>2. /\ cont.major \in Majors /\ more \in [made : BOOLEAN, holds : SUBSET Objects]
        /\ more.made = dirs[cont.major].made /\ dirs[cont.major].holds \subseteq more.holds
    BY DEF IInv, TypeOK
  <1> HIDE DEF more
  <1>3. TypeOK'
    BY <1>1, <1>2 DEF IInv, TypeOK
  <1>4. \A m \in Majors : Kept(m)
    BY <1>1, <1>2 DEF IInv, TypeOK, Kept
  <1>5. Tip \in Majors /\ \A u \in Upgrades : upg[u].from \in Majors /\ upg[u].to \in Majors
    BY Versions, UpgTyped DEF IInv
  <1>6. At(7..17) => run.of \in Upgrades
    BY DEF IInv, TypeOK, Owner, At, Forward, Upgrades
  <1> QED  BY <1>1, <1>3, <1>4, <1>5, <1>6, Beside

LEMMA BackUpKeeps ==
    ASSUME IInv, BackUp
    PROVE  IInv'
  <1>1. /\ repo' = [repo EXCEPT !.backups = @ \cup {cont.major}, !.awaitingFirstBackup = FALSE]
        /\ row.state = "running" /\ row.cid = cont.id /\ repo.version = cont.major
        /\ UNCHANGED <<row, upg, job, run, dirs, dump, cont, process>>
    BY DEF BackUp
  <1>2. cont.major \in Majors /\ cont.major = Tip
    BY <1>1 DEF IInv, TypeOK, Serving
  <1>3. /\ repo'.version = Tip /\ Tip \in repo'.backups
        /\ repo' \in [version : Majors \cup {0}, backups : SUBSET Majors, awaitingFirstBackup : BOOLEAN]
    BY <1>1, <1>2 DEF IInv, TypeOK
  <1>4. TypeOK'
    BY <1>1, <1>3 DEF IInv, TypeOK
  <1>5. \A m : Kept(m)
    BY <1>1 DEF Kept
  <1> QED  BY <1>1, <1>3, <1>4, <1>5, Beside

\* A new upgrade starts from the version that counts.
LEMMA StartKeeps ==
    ASSUME IInv, NEW to \in Majors, Start(to)
    PROVE  IInv'
  <1>1. PICK n \in 0..MaxUpgrades : n = Latest
    BY DEF IInv, Chain
  <1>2. PICK new : new = [NoUpgrade EXCEPT !.state = "running", !.from = row.major, !.to = to]
    OBVIOUS
  <1>3. /\ upg' = [upg EXCEPT ![n + 1] = new] /\ job' = [job EXCEPT ![n + 1] = "queued"]
        /\ n < MaxUpgrades /\ n + 1 \in Upgrades /\ row.state = "running" /\ to > row.major
        /\ n > 0 => upg[n].state # "running"
        /\ UNCHANGED <<row, run, dirs, dump, cont, repo, process>>
    BY <1>1, <1>2, UpgradesAssumption DEF Start, Plannable, Upgrades
  <1>4. /\ new.state = "running" /\ new.from = row.major /\ new.to = to /\ new.before = {}
        /\ new \in UpgRow
    <2>1. NoUpgrade \in UpgRow /\ NoUpgrade.before = {}
      BY LowestTyped DEF NoUpgrade, UpgRow
    <2>2. row.major \in Majors
      BY DEF IInv, TypeOK
    <2> HIDE DEF NoUpgrade
    <2> QED  BY <1>2, <2>1, <2>2 DEF UpgRow
  <1>5. upg'[n + 1] = new /\ \A u \in Upgrades : u # n + 1 => upg'[u] = upg[u]
    BY <1>3 DEF IInv, TypeOK
  <1>6. job'[n + 1] = "queued" /\ \A u \in Upgrades : u # n + 1 => job'[u] = job[u]
    BY <1>3 DEF IInv, TypeOK
  <1>7. TypeOK'
    BY <1>3, <1>4 DEF IInv, TypeOK, UpgRow
  <1>8. \A u \in Upgrades : u \in Int /\ (upg[u].state # "absent" <=> u <= n)
    BY <1>1 DEF IInv, Chain, Upgrades
  <1>9. Latest' = n + 1
    <2>1. n + 1 \in 0..MaxUpgrades
      BY <1>3, UpgradesAssumption
    <2>2. \A u \in Upgrades : upg'[u].state # "absent" <=> u <= n + 1
      BY <1>1, <1>4, <1>5, <1>8
    <2>3. Cardinality({u \in Upgrades : upg'[u].state # "absent"}) = n + 1
      BY <2>1, <2>2, Counted
    <2> QED  BY <2>3 DEF Latest
  <1>10. Tip = row.major /\ Tip \in Nat
    BY <1>3, Versions DEF IInv, Serving
  <1>11. Tip' = row.major
    BY <1>1, <1>4, <1>5, <1>9 DEF Tip
  <1>12. Chain'
    <2>1. n + 1 \in 0..MaxUpgrades
      BY <1>3, UpgradesAssumption
    <2>2. \A u \in Upgrades : upg'[u].state # "absent" <=> u <= n + 1
      BY <1>1, <1>4, <1>5, <1>8
    <2>3. \A u \in Upgrades : u <= n + 1 => upg'[u].from < upg'[u].to
      <3>1. new.from < new.to
        BY <1>3, <1>4, <1>10, MajorsAssumption
      <3>2. \A u \in Upgrades : u <= n => upg[u].from < upg[u].to
        BY <1>1 DEF IInv, Chain
      <3> QED  BY <1>1, <1>5, <1>8, <3>1, <3>2
    <2>4. ASSUME NEW u \in Upgrades, NEW v \in Upgrades, u < v, v <= n + 1
          PROVE  /\ upg'[u].state # "running" /\ upg'[u].from <= upg'[v].from
                 /\ upg'[u].state = "succeeded" => upg'[u].to <= upg'[v].from
      <3>1. u <= n /\ upg'[u] = upg[u]
        BY <1>1, <1>5, <1>8, <2>4
      <3>2. CASE v = n + 1
        <4>1. upg'[v].from = Tip
          BY <1>4, <1>5, <1>10, <3>2
        <4>2. upg[u].from <= Tip /\ (upg[u].state = "succeeded" => upg[u].to <= Tip)
          BY <1>1, <3>1, Versions DEF IInv
        <4>3. upg[u].state # "running"
          <5>1. CASE u = n
            BY <1>1, <1>3, <1>8, <5>1 DEF Upgrades
          <5>2. CASE u < n
            <6>1. n \in Upgrades
              BY <1>1, <1>3, <1>8, <5>2 DEF Upgrades
            <6> QED  BY <1>1, <5>2, <6>1 DEF IInv, Chain
          <5> QED  BY <1>1, <1>8, <3>1, <5>1, <5>2
        <4> QED  BY <3>1, <4>1, <4>2, <4>3
      <3>3. CASE v <= n
        <4>1. upg'[v] = upg[v]
          BY <1>1, <1>5, <1>8, <3>3
        <4> QED  BY <1>1, <2>4, <3>1, <3>3, <4>1 DEF IInv, Chain
      <3> QED  BY <1>1, <1>8, <2>4, <3>2, <3>3
    <2> QED  BY <1>9, <2>1, <2>2, <2>3, <2>4 DEF Chain
  <1>13. Serving'
    BY <1>1, <1>3, <1>10, <1>11 DEF IInv, Serving
  <1>14. Whole'
    BY <1>3, <1>4, <1>5, <1>10, <1>11 DEF IInv, Whole
  <1>15. WayBackIsKept'
    <2>1. ASSUME NEW u \in Upgrades, u = n + 1 \/ upg'[u].state = "succeeded", ~upg'[u].discarded
          PROVE  dirs[upg'[u].from].made /\ upg'[u].before \subseteq dirs[upg'[u].from].holds
      <3>1. CASE u = n + 1
        BY <1>4, <1>5, <1>10, <3>1 DEF IInv, Whole
      <3>2. CASE u # n + 1
        BY <1>5, <2>1, <3>2 DEF IInv, WayBackIsKept
      <3> QED  BY <3>1, <3>2
    <2> QED  BY <1>3, <1>9, <2>1 DEF WayBackIsKept
  <1>16. Restorable'
    BY <1>3, <1>10, <1>11 DEF IInv, Restorable
  <1>17. Latest # 0 => upg[Latest].state # "running"
    BY <1>1, <1>3
  <1>18. Queue'
    <2>1. ASSUME NEW u \in Upgrades, u # n + 1 PROVE job[u] # "queued"
      <3>1. Latest \in Upgrades => Latest # 0
        BY DEF Upgrades
      <3> QED  BY <1>17, <3>1 DEF IInv, Queue
    <2> QED  BY <1>3, <1>4, <1>5, <1>6, <1>9, <2>1 DEF Queue
  <1>19. ~At(1..17) /\ ~Back(1..6)
    <2>1. ~At(1..17) /\ ~Back(1..4)
      BY <1>3 DEF IInv, Owner
    <2>2. ASSUME Back(1..6) PROVE FALSE
      <3>1. run.of = Latest /\ upg[run.of].state = "running" /\ run.of # 0
        BY <2>2 DEF IInv, Owner, Back
      <3> QED  BY <1>17, <3>1
    <2> QED  BY <2>1, <2>2
  <1>20. ~At(1..17)' /\ ~Back(1..6)'
    BY <1>3, <1>19 DEF At, Back, Forward
  <1>21. Owner'
    <2>1. ~Back(1..4)' /\ ~Back(5..6)'
      BY <1>20 DEF Back
    <2> QED  BY <1>3, <1>20, <2>1 DEF IInv, Owner
  <1>22. Container' /\ Progress'
    BY <1>20 DEF Container, Progress, At, Back, Forward
  <1> QED  BY <1>7, <1>12, <1>13, <1>14, <1>15, <1>16, <1>18, <1>21, <1>22 DEF IInv

\* The handler takes the project over as it is.
LEMMA ClaimKeeps ==
    ASSUME IInv, NEW u \in Upgrades, Claim(u)
    PROVE  IInv'
  <1>1. /\ job' = [job EXCEPT ![u] = "running"] /\ job[u] = "queued"
        /\ run' = [of |-> u, phase |-> "forward", at |-> 1, cid |-> row.cid]
        /\ row' = [row EXCEPT !.state = "upgrading"]
        /\ UNCHANGED <<upg, dirs, dump, cont, repo, process>>
    BY DEF Claim
  <1>2. /\ row'.cid = row.cid /\ row'.major = row.major /\ row'.state = "upgrading"
        /\ row' \in [state : {"running", "stopped", "upgrading", "failed"}, cid : 0..4, major : Majors]
    BY <1>1 DEF IInv, TypeOK
  <1>3. /\ run'.of = u /\ run'.phase = "forward" /\ run'.at = 1 /\ run'.cid = row.cid
        /\ row.cid \in 0..4 /\ row.cid # 0 /\ u \in 0..MaxUpgrades /\ u # 0
    BY <1>1 DEF IInv, TypeOK, Serving, Upgrades
  <1>4. run' \in [of : 0..MaxUpgrades, phase : {"off", "forward", "rollback"}, at : 0..18, cid : 0..4]
    BY <1>1, <1>3
  <1>5. TypeOK'
    BY <1>1, <1>2, <1>4 DEF IInv, TypeOK
  <1>6. Latest' = Latest /\ Chain' /\ Tip' = Tip
    BY <1>1, <1>2, Retold DEF IInv
  <1>7. u = Latest /\ upg[u].state = "running" /\ row.state \in {"running", "stopped"}
    BY <1>1 DEF IInv, Queue
  <1>8. Tip = upg[u].from /\ row.major = Tip
    BY <1>3, <1>7 DEF IInv, Tip, Serving
  <1>9. Serving'
    <2>1. u > 0
      BY <1>3
    <2> QED  BY <1>1, <1>2, <1>6, <1>7, <2>1 DEF IInv, Serving
  <1>10. Whole' /\ WayBackIsKept' /\ Restorable'
    BY <1>1, <1>6 DEF IInv, Whole, WayBackIsKept, Restorable
  <1>11. job'[u] = "running" /\ \A v \in Upgrades : v # u => job'[v] # "queued"
    BY <1>1, <1>7 DEF IInv, TypeOK, Queue
  <1>12. Queue'
    BY <1>11 DEF Queue
  <1>13. Owner'
    BY <1>1, <1>2, <1>3, <1>6, <1>7, <1>11 DEF Owner, At, Back, Forward
  <1>14. Container'
    <2>1. row.cid = cont.id => cont.major = row.major
      BY <1>7 DEF IInv, Serving
    <2> QED  BY <1>1, <1>2, <1>3, <1>8, <2>1 DEF Container, At, Back, Forward
  <1>15. Progress'
    BY <1>3 DEF Progress, At, Forward
  <1> QED  BY <1>5, <1>6, <1>9, <1>10, <1>12, <1>13, <1>14, <1>15 DEF IInv

-----------------------------------------------------------------------------
(* The calls of the handler. *)

\* Which call the handler is in.
LEMMA ForwardCalls ==
    ASSUME Forward, run.at \in 1..18
    PROVE  /\ Call = "manifest" <=> run.at = 2
           /\ Call = "dump" <=> run.at = 3
           /\ Call = "stop" <=> run.at \in {4, 13}
           /\ Call = "remove" <=> run.at \in {5, 14}
           /\ Call = "directory" <=> run.at = 6
           /\ Call = "create" <=> run.at \in {7, 15}
           /\ Call = "start" <=> run.at \in {8, 16}
           /\ Call = "wait" <=> run.at \in {9, 17}
           /\ Call = "load" <=> run.at = 10
           /\ Call = "verify" <=> run.at = 11
           /\ Call = "adopt" <=> run.at = 12
           /\ Call = "rmdump" <=> run.at = 18
           /\ Call = "backup" <=> run.at = 1
           /\ Call # "rmscrap" /\ Last = 18
           /\ Step >= 4 <=> run.at >= 6
           /\ Step = 4 <=> run.at \in 6..9
           /\ Step = 8 <=> run.at >= 13
  BY DEF Forward, Call, Calls, Step, StepAt, Last

LEMMA RollbackCallsAre ==
    ASSUME run.phase = "rollback", run.at \in 1..6
    PROVE  /\ ~Forward /\ Last = 6 /\ Len(RollbackCalls) = 6
           /\ Call = "stop" <=> run.at = 1
           /\ Call = "remove" <=> run.at = 2
           /\ Call = "create" <=> run.at = 3
           /\ Call = "start" <=> run.at = 4
           /\ Call = "rmscrap" <=> run.at = 5
           /\ Call = "rmdump" <=> run.at = 6
           /\ Call \in {"stop", "remove", "create", "start", "rmscrap", "rmdump"}
  BY DEF Forward, Call, RollbackCalls, Last

LEMMA FreshTyped == Fresh \in Ids /\ Fresh \notin {cont.id, row.cid, run.cid} /\ Fresh \in 0..4 /\ Fresh # 0
  <1>1. \E i \in Ids : i \notin {cont.id, row.cid, run.cid}
    BY DEF Ids
  <1> QED  BY <1>1 DEF Fresh, Ids

LEMMA Somewhere ==
    ASSUME IInv, run.of # 0
    PROVE  /\ run.of \in Upgrades
           /\ \/ Forward /\ run.at \in 1..18
              \/ run.phase = "rollback" /\ ~Forward /\ run.at \in 1..6
  BY DEF IInv, TypeOK, Owner, Upgrades, Forward

\* What a call that returned, or whose error was swallowed, did outside the two rows.
World ==
    /\ dirs' \in [Majors -> [made : BOOLEAN, holds : SUBSET Objects]] /\ dump' \subseteq Objects
    /\ cont' \in [id : 0..4, major : Majors, up : BOOLEAN]
    /\ repo' \in [version : Majors \cup {0}, backups : SUBSET Majors, awaitingFirstBackup : BOOLEAN]
    /\ \A m \in Majors : Kept(m) \/ (Back({5}) /\ m = upg[run.of].to)
    /\ At({6}) => dirs'[upg[run.of].to].made
    /\ repo' = repo \/ (At({12}) /\ repo'.awaitingFirstBackup)
    /\ At({12}) => repo'.awaitingFirstBackup
    /\ At({1, 2, 3, 6, 9, 10, 11, 12, 17, 18}) \/ Back({5, 6}) => cont' = cont
    /\ At({4, 8, 13, 16}) \/ Back({1, 4}) => cont'.id = cont.id /\ cont'.major = cont.major
    /\ At({5, 14}) => cont'.id = 0
    /\ Back({2}) => cont'.id # row.cid
    /\ At({7, 15}) \/ Back({3}) => cont'.id = Fresh /\ cont'.major = row.major
    /\ At({2}) => cont.id = run.cid
    /\ At({11}) => upg[run.of].before \subseteq dirs[cont.major].holds
    /\ At({8, 16}) \/ Back({4}) => cont.id = run.cid

LEMMA ActsDirs ==
    ASSUME IInv, run.of # 0, Acts
    PROVE  /\ dirs' \in [Majors -> [made : BOOLEAN, holds : SUBSET Objects]] /\ dump' \subseteq Objects
           /\ \A m \in Majors : Kept(m) \/ (Back({5}) /\ m = upg[run.of].to)
           /\ At({6}) => dirs'[upg[run.of].to].made
  <1>1. PICK loaded \in SUBSET dump : dirs' = DirsAfter(loaded)
    BY DEF Acts
  <1>2. PICK to \in Majors : to = upg[run.of].to
    BY Somewhere, UpgTyped DEF IInv
  <1>3. /\ dirs \in [Majors -> [made : BOOLEAN, holds : SUBSET Objects]] /\ dump \subseteq Objects
        /\ cont.major \in Majors
    BY DEF IInv, TypeOK
  <1>4. dump' \subseteq Objects
    BY <1>3 DEF Acts, DumpAfter
  <1>5. CASE Call = "directory"
    <2> DEFINE d == [dirs[to] EXCEPT !.made = TRUE]
    <2>1. dirs' = [dirs EXCEPT ![to] = d]
      BY <1>1, <1>2, <1>5 DEF DirsAfter, u0
    <2>2. d \in [made : BOOLEAN, holds : SUBSET Objects] /\ d.made /\ d.holds = dirs[to].holds
      BY <1>3
    <2> HIDE DEF d
    <2> QED  BY <1>2, <1>3, <1>4, <2>1, <2>2 DEF Kept
  <1>6. CASE Call = "load" /\ cont.up
    <2> DEFINE d == [dirs[cont.major] EXCEPT !.holds = @ \cup loaded]
    <2>1. dirs' = [dirs EXCEPT ![cont.major] = d]
      BY <1>1, <1>6 DEF DirsAfter
    <2>2. /\ d \in [made : BOOLEAN, holds : SUBSET Objects] /\ d.made = dirs[cont.major].made
          /\ dirs[cont.major].holds \subseteq d.holds
      BY <1>1, <1>3
    <2>3. ~At({6})
      BY <1>6, ForwardCalls DEF At
    <2> HIDE DEF d
    <2> QED  BY <1>3, <1>4, <2>1, <2>2, <2>3 DEF Kept
  <1>7. CASE Call = "rmscrap" /\ (cont.id = 0 \/ cont.major # Scrap)
    <2> DEFINE d == [made |-> FALSE, holds |-> {}]
    <2>1. dirs' = [dirs EXCEPT ![to] = d]
      BY <1>1, <1>2, <1>7 DEF DirsAfter, Scrap, u0
    <2>2. d \in [made : BOOLEAN, holds : SUBSET Objects]
      OBVIOUS
    <2>3. ~At({6}) /\ Back({5})
      BY <1>7, Somewhere, ForwardCalls, RollbackCallsAre DEF At, Back
    <2> HIDE DEF d
    <2> QED  BY <1>2, <1>3, <1>4, <2>1, <2>2, <2>3 DEF Kept
  <1>8. CASE dirs' = dirs /\ Call # "directory"
    <2>1. ~At({6})
      BY <1>8, ForwardCalls DEF At
    <2> QED  BY <1>3, <1>4, <1>8, <2>1 DEF Kept
  <1> QED  BY <1>1, <1>5, <1>6, <1>7, <1>8 DEF DirsAfter

LEMMA ActsRepo ==
    ASSUME IInv, run.of # 0, Acts
    PROVE  /\ repo' \in [version : Majors \cup {0}, backups : SUBSET Majors,
                         awaitingFirstBackup : BOOLEAN]
           /\ repo' = repo \/ (At({12}) /\ repo'.awaitingFirstBackup)
           /\ At({12}) => repo'.awaitingFirstBackup
  <1>1. CASE Call = "adopt"
    <2>1. PICK upgraded \in BOOLEAN : repo' = Adopted(upgraded)
      BY <1>1 DEF Acts
    <2>2. At({12})
      BY <1>1, Somewhere, ForwardCalls, RollbackCallsAre DEF At
    <2> QED  BY <2>1, <2>2 DEF Adopted, IInv, TypeOK
  <1>2. CASE Call # "adopt"
    <2>1. ~At({12})
      BY <1>2, ForwardCalls DEF At
    <2> QED  BY <1>2, <2>1 DEF Acts, IInv, TypeOK
  <1> QED  BY <1>1, <1>2

LEMMA ActsCont ==
    ASSUME IInv, run.of # 0, Acts
    PROVE  /\ cont' \in [id : 0..4, major : Majors, up : BOOLEAN]
           /\ At({1, 2, 3, 6, 9, 10, 11, 12, 17, 18}) \/ Back({5, 6}) => cont' = cont
           /\ At({4, 8, 13, 16}) \/ Back({1, 4}) => cont'.id = cont.id /\ cont'.major = cont.major
           /\ At({5, 14}) => cont'.id = 0
           /\ Back({2}) => cont'.id # row.cid
           /\ At({7, 15}) \/ Back({3}) => cont'.id = Fresh /\ cont'.major = row.major
  <1>1. cont' = ContAfter /\ cont \in [id : 0..4, major : Majors, up : BOOLEAN] /\ row.major \in Majors
    BY DEF Acts, IInv, TypeOK
  <1>2. CASE Call = "create"
    <2>1. At({7, 15}) \/ Back({3})
      BY <1>2, Somewhere, ForwardCalls, RollbackCallsAre DEF At, Back
    <2>2. cont' = [id |-> Fresh, major |-> row.major, up |-> FALSE]
      BY <1>1, <1>2 DEF ContAfter
    <2>3. Fresh \in 0..4
      BY FreshTyped
    <2> QED  BY <1>1, <2>1, <2>2, <2>3 DEF At, Back, Forward
  <1>3. CASE Call = "remove"
    <2>1. At({5, 14}) \/ Back({2})
      BY <1>3, Somewhere, ForwardCalls, RollbackCallsAre DEF At, Back
    <2>2. cont' = IF cont.id = run.cid THEN NoContainer ELSE cont
      BY <1>1, <1>3 DEF ContAfter
    <2>3. At({5, 14}) => cont.id = run.cid
      BY DEF IInv, Container, At
    <2>4. Back({2}) => run.cid = row.cid
      BY DEF IInv, Container, Back
    <2>5. row.cid # 0 /\ NoContainer.id = 0
      BY DEF IInv, Serving, NoContainer
    <2>6. NoContainer \in [id : 0..4, major : Majors, up : BOOLEAN]
      BY LowestTyped DEF NoContainer
    <2> HIDE DEF NoContainer
    <2> QED  BY <1>1, <2>1, <2>2, <2>3, <2>4, <2>5, <2>6 DEF At, Back, Forward
  <1>4. CASE Call \in {"start", "stop"}
    <2>1. At({4, 8, 13, 16}) \/ Back({1, 4})
      BY <1>4, Somewhere, ForwardCalls, RollbackCallsAre DEF At, Back
    <2>2. cont' \in {[cont EXCEPT !.up = TRUE], [cont EXCEPT !.up = FALSE], cont}
      BY <1>1, <1>4 DEF ContAfter
    <2>3. /\ cont' \in [id : 0..4, major : Majors, up : BOOLEAN]
          /\ cont'.id = cont.id /\ cont'.major = cont.major
      BY <1>1, <2>2
    <2> QED  BY <2>1, <2>3 DEF At, Back, Forward
  <1>5. CASE Call \notin {"create", "remove", "start", "stop"}
    <2>1. cont' = cont
      BY <1>1, <1>5 DEF ContAfter
    <2>2. ~At({4, 5, 7, 8, 13, 14, 15, 16}) /\ ~Back({1, 2, 3, 4})
      BY <1>5, Somewhere, ForwardCalls, RollbackCallsAre DEF At, Back
    <2> QED  BY <1>1, <2>1, <2>2 DEF At, Back
  <1> QED  BY <1>2, <1>3, <1>4, <1>5

LEMMA Returned ==
    ASSUME IInv, run.of # 0, Succeeds, Acts
    PROVE  World
  <1>1. At({2}) => cont.id = run.cid
    BY ForwardCalls DEF At, Succeeds
  <1>2. At({11}) => upg[run.of].before \subseteq dirs[cont.major].holds
    BY ForwardCalls DEF At, Succeeds, Verified, NothingMissing, Manifest, u0
  <1>3. At({8, 16}) \/ Back({4}) => cont.id = run.cid
    BY DEF IInv, Container, At, Back
  <1> QED  BY <1>1, <1>2, <1>3, ActsDirs, ActsRepo, ActsCont DEF World

\* An error that is swallowed: nothing was done, and the call is none of those that matter.
LEMMA Swallowed ==
    ASSUME IInv, ~Sticky, CallTolerated
    PROVE  World
  <1>1. UNCHANGED <<dirs, dump, cont, repo>>
    BY DEF CallTolerated
  <1>2. Call \in {"stop", "rmdump", "rmscrap", "backup"}
    BY DEF CallTolerated, Tolerated
  <1>3. ~At({2, 5, 6, 7, 8, 11, 12, 14, 15, 16}) /\ ~Back({2, 3, 4})
    BY <1>2, ForwardCalls, RollbackCallsAre DEF At, Back
  <1>4. \A m : Kept(m)
    BY <1>1 DEF Kept
  <1> QED  BY <1>1, <1>3, <1>4 DEF World, IInv, TypeOK, At, Back

\* What is written to the rows, and where the handler goes, call by call.
LEMMA RowWritten ==
    ASSUME IInv, run.of # 0, row' = RowAfter
    PROVE  /\ row' \in [state : {"running", "stopped", "upgrading", "failed"}, cid : 0..4,
                        major : Majors]
           /\ row'.cid = IF At({8, 17}) \/ Back({4}) THEN run.cid ELSE row.cid
           /\ row'.state = IF At({17}) \/ Back({4}) THEN "running" ELSE row.state
           /\ row'.major = IF At({6}) THEN upg[run.of].to
                           ELSE IF Back({2}) THEN upg[run.of].from ELSE row.major
  <1>1. /\ row \in [state : {"running", "stopped", "upgrading", "failed"}, cid : 0..4, major : Majors]
        /\ run.cid \in 0..4
    BY DEF IInv, TypeOK
  <1>2. upg[run.of].to \in Majors /\ upg[run.of].from \in Majors
    BY Somewhere, UpgTyped DEF IInv
  <1>3. PICK to \in Majors, from \in Majors : to = upg[run.of].to /\ from = upg[run.of].from
    BY <1>2
  <1>4. CASE Forward
    <2>1. /\ Call = "directory" <=> At({6})
          /\ Call = "start" /\ Step = 4 <=> At({8})
          /\ Call = "wait" /\ Step = 8 <=> At({17})
          /\ ~Back({2, 4})
      BY <1>4, Somewhere, ForwardCalls DEF At, Back, Forward
    <2>2. row' = CASE At({6}) -> [row EXCEPT !.major = to]
                   [] At({8}) -> [row EXCEPT !.cid = run.cid]
                   [] At({17}) -> [row EXCEPT !.cid = run.cid, !.state = "running"]
                   [] OTHER -> row
      <3>1. ~(At({6}) /\ At({8})) /\ ~(At({6}) /\ At({17})) /\ ~(At({8}) /\ At({17}))
        BY DEF At
      <3>2. CASE At({6})
        BY <1>3, <1>4, <2>1, <3>1, <3>2 DEF RowAfter, u0
      <3>3. CASE At({8})
        BY <1>4, <2>1, <3>1, <3>3 DEF RowAfter
      <3>4. CASE At({17})
        BY <1>4, <2>1, <3>1, <3>4 DEF RowAfter
      <3>5. CASE ~At({6}) /\ ~At({8}) /\ ~At({17})
        BY <1>4, <2>1, <3>5 DEF RowAfter
      <3> QED  BY <3>2, <3>3, <3>4, <3>5
    <2>3. ~(At({6}) /\ At({8})) /\ ~(At({6}) /\ At({17})) /\ ~(At({8}) /\ At({17}))
          /\ (At({8, 17}) <=> At({8}) \/ At({17})) /\ ~Back({2}) /\ ~Back({4})
      BY <2>1 DEF At, Back
    <2> QED  BY <1>1, <1>3, <2>2, <2>3
  <1>5. CASE ~Forward
    <2>1. /\ Call = "remove" <=> Back({2})
          /\ Call = "start" <=> Back({4})
          /\ ~At({6}) /\ ~At({17}) /\ ~At({8, 17}) /\ ~(Back({2}) /\ Back({4}))
      BY <1>5, Somewhere, RollbackCallsAre DEF At, Back
    <2>2. row' = CASE Back({2}) -> [row EXCEPT !.major = from]
                   [] Back({4}) -> [row EXCEPT !.cid = run.cid, !.state = "running"]
                   [] OTHER -> row
      <3>1. CASE Back({2})
        BY <1>3, <1>5, <2>1, <3>1 DEF RowAfter, u0
      <3>2. CASE Back({4})
        BY <1>5, <2>1, <3>2 DEF RowAfter
      <3>3. CASE ~Back({2}) /\ ~Back({4})
        BY <1>5, <2>1, <3>3 DEF RowAfter
      <3> QED  BY <3>1, <3>2, <3>3
    <2> QED  BY <1>1, <1>3, <2>1, <2>2
  <1> QED  BY <1>4, <1>5

LEMMA UpgWritten ==
    ASSUME IInv, run.of # 0, upg' = UpgAfter
    PROVE  /\ upg' \in [Upgrades -> UpgRow]
           /\ \A u \in Upgrades : /\ upg'[u].from = upg[u].from /\ upg'[u].to = upg[u].to
                                  /\ upg'[u].discarded = upg[u].discarded
                                  /\ u # run.of => upg'[u] = upg[u]
           /\ upg'[run.of].before = IF At({2}) THEN dirs[cont.major].holds ELSE upg[run.of].before
           /\ upg'[run.of].state = IF At({17}) THEN "succeeded"
                                   ELSE IF Back({6}) THEN "rolled_back" ELSE upg[run.of].state
  <1>1. upg \in [Upgrades -> UpgRow] /\ run.of \in Upgrades /\ dirs[cont.major].holds \subseteq Objects
    BY Somewhere DEF IInv, TypeOK, UpgRow
  <1>2. PICK k \in Upgrades : k = run.of
    BY <1>1
  <1>3. /\ Call = "manifest" <=> At({2})
        /\ Forward /\ Call = "wait" /\ Step = 8 <=> At({17})
        /\ ~Forward /\ run.at = Len(RollbackCalls) <=> Back({6})
        /\ ~(At({2}) /\ At({17})) /\ ~(At({2}) /\ Back({6})) /\ ~(At({17}) /\ Back({6}))
    <2>1. CASE Forward
      BY <2>1, Somewhere, ForwardCalls DEF At, Back, Forward
    <2>2. CASE ~Forward
      BY <2>2, Somewhere, RollbackCallsAre DEF At, Back
    <2> QED  BY <2>1, <2>2
  <1>4. PICK x \in UpgRow :
           /\ upg' = [upg EXCEPT ![k] = x]
           /\ x.from = upg[k].from /\ x.to = upg[k].to /\ x.discarded = upg[k].discarded
           /\ x.before = IF At({2}) THEN dirs[cont.major].holds ELSE upg[k].before
           /\ x.state = IF At({17}) THEN "succeeded"
                        ELSE IF Back({6}) THEN "rolled_back" ELSE upg[k].state
    <2>1. upg[k] \in UpgRow
      BY <1>1
    <2>2. CASE At({2})
      <3> DEFINE x == [upg[k] EXCEPT !.before = Manifest]
      <3>1. upg' = [upg EXCEPT ![k] = x]
        BY <1>2, <1>3, <2>2 DEF UpgAfter, u0
      <3>2. /\ x \in UpgRow /\ x.from = upg[k].from /\ x.to = upg[k].to
            /\ x.discarded = upg[k].discarded /\ x.state = upg[k].state
            /\ x.before = dirs[cont.major].holds
        BY <1>1, <2>1 DEF UpgRow, Manifest
      <3> HIDE DEF x
      <3> QED  BY <1>3, <2>2, <3>1, <3>2
    <2>3. CASE At({17})
      <3> DEFINE x == [upg[k] EXCEPT !.state = "succeeded", !.retained = TRUE]
      <3>1. upg' = [upg EXCEPT ![k] = x]
        BY <1>2, <1>3, <2>3 DEF UpgAfter, u0
      <3>2. /\ x \in UpgRow /\ x.from = upg[k].from /\ x.to = upg[k].to
            /\ x.discarded = upg[k].discarded /\ x.state = "succeeded" /\ x.before = upg[k].before
        BY <2>1 DEF UpgRow
      <3> HIDE DEF x
      <3> QED  BY <1>3, <2>3, <3>1, <3>2
    <2>4. CASE Back({6})
      <3> DEFINE x == [upg[k] EXCEPT !.state = "rolled_back"]
      <3>1. upg' = [upg EXCEPT ![k] = x]
        BY <1>2, <1>3, <2>4 DEF UpgAfter, u0
      <3>2. /\ x \in UpgRow /\ x.from = upg[k].from /\ x.to = upg[k].to
            /\ x.discarded = upg[k].discarded /\ x.state = "rolled_back" /\ x.before = upg[k].before
        BY <2>1 DEF UpgRow
      <3> HIDE DEF x
      <3> QED  BY <1>3, <2>4, <3>1, <3>2
    <2>5. CASE ~At({2}) /\ ~At({17}) /\ ~Back({6})
      <3>1. upg' = upg
        BY <1>3, <2>5 DEF UpgAfter
      <3>2. upg' = [upg EXCEPT ![k] = upg[k]]
        BY <1>1, <3>1
      <3> QED  BY <2>1, <2>5, <3>2
    <2> QED  BY <2>2, <2>3, <2>4, <2>5
  <1> QED  BY <1>1, <1>2, <1>4

LEMMA Moved ==
    ASSUME IInv, run.of # 0, Proceeds
    PROVE  /\ run' \in [of : 0..MaxUpgrades, phase : {"off", "forward", "rollback"}, at : 0..18,
                        cid : 0..4]
           /\ At({18}) \/ Back({6}) => run' = NoRun
           /\ ~At({18}) /\ ~Back({6}) =>
                 /\ run'.of = run.of /\ run'.phase = run.phase /\ run'.at = run.at + 1
                 /\ run'.cid = IF At({7, 15}) \/ Back({3}) THEN Fresh ELSE run.cid
           /\ job' \in [Upgrades -> {"absent", "queued", "running", "cancelRequested", "settled",
                                     "cancelled", "swept"}]
           /\ \A u \in Upgrades : job'[u] = "queued" => job[u] = "queued"
  <1>1. /\ run \in [of : 0..MaxUpgrades, phase : {"off", "forward", "rollback"}, at : 0..18, cid : 0..4]
        /\ job \in [Upgrades -> {"absent", "queued", "running", "cancelRequested", "settled",
                                 "cancelled", "swept"}]
        /\ run.of \in Upgrades /\ Fresh \in 0..4
    BY Somewhere, FreshTyped DEF IInv, TypeOK
  <1>2. run.at = Last <=> At({18}) \/ Back({6})
    BY Somewhere, ForwardCalls, RollbackCallsAre DEF At, Back, Forward
  <1>3. Call = "create" <=> At({7, 15}) \/ Back({3})
    BY Somewhere, ForwardCalls, RollbackCallsAre DEF At, Back, Forward
  <1>4. CASE run.at = Last
    <2>1. run' = NoRun /\ job' = [job EXCEPT ![run.of] = "settled"]
      BY <1>4 DEF Proceeds, u0
    <2>2. NoRun \in [of : 0..MaxUpgrades, phase : {"off", "forward", "rollback"}, at : 0..18, cid : 0..4]
      BY UpgradesAssumption DEF NoRun
    <2> HIDE DEF NoRun
    <2> QED  BY <1>1, <1>2, <1>4, <2>1, <2>2
  <1>5. CASE run.at # Last
    <2>1. /\ run' = [run EXCEPT !.at = @ + 1, !.cid = IF Call = "create" THEN Fresh ELSE @]
          /\ job' = job
      BY <1>5 DEF Proceeds
    <2>2. run.at + 1 \in 0..18
      BY <1>2, <1>5, Somewhere DEF At, Back, Forward
    <2> QED  BY <1>1, <1>2, <1>3, <1>5, <2>1, <2>2
  <1> QED  BY <1>4, <1>5

-----------------------------------------------------------------------------
(* The steps of the handler. *)

\* The handler goes on after a call.
LEMMA ProceedsKeeps ==
    ASSUME IInv, run.of # 0, World, Proceeds, process' = process
    PROVE  IInv'
  <1>1. PICK u \in Upgrades : u = run.of
    BY Somewhere
  <1>2. PICK from \in Majors, to \in Majors : from = upg[u].from /\ to = upg[u].to
    BY <1>1, UpgTyped DEF IInv
  <1>3. /\ upg' \in [Upgrades -> UpgRow]
        /\ \A v \in Upgrades : /\ upg'[v].from = upg[v].from /\ upg'[v].to = upg[v].to
                               /\ upg'[v].discarded = upg[v].discarded
                               /\ v # u => upg'[v] = upg[v]
        /\ upg'[u].before = IF At({2}) THEN dirs[cont.major].holds ELSE upg[u].before
        /\ upg'[u].state = IF At({17}) THEN "succeeded"
                           ELSE IF Back({6}) THEN "rolled_back" ELSE upg[u].state
    BY <1>1, UpgWritten DEF Proceeds
  <1>4. /\ row' \in [state : {"running", "stopped", "upgrading", "failed"}, cid : 0..4, major : Majors]
        /\ row'.cid = IF At({8, 17}) \/ Back({4}) THEN run.cid ELSE row.cid
        /\ row'.state = IF At({17}) \/ Back({4}) THEN "running" ELSE row.state
        /\ row'.major = IF At({6}) THEN to ELSE IF Back({2}) THEN from ELSE row.major
    BY <1>1, <1>2, RowWritten DEF Proceeds
  <1>5. TypeOK'
    BY <1>3, <1>4, Moved DEF World, IInv, TypeOK, UpgRow
  <1>6. At(1..17) \/ Back(1..6) => u = Latest /\ upg[u].state = "running" /\ job[u] # "queued"
    BY <1>1 DEF IInv, Owner
  <1>7. u # 0 /\ u > 0
    BY DEF Upgrades
  <1>8. Latest' = Latest
    <2>1. \A v \in Upgrades : upg'[v].state # "absent" <=> upg[v].state # "absent"
      BY <1>3, <1>6 DEF At, Back
    <2>2. Latest' = Cardinality({v \in Upgrades : upg'[v].state # "absent"})
      BY DEF Latest
    <2>3. {v \in Upgrades : upg'[v].state # "absent"} = {v \in Upgrades : upg[v].state # "absent"}
      BY <2>1
    <2> QED  BY <2>2, <2>3 DEF Latest
  <1>9. Chain'
    <2>1. \A v \in Upgrades : upg'[v].state # "absent" <=> v <= Latest
      BY <1>3, <1>6 DEF At, Back, IInv, Chain
    <2>2. ASSUME NEW v \in Upgrades, NEW w \in Upgrades, v < w, w <= Latest PROVE upg'[v].state = upg[v].state
      <3>1. v # Latest /\ v \in Int /\ w \in Int /\ Latest \in Int
        BY <2>2 DEF IInv, Chain, Upgrades
      <3> QED  BY <1>3, <1>6, <3>1 DEF At, Back
    <2> QED  BY <1>3, <1>8, <2>1, <2>2 DEF IInv, Chain
  <1>10. At(1..17) \/ Back(1..6) => Tip = from /\ from < to /\ from \in Nat /\ to \in Nat
    <2>1. At(1..17) \/ Back(1..6) => Tip = from
      BY <1>2, <1>6, <1>7 DEF Tip
    <2>2. At(1..17) \/ Back(1..6) => u <= Latest
      BY <1>6 DEF Upgrades
    <2> QED  BY <1>2, <2>1, <2>2, MajorsAssumption DEF IInv, Chain
  <1>11. Tip' = IF At({17}) THEN to ELSE Tip
    <2>1. CASE At(1..17) \/ Back(1..6)
      <3>1. Latest' = u /\ Latest' # 0 /\ upg'[u].to = to /\ upg'[u].from = from
        BY <1>2, <1>3, <1>6, <1>7, <1>8, <2>1
      <3>2. Tip' = IF upg'[u].state = "succeeded" THEN to ELSE from
        BY <3>1 DEF Tip
      <3>3. upg'[u].state = "succeeded" <=> At({17})
        BY <1>3, <1>6, <2>1
      <3> QED  BY <1>10, <2>1, <3>2, <3>3
    <2>2. CASE At({18})
      <3>1. \A v \in Upgrades : upg'[v].state = upg[v].state
        BY <1>3, <2>2 DEF At, Back, Forward
      <3>2. row'.major = row.major /\ ~At({17})
        BY <1>4, <2>2 DEF At, Back, Forward
      <3> QED  BY <1>3, <3>1, <3>2, Retold DEF IInv
    <2> QED  BY <2>1, <2>2, Somewhere DEF At, Back
  <1>12. \A m \in Majors : Kept(m) \/ (Back({5}) /\ m = to)
    BY <1>1, <1>2 DEF World
  <1>13. At(7..17) => row.major = to /\ dirs[to].made
    BY <1>1, <1>2 DEF IInv, Container, Progress
  <1>14. At(1..6) \/ Back(3..6) => row.major = from
    BY <1>1, <1>2 DEF IInv, Container
  <1>15. \A v \in Upgrades : upg'[v].before = upg[v].before \/ (v = u /\ At({2}))
    BY <1>3
  <1>16. At({2}) => upg'[u].before = dirs[from].holds
    <2>1. At({2}) => cont.id = run.cid
      BY DEF World
    <2>2. At({2}) => run.cid = row.cid /\ (cont.id = row.cid => cont.major = from)
      BY <1>1, <1>2 DEF IInv, Container, At
    <2> QED  BY <1>3, <2>1, <2>2
  <1>17. Serving'
    <2>1. row'.cid # 0
      BY <1>4 DEF IInv, Serving, Owner
    <2>2. row'.state = "upgrading" => Latest' > 0 /\ upg'[Latest'].state = "running"
      <3>1. ASSUME row'.state = "upgrading" PROVE row.state = "upgrading" /\ ~At({17}) /\ ~Back({6})
        BY <1>4, <3>1 DEF IInv, Owner, Back
      <3>2. row.state = "upgrading" => Latest > 0 /\ upg[Latest].state = "running" /\ Latest \in Upgrades
        BY Versions DEF IInv, Serving
      <3> QED  BY <1>3, <1>8, <3>1, <3>2
    <2>3. CASE At(1..16) \/ Back(1..3)
      <3>1. row'.state = "upgrading"
        BY <1>4, <2>3 DEF IInv, Owner, At, Back, Forward
      <3> QED  BY <2>1, <2>2, <3>1 DEF Serving
    <2>4. CASE At({17})
      <3>1. row'.state = "running" /\ row'.cid = run.cid /\ row'.major = to
        BY <1>4, <1>13, <2>4 DEF At, Back, Forward
      <3>2. cont' = cont /\ cont.major = to
        BY <1>1, <1>2, <2>4 DEF World, IInv, Container, At
      <3> QED  BY <1>11, <2>1, <2>2, <2>4, <3>1, <3>2 DEF Serving
    <2>5. CASE Back({4})
      <3>1. row'.state = "running" /\ row'.cid = run.cid /\ row'.major = from
        BY <1>4, <1>14, <2>5 DEF At, Back, Forward
      <3>2. cont'.major = from /\ Tip' = from
        BY <1>1, <1>2, <1>10, <1>11, <2>5 DEF World, IInv, Container, At, Back, Forward
      <3> QED  BY <2>1, <2>2, <3>1, <3>2 DEF Serving
    <2>6. CASE At({18}) \/ Back({5, 6})
      <3>1. row'.cid = row.cid /\ row'.state = row.state /\ row'.major = row.major
        BY <1>4, <2>6 DEF At, Back, Forward
      <3>2. cont' = cont /\ Tip' = Tip
        BY <1>11, <2>6 DEF World, At, Back, Forward
      <3> QED  BY <2>1, <2>2, <3>1, <3>2 DEF IInv, Serving
    <2> QED  BY <2>3, <2>4, <2>5, <2>6, Somewhere DEF At, Back
  <1>18. Kept(Tip)
    BY <1>10, <1>12, Versions DEF IInv, Back
  <1>19. Whole'
    <2>1. CASE At({17})
      <3>1. Kept(to) /\ Tip' = to /\ dirs[to].made
        BY <1>11, <1>12, <1>13, <2>1 DEF At, Back, Forward
      <3>2. upg[u].before \subseteq dirs[to].holds /\ \A v \in Upgrades : upg[v].before \subseteq upg[u].before
        BY <1>1, <1>2, <2>1 DEF IInv, Progress, At
      <3>3. \A v \in Upgrades : upg'[v].before = upg[v].before
        BY <1>15, <2>1 DEF At
      <3> QED  BY <3>1, <3>2, <3>3 DEF Whole, Kept
    <2>2. CASE ~At({17})
      <3>1. Tip' = Tip
        BY <1>11, <2>2
      <3>2. \A v \in Upgrades : upg'[v].before \subseteq dirs[Tip].holds
        <4>1. At({2}) => Tip = from
          BY <1>10 DEF At
        <4> QED  BY <1>15, <1>16, <4>1 DEF IInv, Whole
      <3> QED  BY <1>18, <3>1, <3>2 DEF IInv, Whole, Kept
    <2> QED  BY <2>1, <2>2
  <1>20. WayBackIsKept'
    <2>1. ASSUME NEW v \in Upgrades, v = Latest \/ upg'[v].state = "succeeded", ~upg'[v].discarded
          PROVE  /\ dirs'[upg'[v].from].made
                 /\ upg'[v].before \subseteq dirs'[upg'[v].from].holds
      <3>1. v = Latest \/ upg[v].state = "succeeded"
        BY <1>3, <1>6, <2>1 DEF At, Back
      <3>2. /\ dirs[upg[v].from].made
            /\ upg[v].before \subseteq dirs[upg[v].from].holds
        BY <1>3, <2>1, <3>1 DEF IInv, WayBackIsKept
      <3>3. Kept(upg[v].from)
        <4>1. upg[v].from \in Majors /\ upg[v].from \in Nat
          BY UpgTyped DEF IInv
        <4>2. v <= Latest
          BY <1>6, <3>1 DEF IInv, Chain, Upgrades
        <4>3. upg[v].from <= Tip
          BY <4>2, Versions DEF IInv
        <4> QED  BY <1>10, <1>12, <4>1, <4>3 DEF Back
      <3>4. upg'[v].before \subseteq dirs[upg[v].from].holds
        BY <1>2, <1>15, <1>16, <3>2
      <3> QED  BY <1>3, <3>2, <3>3, <3>4 DEF Kept
    <2> QED  BY <1>8, <2>1 DEF WayBackIsKept
  <1>21. Restorable'
    <2>1. CASE repo' = repo
      <3>1. At({17}) => repo.awaitingFirstBackup
        BY DEF IInv, Progress, At
      <3> QED  BY <1>11, <2>1, <3>1 DEF IInv, Restorable
    <2>2. CASE repo'.awaitingFirstBackup
      BY <2>2 DEF Restorable
    <2> QED  BY <2>1, <2>2 DEF World
  <1>22. Queue'
    <2>1. ASSUME NEW v \in Upgrades, job'[v] = "queued"
          PROVE  v = Latest' /\ upg'[v].state = "running" /\ row'.state \in {"running", "stopped"}
      <3>1. v = Latest /\ upg[v].state = "running" /\ row.state \in {"running", "stopped"} /\ job[v] = "queued"
        BY <2>1, Moved DEF IInv, Queue
      <3>2. ~At(1..17) /\ ~Back(1..6)
        BY <1>6, <3>1
      <3> QED  BY <1>3, <1>4, <1>8, <3>1, <3>2 DEF At, Back
    <2> QED  BY <2>1 DEF Queue
  <1>23. CASE At({18}) \/ Back({6})
    <2>1. run' = NoRun
      BY <1>23, Moved
    <2>2. Owner'
      BY <2>1 DEF Owner, At, Back, Forward, NoRun
    <2>3. Container' /\ Progress'
      BY <2>1 DEF Container, Progress, At, Back, Forward, NoRun
    <2> QED  BY <1>5, <1>9, <1>17, <1>19, <1>20, <1>21, <1>22, <2>2, <2>3 DEF IInv
  <1>24. CASE ~At({18}) /\ ~Back({6})
    <2>1. /\ run'.of = u /\ run'.phase = run.phase /\ run'.at = run.at + 1
          /\ run'.cid = IF At({7, 15}) \/ Back({3}) THEN Fresh ELSE run.cid
      BY <1>1, <1>24, Moved
    <2>2. At(1..17) \/ Back(1..5)
      BY <1>24, Somewhere DEF At, Back
    <2>3. /\ \A i \in 1..17 : At({i}) <=> At({i + 1})'
          /\ \A i \in 1..5 : Back({i}) <=> Back({i + 1})'
      BY <2>1, <2>2 DEF At, Back, Forward
    <2>4. Owner'
      <3>1. /\ At(1..17)' => At(1..16)
            /\ Back(1..6)' => Back(1..5)
            /\ Back(1..4)' => Back(1..3)
            /\ Back(5..6)' => Back(4..5)
        BY <2>1, <2>2 DEF At, Back, Forward
      <3>2. /\ run'.of # 0 /\ run'.cid # 0 /\ run'.phase # "off"
            /\ run'.phase = "forward" => run'.at \in 1..18
            /\ run'.phase = "rollback" => run'.at \in 1..6
        BY <1>7, <2>1, <2>2, FreshTyped DEF IInv, Owner, At, Back, Forward
      <3>3. At(1..16) \/ Back(1..5) =>
               run'.of = Latest' /\ upg'[run'.of].state = "running" /\ job'[run'.of] # "queued"
        BY <1>3, <1>6, <1>8, <2>1, Moved DEF At, Back, Forward
      <3>4. At(1..16) \/ Back(1..3) => row'.state = "upgrading"
        BY <1>4 DEF IInv, Owner, At, Back, Forward
      <3>5. Back(4..5) => row'.state \in {"running", "stopped"}
        BY <1>4 DEF IInv, Owner, At, Back, Forward
      <3> QED  BY <3>1, <3>2, <3>3, <3>4, <3>5 DEF Owner
    <2>5. Container'
      <3>1. upg'[run'.of].from = from /\ upg'[run'.of].to = to
        BY <1>2, <1>3, <2>1
      <3>2. /\ At(1..6)' => row'.major = from
            /\ At(7..17)' => row'.major = to
            /\ Back(3..6)' => row'.major = from
        <4>1. /\ At(1..6)' => At(1..5)
              /\ At(7..17)' => At(6..16)
              /\ Back(3..6)' => Back(2..5)
          BY <2>1, <2>2 DEF At, Back, Forward
        <4>2. At(1..5) => row'.major = from
          BY <1>4, <1>14 DEF At, Back, Forward
        <4>3. At(6..16) => row'.major = to
          BY <1>4, <1>13 DEF At, Back, Forward
        <4>4. Back(2..5) => row'.major = from
          BY <1>4, <1>14 DEF At, Back, Forward
        <4> QED  BY <4>1, <4>2, <4>3, <4>4
      <3>3. At(1..5)' \/ At(9..14)' \/ Back(1..2)' => run'.cid = row'.cid
        <4>1. /\ At(1..5)' => At(1..4)
              /\ At(9..14)' => At(8..13)
              /\ Back(1..2)' => Back({1})
          BY <2>1, <2>2 DEF At, Back, Forward
        <4>2. At(1..4) \/ At(9..13) \/ Back({1}) => run.cid = row.cid
          BY DEF IInv, Container, At, Back
        <4>3. At(1..4) \/ At(8..13) \/ Back({1}) => run'.cid = row'.cid
          BY <1>4, <2>1, <4>2 DEF At, Back, Forward
        <4> QED  BY <4>1, <4>3
      <3>4. At(1..2)' /\ cont'.id = row'.cid => cont'.major = from
        <4>1. At(1..2)' => At({1})
          BY <2>1, <2>2 DEF At, Back, Forward
        <4>2. At({1}) => cont' = cont /\ row'.cid = row.cid
          BY <1>4 DEF World, At, Back, Forward
        <4>3. At({1}) /\ cont.id = row.cid => cont.major = from
          BY <1>1, <1>2 DEF IInv, Container, At
        <4> QED  BY <4>1, <4>2, <4>3
      <3>5. At(3..5)' => cont'.id = run'.cid /\ cont'.major = from
        <4>1. At(3..5)' => At(2..4)
          BY <2>1, <2>2 DEF At, Back, Forward
        <4>2. At(2..4) => cont.id = run.cid /\ cont.major = from
          <5>1. At({2}) => cont.id = run.cid
            BY DEF World
          <5>2. At({2}) => run.cid = row.cid /\ (cont.id = row.cid => cont.major = from)
            BY <1>1, <1>2 DEF IInv, Container, At
          <5>3. At(3..4) => cont.id = run.cid /\ cont.major = from
            BY <1>1, <1>2 DEF IInv, Container, At
          <5> QED  BY <5>1, <5>2, <5>3 DEF At
        <4>3. At(2..4) => cont'.id = cont.id /\ cont'.major = cont.major
          BY DEF World, At
        <4>4. At(2..4) => run'.cid = run.cid
          BY <2>1 DEF At, Back, Forward
        <4> QED  BY <4>1, <4>2, <4>3, <4>4
      <3>6. At({6, 7, 15})' => cont'.id = 0
        <4>1. At({6, 7, 15})' => At({5, 6, 14})
          BY <2>1, <2>2 DEF At, Back, Forward
        <4>2. At({5, 14}) => cont'.id = 0
          BY DEF World
        <4>3. At({6}) => cont' = cont /\ cont.id = 0
          BY DEF World, IInv, Container, At
        <4> QED  BY <4>1, <4>2, <4>3 DEF At
      <3>7. At(8..14)' \/ At(16..17)' => cont'.id = run'.cid /\ cont'.major = to
        <4>1. At(8..14)' \/ At(16..17)' => At(7..13) \/ At(15..16)
          BY <2>1, <2>2 DEF At, Back, Forward
        <4>2. At({7, 15}) => cont'.id = run'.cid /\ cont'.major = to
          BY <1>13, <2>1 DEF World, At
        <4>3. At(8..13) \/ At({16}) => cont.id = run.cid /\ cont.major = to /\ run'.cid = run.cid
          BY <1>1, <1>2, <2>1 DEF IInv, Container, At, Back, Forward
        <4>4. At(8..13) \/ At({16}) => cont'.id = cont.id /\ cont'.major = cont.major
          BY DEF World, At
        <4> QED  BY <4>1, <4>2, <4>3, <4>4 DEF At
      <3>8. /\ Back(3..4)' => cont'.id # row'.cid
            /\ Back({4})' => cont'.id = run'.cid
            /\ Back(4..6)' => cont'.major = from
            /\ Back(5..6)' => cont'.id = row'.cid
        <4>1. /\ Back(3..4)' => Back({2}) \/ Back({3})
              /\ Back({4})' => Back({3})
              /\ Back(4..6)' => Back({3}) \/ Back({4}) \/ Back({5})
              /\ Back(5..6)' => Back({4}) \/ Back({5})
          BY <2>1, <2>2 DEF At, Back, Forward
        <4>2. Back({2}) => cont'.id # row.cid /\ row'.cid = row.cid
          BY <1>4 DEF World, At, Back, Forward
        <4>3. Back({3}) => /\ cont'.id = run'.cid /\ cont'.major = from
                           /\ cont'.id # row.cid /\ row'.cid = row.cid
          <5>1. Back({3}) => cont'.id = Fresh /\ cont'.major = row.major /\ run'.cid = Fresh
            BY <2>1 DEF World
          <5>2. Back({3}) => row.major = from /\ row'.cid = row.cid
            BY <1>4, <1>14 DEF At, Back, Forward
          <5> QED  BY <5>1, <5>2, FreshTyped
        <4>4. Back({4}) => cont'.major = from /\ cont'.id = row'.cid
          <5>1. Back({4}) => cont'.id = cont.id /\ cont'.major = cont.major
            BY DEF World, Back
          <5>2. Back({4}) => cont.id = run.cid /\ cont.major = from
            BY <1>1, <1>2 DEF IInv, Container, Back
          <5> QED  BY <1>4, <5>1, <5>2
        <4>5. Back({5}) => cont'.major = from /\ cont'.id = row'.cid
          <5>1. Back({5}) => cont' = cont
            BY DEF World, Back
          <5>2. Back({5}) => cont.id = row.cid /\ cont.major = from
            BY <1>1, <1>2 DEF IInv, Container, Back
          <5>3. Back({5}) => row'.cid = row.cid
            BY <1>4 DEF At, Back, Forward
          <5> QED  BY <5>1, <5>2, <5>3
        <4> QED  BY <4>1, <4>2, <4>3, <4>4, <4>5
      <3> QED  BY <3>1, <3>2, <3>3, <3>4, <3>5, <3>6, <3>7, <3>8 DEF Container
    <2>6. Progress'
      <3>1. upg'[run'.of] = upg'[u] /\ upg'[u].to = to
        BY <1>2, <1>3, <2>1
      <3>2. At(3..17)' => \A v \in Upgrades : upg'[v].before \subseteq upg'[u].before
        <4>1. At(3..17)' => At({2}) \/ At(3..16)
          BY <2>1, <2>2 DEF At, Back, Forward
        <4>2. At({2}) => \A v \in Upgrades : upg'[v].before \subseteq upg'[u].before
          <5>1. At({2}) => Tip = from
            BY <1>10 DEF At
          <5> QED  BY <1>15, <1>16, <5>1 DEF IInv, Whole
        <4>3. At(3..16) => \A v \in Upgrades : upg[v].before \subseteq upg[u].before
          BY <1>1 DEF IInv, Progress, At
        <4>4. At(3..16) => \A v \in Upgrades : upg'[v].before = upg[v].before
          BY <1>15 DEF At
        <4> QED  BY <4>1, <4>2, <4>3, <4>4
      <3>3. At(7..17)' => dirs'[to].made
        <4>1. At(7..17)' => At({6}) \/ At(7..16)
          BY <2>1, <2>2 DEF At, Back, Forward
        <4>2. At({6}) => dirs'[to].made
          BY <1>1, <1>2 DEF World
        <4>3. At(7..16) => dirs'[to].made
          BY <1>12, <1>13 DEF Kept, At, Back, Forward
        <4> QED  BY <4>1, <4>2, <4>3
      <3>4. At(12..17)' => upg'[u].before \subseteq dirs'[to].holds
        <4>1. At(12..17)' => At(11..16)
          BY <2>1, <2>2 DEF At, Back, Forward
        <4>2. At(11..16) => Kept(to) /\ upg'[u].before = upg[u].before
          BY <1>12, <1>15 DEF At, Back, Forward
        <4>3. At(11..16) => upg[u].before \subseteq dirs[to].holds
          <5>1. At({11}) => upg[u].before \subseteq dirs[cont.major].holds /\ cont.major = to
            BY <1>1, <1>2 DEF World, IInv, Container, At
          <5>2. At(12..16) => upg[u].before \subseteq dirs[to].holds
            BY <1>1, <1>2 DEF IInv, Progress, At
          <5> QED  BY <5>1, <5>2 DEF At
        <4> QED  BY <4>1, <4>2, <4>3 DEF Kept
      <3>5. At(13..17)' => repo'.awaitingFirstBackup
        <4>1. At(13..17)' => At({12}) \/ At(13..16)
          BY <2>1, <2>2 DEF At, Back, Forward
        <4>2. At(13..16) => repo' = repo /\ repo.awaitingFirstBackup
          BY DEF World, IInv, Progress, At
        <4>3. At({12}) => repo'.awaitingFirstBackup
          BY DEF World
        <4> QED  BY <4>1, <4>2, <4>3
      <3> QED  BY <3>1, <3>2, <3>3, <3>4, <3>5 DEF Progress
    <2> QED  BY <1>5, <1>9, <1>17, <1>19, <1>20, <1>21, <1>22, <2>4, <2>5, <2>6 DEF IInv
  <1> QED  BY <1>23, <1>24

\* An upgrade that failed without a roll back, or in it: the old version counts, and the
\* container that is left is of that version or not the project's.
LEMMA EndsKeeps ==
    ASSUME IInv, run.of # 0, At(1..5) \/ Back(3..4), NEW state \in {"running", "failed"},
           state = "failed" => Back(3..4), Ends("failed", state),
           UNCHANGED <<dirs, dump, cont, repo, process>>
    PROVE  IInv'
  <1>1. PICK u \in Upgrades : u = run.of
    BY Somewhere
  <1>2. PICK from \in Majors : from = upg[u].from
    BY <1>1, UpgTyped DEF IInv
  <1>3. u = Latest /\ upg[u].state = "running" /\ job[u] # "queued" /\ row.state = "upgrading"
    BY <1>1 DEF IInv, Owner, At, Back
  <1>4. u # 0 /\ u > 0
    BY DEF Upgrades
  <1>5. PICK x : x = [upg[u] EXCEPT !.state = "failed"]
    OBVIOUS
  <1>6. /\ upg' = [upg EXCEPT ![u] = x] /\ row' = [row EXCEPT !.state = state]
        /\ run' = NoRun /\ job' = [job EXCEPT ![u] = "settled"]
    BY <1>1, <1>5 DEF Ends, u0
  <1>7. /\ x \in UpgRow /\ x.state = "failed" /\ x.from = upg[u].from /\ x.to = upg[u].to
        /\ x.before = upg[u].before /\ x.discarded = upg[u].discarded
    <2>1. upg[u] \in UpgRow
      BY DEF IInv, TypeOK, UpgRow
    <2> QED  BY <1>5, <2>1 DEF UpgRow
  <1>8. upg'[u] = x /\ \A v \in Upgrades : v # u => upg'[v] = upg[v]
    BY <1>6 DEF IInv, TypeOK
  <1>9. row'.state = state /\ row'.cid = row.cid /\ row'.major = row.major
    BY <1>6 DEF IInv, TypeOK
  <1>10. TypeOK'
    <2>1. NoRun \in [of : 0..MaxUpgrades, phase : {"off", "forward", "rollback"}, at : 0..18, cid : 0..4]
      BY UpgradesAssumption DEF NoRun
    <2>2. row' \in [state : {"running", "stopped", "upgrading", "failed"}, cid : 0..4, major : Majors]
      BY <1>6 DEF IInv, TypeOK
    <2> HIDE DEF NoRun
    <2> QED  BY <1>6, <1>7, <2>1, <2>2 DEF IInv, TypeOK, UpgRow
  <1>11. \A v \in Upgrades : /\ upg'[v].from = upg[v].from /\ upg'[v].to = upg[v].to
                             /\ upg'[v].before = upg[v].before
                             /\ upg'[v].discarded = upg[v].discarded
                             /\ upg'[v].state # "absent" <=> upg[v].state # "absent"
                             /\ upg'[v].state = "succeeded" <=> upg[v].state = "succeeded"
                             /\ upg'[v].state = "running" => upg[v].state = "running"
    BY <1>3, <1>7, <1>8
  <1>12. Latest' = Latest
    <2>1. Latest' = Cardinality({v \in Upgrades : upg'[v].state # "absent"})
      BY DEF Latest
    <2>2. {v \in Upgrades : upg'[v].state # "absent"} = {v \in Upgrades : upg[v].state # "absent"}
      BY <1>11
    <2> QED  BY <2>1, <2>2 DEF Latest
  <1>13. Chain'
    BY <1>11, <1>12 DEF IInv, Chain
  <1>14. Tip = from /\ Tip' = from /\ row.major = from
    <2>1. Tip = from /\ Tip' = from
      BY <1>2, <1>3, <1>4, <1>7, <1>8, <1>12 DEF Tip
    <2> QED  BY <1>1, <1>2, <2>1 DEF IInv, Container, At, Back
  <1>15. Serving'
    <2>1. row.cid = cont.id => cont.major = from /\ state = "running"
      <3>1. CASE At(1..2)
        BY <1>1, <1>2, <3>1 DEF IInv, Container, At, Back, Forward
      <3>2. CASE At(3..5)
        BY <1>1, <1>2, <3>2 DEF IInv, Container, At, Back, Forward
      <3>3. CASE Back(3..4)
        BY <3>3 DEF IInv, Container
      <3> QED  BY <3>1, <3>2, <3>3 DEF At
    <2> QED  BY <1>9, <1>14, <2>1 DEF IInv, Serving
  <1>16. Whole' /\ Restorable'
    BY <1>11, <1>14 DEF IInv, Whole, Restorable
  <1>17. WayBackIsKept'
    BY <1>11, <1>12 DEF IInv, WayBackIsKept
  <1>18. Queue'
    <2>1. \A v \in Upgrades : job'[v] # "queued"
      BY <1>3, <1>6 DEF IInv, TypeOK, Queue
    <2> QED  BY <2>1 DEF Queue
  <1>19. Owner' /\ Container' /\ Progress'
    BY <1>6 DEF Owner, Container, Progress, At, Back, Forward, NoRun
  <1> QED  BY <1>10, <1>13, <1>15, <1>16, <1>17, <1>18, <1>19 DEF IInv

\* What throws, and where.
LEMMA ThrowsAt ==
    ASSUME IInv, CallThrows
    PROVE  /\ run.of # 0
           /\ Forward => run.at \in 1..17
           /\ ~Forward => Back(3..4)
           /\ Call = "adopt" => At({12})
  <1>1. run.of # 0 /\ (Cancelled \/ ~Tolerated)
    BY DEF CallThrows
  <1>2. CASE Forward
    <2>1. run.at \in 1..18
      BY <1>1, <1>2, Somewhere
    <2>2. run.at # 18
      <3>1. ASSUME run.at = 18 PROVE FALSE
        <4>1. Call = "rmdump"
          BY <1>2, <2>1, <3>1, ForwardCalls
        <4> QED  BY <1>1, <3>1, <4>1 DEF Cancelled, Tolerated, Opening
      <3> QED  BY <3>1
    <2> QED  BY <1>1, <1>2, <2>1, <2>2, ForwardCalls DEF At
  <1>3. CASE ~Forward
    <2>1. run.phase = "rollback" /\ run.at \in 1..6
      BY <1>1, <1>3, Somewhere
    <2>2. Call \notin {"stop", "remove", "rmdump", "rmscrap"}
      BY <1>1, <1>3 DEF Cancelled, Tolerated
    <2> QED  BY <1>1, <1>3, <2>1, <2>2, RollbackCallsAre DEF Back
  <1> QED  BY <1>2, <1>3

LEMMA ThrowsKeeps ==
    ASSUME IInv, CallThrows
    PROVE  IInv'
  <1>1. UNCHANGED <<dirs, dump, cont, process>> /\ run.of # 0
    BY DEF CallThrows
  <1>2. repo' = repo \/ (Call = "adopt" /\ repo' = [repo EXCEPT !.version = 0, !.backups = {}])
    BY DEF CallThrows
  <1>3. CASE Forward /\ Step < 4 /\ Ends("failed", "running")
    <2>1. At(1..5)
      <3>1. run.at \in 1..17
        BY <1>3, ThrowsAt
      <3>2. Step \in Int
        BY <3>1 DEF Step, StepAt
      <3>3. ~(Step >= 4)
        BY <1>3, <3>2
      <3> QED  BY <1>3, <3>1, <3>3, ForwardCalls DEF At
    <2>2. repo' = repo
      BY <1>2, <2>1, ThrowsAt DEF At
    <2> QED  BY <1>1, <1>3, <2>1, <2>2, EndsKeeps
  <1>4. CASE ~Forward /\ Ends("failed", "failed")
    <2>1. Back(3..4)
      BY <1>4, ThrowsAt
    <2>2. repo' = repo
      BY <1>2, <1>4, ThrowsAt DEF At
    <2> QED  BY <1>1, <1>4, <2>1, <2>2, EndsKeeps
  <1>5. CASE /\ Forward /\ Step >= 4
             /\ run' = [run EXCEPT !.phase = "rollback", !.at = 1, !.cid = row.cid]
             /\ UNCHANGED <<row, upg, job>>
    <2>1. At(1..17)
      BY <1>5, ThrowsAt DEF At
    <2>2. /\ run'.of = run.of /\ run'.phase = "rollback" /\ run'.at = 1 /\ run'.cid = row.cid
          /\ run' \in [of : 0..MaxUpgrades, phase : {"off", "forward", "rollback"}, at : 0..18, cid : 0..4]
      <3>1. /\ run \in [of : 0..MaxUpgrades, phase : {"off", "forward", "rollback"}, at : 0..18, cid : 0..4]
            /\ row.cid \in 0..4
        BY DEF IInv, TypeOK
      <3>2. PICK cid \in 0..4 : cid = row.cid
        BY <3>1
      <3>3. PICK r : r = run
        OBVIOUS
      <3>4. run' = [r EXCEPT !.phase = "rollback", !.at = 1, !.cid = cid]
        BY <1>5, <3>2, <3>3
      <3>5. r \in [of : 0..MaxUpgrades, phase : {"off", "forward", "rollback"}, at : 0..18, cid : 0..4]
        BY <3>1, <3>3
      <3>6. run'.of = r.of /\ run'.phase = "rollback" /\ run'.at = 1 /\ run'.cid = cid
        BY <3>4, <3>5
      <3>7. run' \in [of : 0..MaxUpgrades, phase : {"off", "forward", "rollback"}, at : 0..18, cid : 0..4]
        <4>1. run' = [of |-> r.of, phase |-> "rollback", at |-> 1, cid |-> cid]
          BY <3>4, <3>5
        <4>2. r.of \in 0..MaxUpgrades /\ 1 \in 0..18
          BY <3>5
        <4> QED  BY <3>2, <4>1, <4>2
      <3> QED  BY <3>2, <3>3, <3>6, <3>7
    <2>3. /\ repo' \in [version : Majors \cup {0}, backups : SUBSET Majors, awaitingFirstBackup : BOOLEAN]
          /\ repo' = repo \/ repo'.version = 0
      BY <1>2 DEF IInv, TypeOK
    <2>4. TypeOK'
      BY <1>1, <1>5, <2>2, <2>3 DEF IInv, TypeOK
    <2>5. Latest' = Latest /\ Chain' /\ Tip' = Tip
      BY <1>5, Retold DEF IInv
    <2>6. Serving' /\ Whole' /\ WayBackIsKept' /\ Queue'
      BY <1>1, <1>5, <2>5 DEF IInv, Serving, Whole, WayBackIsKept, Queue
    <2>7. Restorable'
      BY <2>3, <2>5 DEF IInv, Restorable
    <2>8. Owner'
      <3>1. run.of = Latest /\ upg[run.of].state = "running" /\ job[run.of] # "queued" /\ row.state = "upgrading"
        BY <2>1 DEF IInv, Owner
      <3> QED  BY <1>1, <1>5, <2>2, <2>5, <3>1 DEF IInv, Serving, Owner, At, Back, Forward
    <2>9. Container' /\ Progress'
      BY <1>5, <2>2 DEF Container, Progress, At, Back, Forward
    <2> QED  BY <2>4, <2>5, <2>6, <2>7, <2>8, <2>9 DEF IInv
  <1> QED  BY <1>3, <1>4, <1>5 DEF CallThrows

\* The process dies: whatever its call has done, no other handler goes on from there.
LEMMA DiesKeeps ==
    ASSUME IInv, Dies
    PROVE  IInv'
  <1>1. /\ run.of # 0 /\ run' = NoRun /\ job' = [job EXCEPT ![run.of] = "swept"]
        /\ process' = "up" /\ UNCHANGED <<row, upg>>
    BY DEF Dies, u0
  <1>2. Latest' = Latest /\ Chain' /\ Tip' = Tip
    BY <1>1, Retold DEF IInv
  <1>3. run.of \in Upgrades
    BY <1>1, Somewhere
  <1>4. Queue'
    BY <1>1, <1>2, <1>3 DEF IInv, TypeOK, Queue
  <1>5. Owner' /\ Container' /\ Progress'
    BY <1>1 DEF Owner, Container, Progress, At, Back, Forward, NoRun
  <1>6. run' \in [of : 0..MaxUpgrades, phase : {"off", "forward", "rollback"}, at : 0..18, cid : 0..4]
    BY <1>1, UpgradesAssumption DEF NoRun
  <1>7. CASE UNCHANGED <<dirs, dump, cont, repo>>
    <2>1. TypeOK'
      BY <1>1, <1>3, <1>6, <1>7 DEF IInv, TypeOK
    <2>2. Serving' /\ Whole' /\ WayBackIsKept' /\ Restorable'
      BY <1>1, <1>2, <1>7 DEF IInv, Serving, Whole, WayBackIsKept, Restorable
    <2> QED  BY <1>2, <1>4, <1>5, <2>1, <2>2 DEF IInv
  <1>8. CASE Succeeds /\ Acts
    <2>1. World
      BY <1>1, <1>8, Returned
    <2>2. TypeOK'
      BY <1>1, <1>3, <1>6, <2>1 DEF IInv, TypeOK, World
    <2>3. Serving'
      <3>1. row.state # "upgrading" => At({18}) \/ Back({5, 6})
        BY <1>1, Somewhere DEF IInv, Owner, At, Back
      <3>2. At({18}) \/ Back({5, 6}) => cont' = cont
        BY <2>1 DEF World, At
      <3> QED  BY <1>1, <1>2, <3>1, <3>2 DEF IInv, Serving
    <2>4. ASSUME NEW m \in Majors, m <= Tip PROVE Kept(m)
      <3>1. Kept(m) \/ (Back({5}) /\ m = upg[run.of].to)
        BY <2>1 DEF World
      <3>2. ASSUME Back({5}), m = upg[run.of].to PROVE FALSE
        <4>1. run.of = Latest /\ upg[run.of].state = "running" /\ run.of <= Latest
          BY <1>3, <3>2 DEF IInv, Owner, Back, Upgrades
        <4>2. Tip = upg[run.of].from /\ upg[run.of].from < upg[run.of].to
          BY <1>1, <1>3, <4>1 DEF IInv, Tip, Chain
        <4>3. upg[run.of].from \in Nat /\ upg[run.of].to \in Nat
          BY <1>3, UpgTyped DEF IInv
        <4> QED  BY <2>4, <3>2, <4>2, <4>3
      <3> QED  BY <3>1, <3>2
    <2>5. Tip \in Majors /\ Tip <= Tip
      BY Versions DEF IInv
    <2>6. Whole'
      BY <1>1, <1>2, <2>4, <2>5 DEF IInv, Whole, Kept
    <2>7. WayBackIsKept'
      <3>1. ASSUME NEW v \in Upgrades, v = Latest \/ upg[v].state = "succeeded" PROVE Kept(upg[v].from)
        <4>1. v <= Latest
          BY <3>1 DEF IInv, Chain, Upgrades
        <4>2. upg[v].from <= Tip /\ upg[v].from \in Majors
          BY <4>1, Versions, UpgTyped DEF IInv
        <4> QED  BY <2>4, <4>2
      <3> QED  BY <1>1, <1>2, <3>1 DEF IInv, WayBackIsKept, Kept
    <2>8. Restorable'
      BY <1>2, <2>1 DEF IInv, World, Restorable
    <2> QED  BY <1>2, <1>4, <1>5, <2>2, <2>3, <2>6, <2>7, <2>8 DEF IInv
  <1> QED  BY <1>7, <1>8 DEF Dies

-----------------------------------------------------------------------------
(* The theorems. *)

LEMMA Initially == Init => IInv
  <1> SUFFICES ASSUME Init PROVE IInv
    OBVIOUS
  <1>1. Lowest \in Majors /\ Lowest # 0
    BY LowestTyped, MajorsAssumption
  <1>2. TypeOK
    <2>1. NoUpgrade \in UpgRow /\ NoRun \in [of : 0..MaxUpgrades, phase : {"off", "forward", "rollback"},
                                             at : 0..18, cid : 0..4]
      BY <1>1, UpgradesAssumption DEF NoUpgrade, UpgRow, NoRun
    <2> HIDE DEF NoUpgrade, NoRun, Lowest
    <2> QED  BY <1>1, <2>1 DEF Init, TypeOK, UpgRow
  <1>3. Latest = 0
    <2>1. {u \in Upgrades : upg[u].state # "absent"} = {}
      BY DEF Init, NoUpgrade
    <2> QED  BY <2>1, FS_EmptySet DEF Latest
  <1>4. Chain
    BY <1>3, UpgradesAssumption DEF Init, Chain, Upgrades, NoUpgrade
  <1>5. Tip = Lowest
    BY <1>3 DEF Init, Tip
  <1> HIDE DEF Lowest
  <1>6. Serving
    BY <1>3, <1>5 DEF Init, Serving
  <1>7. Whole
    BY <1>1, <1>5 DEF Init, Whole, NoUpgrade
  <1>8. WayBackIsKept
    BY <1>3 DEF Init, WayBackIsKept, NoUpgrade, Upgrades
  <1>9. Restorable /\ Queue
    BY <1>5 DEF Init, Restorable, Queue
  <1>10. Owner /\ Container /\ Progress
    BY DEF Init, Owner, Container, Progress, At, Back, Forward, NoRun
  <1> QED  BY <1>2, <1>4, <1>6, <1>7, <1>8, <1>9, <1>10 DEF IInv

LEMMA ReturnsKeeps ==
    ASSUME IInv, ~Sticky, CallReturns \/ CallTolerated
    PROVE  World /\ IInv'
  <1>1. CASE CallReturns
    BY <1>1, Returned, ProceedsKeeps DEF CallReturns
  <1>2. CASE CallTolerated
    <2>1. World
      BY <1>2, Swallowed
    <2> QED  BY <1>2, <2>1, ProceedsKeeps DEF CallTolerated
  <1> QED  BY <1>1, <1>2

LEMMA Inductive ==
    ASSUME ~Sticky, IInv, [Next]_vars
    PROVE  IInv'
  <1>1. job \in [Upgrades -> {"absent", "queued", "running", "cancelRequested", "settled",
                              "cancelled", "swept"}] /\ process \in {"up", "stopping"}
    BY DEF IInv, TypeOK
  <1>2. CASE UNCHANGED vars
    BY <1>1, <1>2, AloneKeeps DEF vars
  <1>3. ASSUME NEW to \in Majors, Start(to) PROVE IInv'
    BY <1>3, StartKeeps
  <1>4. ASSUME NEW u \in Upgrades, RequestCancel(u) PROVE IInv'
    BY <1>1, <1>4, AloneKeeps DEF RequestCancel
  <1>5. ASSUME NEW u \in Upgrades, DiscardPrevious(u) \/ Claim(u) PROVE IInv'
    BY <1>5, DiscardKeeps, ClaimKeeps
  <1>6. ASSUME NEW up \in BOOLEAN, SetRunning(up) PROVE IInv'
    BY <1>6, SetRunningKeeps
  <1>7. ASSUME NEW o \in Objects, Commit(o) PROVE IInv'
    BY <1>7, CommitKeeps
  <1>8. CASE BackUp
    BY <1>8, BackUpKeeps
  <1>9. CASE Handler
    BY <1>9, ReturnsKeeps, ThrowsKeeps DEF Handler
  <1>10. CASE Dies
    BY <1>10, DiesKeeps
  <1>11. CASE Shutdown \/ Restart
    BY <1>1, <1>11, AloneKeeps DEF Shutdown, Restart
  <1> QED  BY <1>2, <1>3, <1>4, <1>5, <1>6, <1>7, <1>8, <1>9, <1>10, <1>11 DEF Next

LEMMA Invariantly == ASSUME ~Sticky PROVE Spec => []IInv
  <1>1. IInv /\ [Next]_vars => IInv'
    BY Inductive
  <1> QED  BY <1>1, Initially, PTL DEF Spec

\* A running or stopped project is on a directory that holds everything recorded of it before any
\* upgrade, through any failures, deaths, cancellations and repeated upgrades (project-upgrade.ts),
\* as long as Docker removes a container when it is told to.
THEOREM DataSurvives == ASSUME ~Sticky PROVE Spec => []RunningIsWhole
  <1>1. IInv => RunningIsWhole
    BY DEF IInv, Serving, Whole, RunningIsWhole
  <1> QED  BY <1>1, Invariantly, PTL

\* The directory an upgrade started from is kept until somebody discards it after a success.
THEOREM WayBackStays == ASSUME ~Sticky PROVE Spec => []WayBackIsKept
  <1>1. IInv => WayBackIsKept
    BY DEF IInv
  <1> QED  BY <1>1, Invariantly, PTL

\* A running project that claims a recovery point has one of its own version (adoptRepository).
THEOREM RecoveryIsPossible == ASSUME ~Sticky PROVE Spec => []RecoveryPointIsReal
  <1>1. IInv => RecoveryPointIsReal
    BY DEF IInv, Serving, Restorable, RecoveryPointIsReal
  <1> QED  BY <1>1, Invariantly, PTL

\* What is recorded of an upgrade is what became of the project.
LEMMA OutcomeStep ==
    ASSUME ~Sticky, IInv, [Next]_vars, NEW u \in Upgrades, upg'[u].state # upg[u].state
    PROVE  /\ upg'[u].state = "rolled_back" =>
                 row'.major = upg[u].from /\ cont'.major = upg[u].from /\ row'.cid = cont'.id
           /\ upg'[u].state = "succeeded" =>
                 row'.major = upg[u].to /\ cont'.major = upg[u].to /\ row'.cid = cont'.id
  <1>1. CASE UNCHANGED upg
    BY <1>1
  <1>2. ASSUME NEW to \in Majors, Start(to)
        PROVE  upg'[u].state \notin {"rolled_back", "succeeded"} \/ upg'[u].state = upg[u].state
    <2>1. PICK new : new = [NoUpgrade EXCEPT !.state = "running", !.from = row.major, !.to = to]
      OBVIOUS
    <2>2. new.state = "running"
      BY <2>1 DEF NoUpgrade
    <2>3. upg' = [upg EXCEPT ![Latest + 1] = new]
      BY <1>2, <2>1 DEF Start
    <2> QED  BY <2>2, <2>3 DEF IInv, TypeOK
  <1>3. ASSUME NEW v \in Upgrades, DiscardPrevious(v) PROVE upg'[u].state = upg[u].state
    <2>1. upg' = [upg EXCEPT ![v] = [upg[v] EXCEPT !.discarded = TRUE]]
      BY <1>3 DEF DiscardPrevious
    <2>2. [upg[v] EXCEPT !.discarded = TRUE].state = upg[v].state
      BY DEF IInv, TypeOK
    <2> QED  BY <2>1, <2>2 DEF IInv, TypeOK
  <1>4. CASE CallThrows
    <2>1. CASE UNCHANGED upg
      BY <2>1
    <2>2. CASE \E s : Ends("failed", s)
      <3>1. upg' = [upg EXCEPT ![run.of] = [upg[run.of] EXCEPT !.state = "failed"]]
        BY <2>2 DEF Ends, u0
      <3>2. run.of \in Upgrades
        BY <1>4, Somewhere DEF CallThrows
      <3>3. [upg[run.of] EXCEPT !.state = "failed"].state = "failed"
        BY <3>2 DEF IInv, TypeOK
      <3> QED  BY <3>1, <3>2, <3>3 DEF IInv, TypeOK
    <2> QED  BY <1>4, <2>1, <2>2 DEF CallThrows
  <1>5. CASE CallReturns \/ CallTolerated
    <2>1. World /\ Proceeds /\ run.of # 0
      BY <1>5, ReturnsKeeps DEF CallReturns, CallTolerated
    <2>2. PICK k \in Upgrades : k = run.of
      BY <2>1, Somewhere
    <2>3. u = k /\ upg'[u].state = IF At({17}) THEN "succeeded"
                                   ELSE IF Back({6}) THEN "rolled_back" ELSE upg[u].state
      BY <2>1, <2>2, UpgWritten DEF Proceeds
    <2>4. CASE At({17})
      <3>1. row'.cid = run.cid /\ row'.major = row.major
        BY <2>1, <2>4, RowWritten DEF Proceeds, At, Back, Forward
      <3>2. cont' = cont /\ cont.id = run.cid /\ cont.major = upg[u].to /\ row.major = upg[u].to
        BY <2>1, <2>2, <2>3, <2>4 DEF World, IInv, Container, At
      <3> QED  BY <2>3, <2>4, <3>1, <3>2
    <2>5. CASE Back({6})
      <3>1. row'.cid = row.cid /\ row'.major = row.major
        BY <2>1, <2>5, RowWritten DEF Proceeds, At, Back, Forward
      <3>2. cont' = cont /\ cont.id = row.cid /\ cont.major = upg[u].from /\ row.major = upg[u].from
        BY <2>1, <2>2, <2>3, <2>5 DEF World, IInv, Container, Back
      <3> QED  BY <2>3, <2>5, <3>1, <3>2 DEF At, Back, Forward
    <2> QED  BY <2>3, <2>4, <2>5
  <1> QED
    BY <1>1, <1>2, <1>3, <1>4, <1>5
    DEF Next, Handler, RequestCancel, Claim, SetRunning, Commit, BackUp, Dies, Shutdown, Restart, vars

\* An upgrade recorded as rolled back left the project on the old directory with a container of
\* its own, one recorded as succeeded on the new one (project-upgrade.ts, rollback).
THEOREM OutcomesAreTrue == ASSUME ~Sticky PROVE Spec => OutcomeIsTrue
  <1>1. IInv /\ [Next]_vars =>
          [\A u \in Upgrades : upg'[u].state # upg[u].state =>
              /\ upg'[u].state = "rolled_back" =>
                    row'.major = upg[u].from /\ cont'.major = upg[u].from /\ row'.cid = cont'.id
              /\ upg'[u].state = "succeeded" =>
                    row'.major = upg[u].to /\ cont'.major = upg[u].to /\ row'.cid = cont'.id]_vars
    BY OutcomeStep
  <1> QED  BY <1>1, Invariantly, PTL DEF Spec, OutcomeIsTrue
============================================================================
