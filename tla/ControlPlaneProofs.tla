------------------------- MODULE ControlPlaneProofs -------------------------
(***************************************************************************)
(* Proofs about three independent parts of the control plane: Recovery,    *)
(* what is retired is gone and a copy stands on its own; Instance, a       *)
(* backup of the control plane that was taken is followed by others, never *)
(* lost; and Studio, the edits of a row that a user is told of are real,   *)
(* and paging to the end shows every row that stayed as it was once.       *)
(***************************************************************************)
EXTENDS Recovery, Instance, Studio, FiniteSetTheorems, SequenceTheorems, TLAPS

-----------------------------------------------------------------------------
(* Recovery: the inductive invariant. *)

ProjectRow == [state : {"absent", "creating", "running", "stopped", "failed", "deleting"},
               ref : Projects, cid : {0} \cup Ids, method : {"latest", "late", "cow"},
               sourceRepo : BOOLEAN, expires : BOOLEAN, deleted : BOOLEAN]
Container == [id : {0} \cup Ids, up : BOOLEAN, port : Projects, src : BOOLEAN]
JobRow == [state : {"none", "queued", "running", "succeeded", "failed", "cancelled"},
           attempts : Nat, steps : 0..6, cancel : BOOLEAN]
Handler == [at : 0..17, cid : {0} \cup Ids, old : {0} \cup Ids, ref : Projects, again : BOOLEAN]

DataStates == {"none", "empty", "latest", "late", "database"}
RepoStates == {"none", "empty", "stanza", "backup"}

\* TypeOK with its sets by name.
Types ==
    /\ store \in {"volume", "cow"}
    /\ row \in [Projects -> ProjectRow]
    /\ data \in [Projects -> DataStates] /\ repo \in [Projects -> RepoStates] /\ net \subseteq Projects
    /\ cont \in [Projects -> Container]
    /\ job \in [Jobs -> JobRow] /\ run \in [Jobs -> Handler]
    /\ promo \in 0..12 /\ process \in {"up", "stopping"} /\ faults \in 0..MaxFaults

\* The last call of a job that a handler may be at, and the most steps it has behind it when it
\* resumes.
Furthest(j) == IF j # Copying THEN 5 ELSE IF Branching THEN 10 ELSE 17
MostSteps(j) == IF j # Copying THEN 3 ELSE IF Branching THEN 4 ELSE 5

\* The handler of a job runs while its row says so and is inside its path.
RunOf(j) ==
    /\ run[j].at # 0 <=> job[j].state = "running"
    /\ job[j].state = "running" => job[j].attempts > 0
    /\ job[j].state = "none" => job[j].steps = 0
    /\ run[j].again => run[j].at # 0
    /\ run[j].at <= Furthest(j)
    /\ job[j].steps <= MostSteps(j)

RunsInv == \A j \in Jobs : RunOf(j)

\* The copy's row is there from the request on; promote() runs after the swap only.
CopyRow ==
    /\ row[Source].state # "absent"
    /\ row[Restored].state = "absent" <=> job[Copying].state = "none"
    /\ promo # 0 => Swapped
    /\ Swapped => row[Restored].state # "absent"

\* Until then every project has its own ref.
OwnRefs ==
    /\ promo = 0
    /\ \A p \in Projects : row[p].ref = p
    /\ \A j \in Jobs : run[j].at # 0 => run[j].ref = Of(j)

\* A deletion ends a project's life on its row, and does not run beside the copy of that project.
Deleting ==
    /\ \A p \in Projects : job[p].state # "none" => row[p].state = "deleting"
    /\ \A p \in Projects : row[p].deleted => job[p].state = "succeeded"
    /\ job[Restored].state # "none" => ~Unsettled(Copying)
    /\ Unsettled(Copying) => row[Restored].state = "creating"

\* What is gone after each call and each checkpoint of a deletion.
Cleared(p) ==
    /\ run[p].at = 4 => data[p] = "none"
    /\ job[p].steps = 3 \/ run[p].at = 5 \/ row[p].deleted =>
          cont[p].id = 0 /\ data[p] = "none" /\ repo[p] \in {"none", "empty"}

\* The steps that a restore has behind it at each call, unless it has fallen back.
Behind(at) == CASE at \in 1..3 -> 0 [] at \in 4..5 -> 1 [] at \in 6..8 -> 2 [] at = 9 -> 3
                [] at \in 10..11 -> 4 [] at \in 12..15 -> 5 [] OTHER -> 6

Placed ==
    /\ run[Copying].again => job[Copying].steps = 3 /\ run[Copying].at \in 4..9 \cup 16..17
    /\ ~run[Copying].again /\ run[Copying].at # 0 => job[Copying].steps = Behind(run[Copying].at)

\* What a restore has made and recorded: the row says that the source's repository is mounted
\* from the first container on until the restore has succeeded.
Done == job[Copying].state = "succeeded"
Progress ==
    /\ ~Done /\ job[Copying].steps >= 3 => row[Restored].sourceRepo
    /\ ~Done /\ row[Restored].cid # 0 => row[Restored].sourceRepo
    /\ ~Done /\ row[Restored].state \in {"running", "stopped"} => row[Restored].cid # 0
    /\ Unsettled(Copying) /\ job[Copying].steps >= 4 => data[Restored] = "database"
    /\ Unsettled(Copying) /\ job[Copying].steps = 5 => repo[Restored] = "backup"
    /\ run[Copying].at = 15 => ~cont[Restored].src
    /\ Done /\ job[Restored].state = "none" =>
          data[Restored] = "database" /\ repo[Restored] = "backup" /\ ~cont[Restored].src

\* A branch made by snapshot never mounts the source's repository.
Copied ==
    IF row[Restored].state = "absent" THEN ~cont[Restored].src /\ row[Restored].cid = 0
    ELSE IF Branching THEN ~cont[Restored].src
    ELSE Placed /\ Progress

Unswapped == OwnRefs /\ Deleting /\ (\A p \in Projects : Cleared(p)) /\ Copied
RecoveryInv == Types /\ RunsInv /\ CopyRow /\ (~Swapped => Unswapped)

-----------------------------------------------------------------------------
(* Recovery: the calls. *)

\* The two projects and the copy's job are three different things.
LEMMA Names ==
    /\ Source # Restored /\ Source # Copying /\ Restored # Copying
    /\ Projects = {Source, Restored} /\ Jobs = {Source, Restored, Copying}
    /\ \A p \in Projects : p \in Jobs /\ p # Copying /\ Of(p) = p
    /\ Of(Copying) = Restored /\ Other(Source) = Restored /\ Other(Restored) = Source
  <1>1. ASSUME NEW a, NEW b, Jobs = {a, b} PROVE FALSE
    <2>1. IsFiniteSet({a}) /\ Cardinality({a}) = 1
      BY FS_Singleton
    <2>2. Cardinality({a} \cup {b}) = Cardinality({a}) \/ Cardinality({a} \cup {b}) = Cardinality({a}) + 1
      BY <2>1, FS_AddElement
    <2>3. {a} \cup {b} = Jobs
      BY <1>1
    <2> QED  BY <2>1, <2>2, <2>3, ProjectsAssumption
  <1>2. Jobs = {Source, Restored, Copying}
    BY DEF Jobs, Projects
  <1>3. Source # Restored
    <2> SUFFICES ASSUME Source = Restored PROVE FALSE
      OBVIOUS
    <2>1. Jobs = {Source, Copying}
      BY <1>2
    <2> QED  BY <2>1, <1>1
  <1>4. Source # Copying
    <2> SUFFICES ASSUME Source = Copying PROVE FALSE
      OBVIOUS
    <2>1. Jobs = {Source, Restored}
      BY <1>2
    <2> QED  BY <2>1, <1>1
  <1>5. Restored # Copying
    <2> SUFFICES ASSUME Restored = Copying PROVE FALSE
      OBVIOUS
    <2>1. Jobs = {Source, Restored}
      BY <1>2
    <2> QED  BY <2>1, <1>1
  <1> QED  BY <1>2, <1>3, <1>4, <1>5 DEF Projects, Of, Other

RestorePath == RestoreCalls \o <<"stop", "remove">>

LEMMA RestoreTable ==
    /\ Len(RestoreCalls) = 15
    /\ RestorePath[1] = "data" /\ RestorePath[2] = "repo" /\ RestorePath[3] = "net"
    /\ RestorePath[4] = "chown" /\ RestorePath[5] = "files" /\ RestorePath[6] = "list"
    /\ RestorePath[7] = "create" /\ RestorePath[8] = "start" /\ RestorePath[9] = "await"
    /\ RestorePath[10] = "own" /\ RestorePath[11] = "backup" /\ RestorePath[12] = "stop"
    /\ RestorePath[13] = "remove" /\ RestorePath[14] = "create" /\ RestorePath[15] = "start"
    /\ RestorePath[16] = "stop" /\ RestorePath[17] = "remove"
  BY DEF RestoreCalls, RestorePath

LEMMA OtherTables ==
    /\ BranchCalls[1] = "checkpoint" /\ BranchCalls[2] = "snapshot" /\ BranchCalls[3] = "repo"
    /\ BranchCalls[4] = "net" /\ BranchCalls[5] = "list" /\ BranchCalls[6] = "create"
    /\ BranchCalls[7] = "start" /\ BranchCalls[8] = "await" /\ BranchCalls[9] = "own"
    /\ BranchCalls[10] = "backup" /\ Len(BranchCalls) = 10
    /\ DeleteCalls[1] = "stop" /\ DeleteCalls[2] = "remove" /\ DeleteCalls[3] = "rmdata"
    /\ DeleteCalls[4] = "rmrepo" /\ DeleteCalls[5] = "rmnet" /\ Len(DeleteCalls) = 5
  BY DEF BranchCalls, DeleteCalls

\* The calls of each handler, by number.
LEMMA RestoreCall ==
    ASSUME ~Branching, run[Copying].at \in 1..17
    PROVE  LET at == run[Copying].at  c == Call(Copying) IN
           /\ (at = 1 => c = "data") /\ (at = 2 => c = "repo") /\ (at = 3 => c = "net")
           /\ (at = 4 => c = "chown") /\ (at = 5 => c = "files") /\ (at = 6 => c = "list")
           /\ (at = 7 => c = "create") /\ (at = 8 => c = "start") /\ (at = 9 => c = "await")
           /\ (at = 10 => c = "own") /\ (at = 11 => c = "backup") /\ (at = 12 => c = "stop")
           /\ (at = 13 => c = "remove") /\ (at = 14 => c = "create") /\ (at = 15 => c = "start")
           /\ (at = 16 => c = "stop") /\ (at = 17 => c = "remove")
  <1>1. Call(Copying) = RestorePath[run[Copying].at]
    BY DEF Call, Calls, RestorePath
  <1>2. PICK i \in 1..17 : i = run[Copying].at
    OBVIOUS
  <1>3. PICK c : c = Call(Copying)
    OBVIOUS
  <1>4. c = RestorePath[i]
    BY <1>1, <1>2, <1>3
  <1>5. /\ (i = 1 => c = "data") /\ (i = 2 => c = "repo") /\ (i = 3 => c = "net")
        /\ (i = 4 => c = "chown") /\ (i = 5 => c = "files") /\ (i = 6 => c = "list")
        /\ (i = 7 => c = "create") /\ (i = 8 => c = "start") /\ (i = 9 => c = "await")
        /\ (i = 10 => c = "own") /\ (i = 11 => c = "backup") /\ (i = 12 => c = "stop")
        /\ (i = 13 => c = "remove") /\ (i = 14 => c = "create") /\ (i = 15 => c = "start")
        /\ (i = 16 => c = "stop") /\ (i = 17 => c = "remove")
    BY <1>4, RestoreTable
  <1> QED  BY <1>2, <1>3, <1>5

LEMMA BranchCall ==
    ASSUME Branching, run[Copying].at \in 1..10
    PROVE  LET at == run[Copying].at  c == Call(Copying) IN
           /\ (at = 1 => c = "checkpoint") /\ (at = 2 => c = "snapshot") /\ (at = 3 => c = "repo")
           /\ (at = 4 => c = "net") /\ (at = 5 => c = "list") /\ (at = 6 => c = "create")
           /\ (at = 7 => c = "start") /\ (at = 8 => c = "await") /\ (at = 9 => c = "own")
           /\ (at = 10 => c = "backup")
  <1>1. Call(Copying) = BranchCalls[run[Copying].at]
    BY DEF Call, Calls
  <1> QED  BY <1>1, OtherTables

LEMMA DeleteCall ==
    ASSUME NEW p \in Projects, run[p].at \in 1..5
    PROVE  LET at == run[p].at  c == Call(p) IN
           /\ (at = 1 => c = "stop") /\ (at = 2 => c = "remove") /\ (at = 3 => c = "rmdata")
           /\ (at = 4 => c = "rmrepo") /\ (at = 5 => c = "rmnet")
  <1>1. Call(p) = DeleteCalls[run[p].at]
    BY Names DEF Call, Calls
  <1> QED  BY <1>1, OtherTables

\* The last call, and the steps completed after each.
LEMMA LastCall ==
    /\ \A p \in Projects : PathEnd(p) = 5
    /\ PathEnd(Copying) = IF Branching THEN 10 ELSE 15
  <1>1. Len(BranchCalls) = 10 /\ Len(DeleteCalls) = 5
    BY OtherTables
  <1> HIDE DEF BranchCalls, DeleteCalls
  <1>2. \A p \in Projects : Calls(p) = DeleteCalls /\ PathEnd(p) = Len(DeleteCalls)
    BY Names DEF PathEnd, Calls
  <1>3. PathEnd(Copying) = IF Branching THEN Len(BranchCalls) ELSE 15
    BY DEF PathEnd, Calls, DetachAt
  <1> QED  BY <1>1, <1>2, <1>3

LEMMA StepTables ==
    /\ \A i \in 1..15 : RestoreSteps[i] = CASE i = 3 -> 1 [] i = 5 -> 2 [] i = 8 -> 3 [] i = 9 -> 4
                                            [] i = 11 -> 5 [] i = 15 -> 6 [] OTHER -> 0
    /\ \A i \in 1..10 : BranchSteps[i] = CASE i = 1 -> 1 [] i = 4 -> 2 [] i = 7 -> 3 [] i = 8 -> 4
                                           [] i = 10 -> 5 [] OTHER -> 0
    /\ \A i \in 1..5 : DeleteSteps[i] = CASE i = 1 -> 1 [] i = 2 -> 2 [] i = 4 -> 3 [] i = 5 -> 4
                                          [] OTHER -> 0
  <1>1. /\ RestoreSteps[1] = 0 /\ RestoreSteps[2] = 0 /\ RestoreSteps[3] = 1 /\ RestoreSteps[4] = 0
        /\ RestoreSteps[5] = 2 /\ RestoreSteps[6] = 0 /\ RestoreSteps[7] = 0 /\ RestoreSteps[8] = 3
        /\ RestoreSteps[9] = 4 /\ RestoreSteps[10] = 0 /\ RestoreSteps[11] = 5 /\ RestoreSteps[12] = 0
        /\ RestoreSteps[13] = 0 /\ RestoreSteps[14] = 0 /\ RestoreSteps[15] = 6
    BY DEF RestoreSteps
  <1>2. /\ BranchSteps[1] = 1 /\ BranchSteps[2] = 0 /\ BranchSteps[3] = 0 /\ BranchSteps[4] = 2
        /\ BranchSteps[5] = 0 /\ BranchSteps[6] = 0 /\ BranchSteps[7] = 3 /\ BranchSteps[8] = 4
        /\ BranchSteps[9] = 0 /\ BranchSteps[10] = 5
    BY DEF BranchSteps
  <1>3. /\ DeleteSteps[1] = 1 /\ DeleteSteps[2] = 2 /\ DeleteSteps[3] = 0 /\ DeleteSteps[4] = 3
        /\ DeleteSteps[5] = 4
    BY DEF DeleteSteps
  <1> QED  BY <1>1, <1>2, <1>3
\* Where an attempt resumes, by the steps that are checkpointed.
LEMMA EntryOf ==
    /\ \A p \in Projects : /\ Entry(p, 0) = 1 /\ Entry(p, 1) = 2
                           /\ Entry(p, 2) = 3 /\ Entry(p, 3) = 5
    /\ ~Branching => /\ Entry(Copying, 0) = 1 /\ Entry(Copying, 1) = 4 /\ Entry(Copying, 2) = 6
                     /\ Entry(Copying, 3) = 9 /\ Entry(Copying, 4) = 10 /\ Entry(Copying, 5) = 12
    /\ Branching => /\ Entry(Copying, 0) = 1 /\ Entry(Copying, 1) = 2 /\ Entry(Copying, 2) = 5
                    /\ Entry(Copying, 3) = 8 /\ Entry(Copying, 4) = 9
  <1>1. ASSUME NEW j, NEW done \in 1..6, NEW k \in 1..PathEnd(j), StepAfter(j, k) = done,
               \A i \in 1..PathEnd(j) : StepAfter(j, i) = done => i = k
        PROVE  Entry(j, done) = 1 + k
    <2> DEFINE P(i) == StepAfter(j, i) = done
    <2>1. \E i \in 1..PathEnd(j) : P(i)
      BY <1>1
    <2>2. (CHOOSE i \in 1..PathEnd(j) : P(i)) \in 1..PathEnd(j) /\ P(CHOOSE i \in 1..PathEnd(j) : P(i))
      BY <2>1
    <2>3. (CHOOSE i \in 1..PathEnd(j) : P(i)) = k
      BY <1>1, <2>2
    <2> QED  BY <1>1, <2>3 DEF Entry
  <1>2. ASSUME NEW p \in Projects
        PROVE  Entry(p, 0) = 1 /\ Entry(p, 1) = 2 /\ Entry(p, 2) = 3 /\ Entry(p, 3) = 5
    <2>1. /\ PathEnd(p) = 5
          /\ \A i \in 1..5 : StepAfter(p, i) = DeleteSteps[i]
      BY Names, LastCall DEF StepAfter
    <2>2. \A i \in 1..5 : /\ (StepAfter(p, i) = 1 <=> i = 1) /\ (StepAfter(p, i) = 2 <=> i = 2)
                          /\ (StepAfter(p, i) = 3 <=> i = 4)
      BY <2>1, StepTables
    <2>3. Entry(p, 1) = 1 + 1
      BY <1>1, <2>1, <2>2
    <2>4. Entry(p, 2) = 1 + 2
      BY <1>1, <2>1, <2>2
    <2>5. Entry(p, 3) = 1 + 4
      BY <1>1, <2>1, <2>2
    <2> QED  BY <2>3, <2>4, <2>5 DEF Entry
  <1>3. ASSUME ~Branching
        PROVE  /\ Entry(Copying, 0) = 1 /\ Entry(Copying, 1) = 4 /\ Entry(Copying, 2) = 6
               /\ Entry(Copying, 3) = 9 /\ Entry(Copying, 4) = 10 /\ Entry(Copying, 5) = 12
    <2>1. /\ PathEnd(Copying) = 15
          /\ \A i \in 1..15 : StepAfter(Copying, i) = RestoreSteps[i]
      BY <1>3, LastCall DEF StepAfter
    <2>2. \A i \in 1..15 : /\ (StepAfter(Copying, i) = 1 <=> i = 3) /\ (StepAfter(Copying, i) = 2 <=> i = 5)
                           /\ (StepAfter(Copying, i) = 3 <=> i = 8) /\ (StepAfter(Copying, i) = 4 <=> i = 9)
                           /\ (StepAfter(Copying, i) = 5 <=> i = 11)
      BY <2>1, StepTables
    <2>3. Entry(Copying, 1) = 1 + 3
      BY <1>1, <2>1, <2>2
    <2>4. Entry(Copying, 2) = 1 + 5
      BY <1>1, <2>1, <2>2
    <2>5. Entry(Copying, 3) = 1 + 8
      BY <1>1, <2>1, <2>2
    <2>6. Entry(Copying, 4) = 1 + 9
      BY <1>1, <2>1, <2>2
    <2>7. Entry(Copying, 5) = 1 + 11
      BY <1>1, <2>1, <2>2
    <2> QED  BY <2>3, <2>4, <2>5, <2>6, <2>7 DEF Entry
  <1>4. ASSUME Branching
        PROVE  /\ Entry(Copying, 0) = 1 /\ Entry(Copying, 1) = 2 /\ Entry(Copying, 2) = 5
               /\ Entry(Copying, 3) = 8 /\ Entry(Copying, 4) = 9
    <2>1. /\ PathEnd(Copying) = 10
          /\ \A i \in 1..10 : StepAfter(Copying, i) = BranchSteps[i]
      BY <1>4, LastCall DEF StepAfter
    <2>2. \A i \in 1..10 : /\ (StepAfter(Copying, i) = 1 <=> i = 1) /\ (StepAfter(Copying, i) = 2 <=> i = 4)
                           /\ (StepAfter(Copying, i) = 3 <=> i = 7) /\ (StepAfter(Copying, i) = 4 <=> i = 8)
      BY <2>1, StepTables
    <2>3. Entry(Copying, 1) = 1 + 1
      BY <1>1, <2>1, <2>2
    <2>4. Entry(Copying, 2) = 1 + 4
      BY <1>1, <2>1, <2>2
    <2>5. Entry(Copying, 3) = 1 + 7
      BY <1>1, <2>1, <2>2
    <2>6. Entry(Copying, 4) = 1 + 8
      BY <1>1, <2>1, <2>2
    <2> QED  BY <2>3, <2>4, <2>5, <2>6 DEF Entry
  <1> QED  BY <1>2, <1>3, <1>4

-----------------------------------------------------------------------------
(* Recovery: the host. *)

AtMost(S, n) == IsFiniteSet(S) /\ Cardinality(S) <= n

LEMMA OneMoreElement ==
    ASSUME NEW S, NEW x, NEW n \in Nat, AtMost(S, n)
    PROVE  AtMost(S \cup {x}, n + 1)
  <1>1. IsFiniteSet(S) /\ Cardinality(S) \in Nat
    BY FS_CardinalityType DEF AtMost
  <1>2. /\ IsFiniteSet(S \cup {x})
        /\ Cardinality(S \cup {x}) = Cardinality(S) \/ Cardinality(S \cup {x}) = Cardinality(S) + 1
    BY <1>1, FS_AddElement
  <1> QED  BY <1>1, <1>2 DEF AtMost

\* There is always a fresh container id.
LEMMA FreshExists == Fresh \in Ids
  <1>1. AtMost({}, 0)
    BY FS_EmptySet DEF AtMost
  <1>2. PICK S1 : S1 = {} \cup {cont[Source].id} /\ AtMost(S1, 1)
    <2>1. AtMost({} \cup {cont[Source].id}, 0 + 1)
      BY <1>1, OneMoreElement
    <2> QED  BY <2>1
  <1>3. PICK S2 : S2 = S1 \cup {cont[Restored].id} /\ AtMost(S2, 2)
    <2>1. AtMost(S1 \cup {cont[Restored].id}, 1 + 1)
      BY <1>2, OneMoreElement
    <2> QED  BY <2>1
  <1>4. PICK S3 : S3 = S2 \cup {row[Source].cid} /\ AtMost(S3, 3)
    <2>1. AtMost(S2 \cup {row[Source].cid}, 2 + 1)
      BY <1>3, OneMoreElement
    <2> QED  BY <2>1
  <1>5. PICK S4 : S4 = S3 \cup {row[Restored].cid} /\ AtMost(S4, 4)
    <2>1. AtMost(S3 \cup {row[Restored].cid}, 3 + 1)
      BY <1>4, OneMoreElement
    <2> QED  BY <2>1
  <1>6. PICK S5 : S5 = S4 \cup {run[Source].cid} /\ AtMost(S5, 5)
    <2>1. AtMost(S4 \cup {run[Source].cid}, 4 + 1)
      BY <1>5, OneMoreElement
    <2> QED  BY <2>1
  <1>7. PICK S6 : S6 = S5 \cup {run[Restored].cid} /\ AtMost(S6, 6)
    <2>1. AtMost(S5 \cup {run[Restored].cid}, 5 + 1)
      BY <1>6, OneMoreElement
    <2> QED  BY <2>1
  <1>8. PICK S7 : S7 = S6 \cup {run[Copying].cid} /\ AtMost(S7, 7)
    <2>1. AtMost(S6 \cup {run[Copying].cid}, 6 + 1)
      BY <1>7, OneMoreElement
    <2> QED  BY <2>1
  <1>9. PICK S8 : S8 = S7 \cup {run[Source].old} /\ AtMost(S8, 8)
    <2>1. AtMost(S7 \cup {run[Source].old}, 7 + 1)
      BY <1>8, OneMoreElement
    <2> QED  BY <2>1
  <1>10. PICK S9 : S9 = S8 \cup {run[Restored].old} /\ AtMost(S9, 9)
    <2>1. AtMost(S8 \cup {run[Restored].old}, 8 + 1)
      BY <1>9, OneMoreElement
    <2> QED  BY <2>1
  <1>11. PICK S10 : S10 = S9 \cup {run[Copying].old} /\ AtMost(S10, 10)
    <2>1. AtMost(S9 \cup {run[Copying].old}, 9 + 1)
      BY <1>10, OneMoreElement
    <2> QED  BY <2>1
  <1>12. PICK i \in Ids : i \notin S10
    <2> SUFFICES ASSUME Ids \subseteq S10 PROVE FALSE
      OBVIOUS
    <2>1. IsFiniteSet(Ids) /\ Cardinality(Ids) = 11
      <3>1. IsFiniteSet(1..11) /\ Cardinality(1..11) = IF 1 > 11 THEN 0 ELSE 11 - 1 + 1
        <4>1. 1 \in Int /\ 11 \in Int
          OBVIOUS
        <4> QED  BY <4>1, FS_Interval, Zenon
      <3>2. (IF 1 > 11 THEN 0 ELSE 11 - 1 + 1) = 11
        OBVIOUS
      <3> QED  BY <3>1, <3>2 DEF Ids
    <2>2. IsFiniteSet(S10) /\ Cardinality(S10) <= 10
      BY <1>11 DEF AtMost
    <2>3. Cardinality(Ids) <= Cardinality(S10) /\ Cardinality(S10) \in Nat
      BY <2>2, FS_Subset, FS_CardinalityType
    <2> QED  BY <2>1, <2>2, <2>3
  <1>13. \A p \in Projects, j \in Jobs : i \notin {cont[p].id, row[p].cid, run[j].cid, run[j].old}
    BY <1>2, <1>3, <1>4, <1>5, <1>6, <1>7, <1>8, <1>9, <1>10, <1>11, <1>12, Names
  <1>14. \E k \in Ids : \A p \in Projects, j \in Jobs :
             k \notin {cont[p].id, row[p].cid, run[j].cid, run[j].old}
    BY <1>13
  <1> QED  BY <1>14 DEF Fresh

\* What a call does to the containers: to the one of its project only.
ContEffect(p, call, src) ==
    /\ cont' \in [Projects -> Container]
    /\ \A q \in Projects : q # p => cont'[q] = cont[q]
    /\ call = "create" => cont'[p].src = src
    /\ call # "create" => /\ cont'[p].id \in {cont[p].id, 0}
                          /\ cont'[p].src => cont[p].src
    /\ call \notin {"stop", "remove", "create", "start"} => cont' = cont

LEMMA ContFrame ==
    ASSUME Types, NEW p \in Projects, NEW call, NEW cid, NEW ref \in Projects, NEW src \in BOOLEAN,
           Acts(p, call, cid, ref, src)
    PROVE  ContEffect(p, call, src)
  <1> USE DEF ContEffect
  <1>1. cont \in [Projects -> Container] /\ cont' = ContAfter(p, call, cid, src)
    BY DEF Types, Acts
  <1>2. NoContainer \in Container /\ NoContainer.id = 0 /\ NoContainer.src = FALSE
    BY Names DEF NoContainer, Container
  <1>3. CASE call = "stop"
    <2>1. cont' = [cont EXCEPT ![p].up = cont[p].up /\ cont[p].id # cid]
      BY <1>1, <1>3 DEF ContAfter
    <2>2. (cont[p].up /\ cont[p].id # cid) \in BOOLEAN
      BY <1>1 DEF Container
    <2>3. PICK c \in Container : c = cont[p]
      BY <1>1
    <2>4. PICK u \in BOOLEAN : u = (cont[p].up /\ cont[p].id # cid)
      BY <2>2
    <2>5. [c EXCEPT !.up = u] \in Container /\ [c EXCEPT !.up = u].id = c.id /\ [c EXCEPT !.up = u].src = c.src
      BY DEF Container
    <2>6. cont' = [cont EXCEPT ![p] = [c EXCEPT !.up = u]]
      BY <2>1, <2>3, <2>4
    <2>7. cont' \in [Projects -> Container] /\ cont'[p] = [c EXCEPT !.up = u]
          /\ \A q \in Projects : q # p => cont'[q] = cont[q]
      BY <1>1, <2>5, <2>6
    <2> QED  BY <1>3, <2>3, <2>5, <2>7
  <1>4. CASE call = "remove" /\ cont[p].id = cid
    <2>1. cont' = [cont EXCEPT ![p] = NoContainer]
      BY <1>1, <1>4 DEF ContAfter
    <2> QED  BY <1>1, <1>2, <1>4, <2>1
  <1>5. CASE call = "create"
    <2>1. cont' = [cont EXCEPT ![p] = [id |-> Fresh, up |-> FALSE, port |-> row[p].ref, src |-> src]]
      BY <1>1, <1>5 DEF ContAfter
    <2>2. row[p].ref \in Projects
      BY DEF Types, ProjectRow
    <2>3. [id |-> Fresh, up |-> FALSE, port |-> row[p].ref, src |-> src] \in Container
      BY <2>2, FreshExists DEF Container
    <2>4. PICK c \in Container : c = [id |-> Fresh, up |-> FALSE, port |-> row[p].ref, src |-> src]
      BY <2>3
    <2>5. cont' = [cont EXCEPT ![p] = c]
      BY <2>1, <2>4
    <2>6. cont' \in [Projects -> Container] /\ cont'[p] = c
          /\ \A q \in Projects : q # p => cont'[q] = cont[q]
      BY <1>1, <2>5
    <2>7. c.src = src
      BY <2>4
    <2> QED  BY <1>5, <2>6, <2>7
  <1>6. CASE call = "start"
    <2>1. cont' = [cont EXCEPT ![p].up = TRUE]
      BY <1>1, <1>6 DEF ContAfter
    <2>3. PICK c \in Container : c = cont[p]
      BY <1>1
    <2>5. [c EXCEPT !.up = TRUE] \in Container /\ [c EXCEPT !.up = TRUE].id = c.id
          /\ [c EXCEPT !.up = TRUE].src = c.src
      BY DEF Container
    <2>6. cont' = [cont EXCEPT ![p] = [c EXCEPT !.up = TRUE]]
      BY <2>1, <2>3
    <2>7. cont' \in [Projects -> Container] /\ cont'[p] = [c EXCEPT !.up = TRUE]
          /\ \A q \in Projects : q # p => cont'[q] = cont[q]
      BY <1>1, <2>5, <2>6
    <2> QED  BY <1>6, <2>3, <2>5, <2>7
  <1>7. CASE call \notin {"stop", "create", "start"} /\ ~(call = "remove" /\ cont[p].id = cid)
    <2>1. cont' = cont
      BY <1>1, <1>7 DEF ContAfter
    <2> QED  BY <1>1, <1>7, <2>1
  <1> QED  BY <1>3, <1>4, <1>5, <1>6, <1>7

\* To the data directories: to that of the project or of the ref.
DataEffect(p, call, ref) ==
    /\ data' \in [Projects -> DataStates]
    /\ \A q \in Projects : q # p /\ q # ref => data'[q] = data[q]
    /\ call \notin {"files", "rmdata", "snapshot"} /\ data[p] = "database" => data'[p] = "database"
    /\ call = "await" => data'[p] = "database"
    /\ call = "rmdata" => data'[ref] = "none"
    /\ call \in {"stop", "remove", "start", "rmrepo", "rmnet"} => data' = data

LEMMA DataFrame ==
    ASSUME Types, NEW p \in Projects, NEW call, NEW cid, NEW ref \in Projects, NEW src \in BOOLEAN,
           Acts(p, call, cid, ref, src)
    PROVE  DataEffect(p, call, ref)
  <1> USE DEF DataEffect
  <1>1. data \in [Projects -> DataStates] /\ data' = DataAfter(p, call, ref)
    BY DEF Types, Acts
  <1>2. \A d \in DataStates : Filled(d) \in DataStates /\ Filled("database") = "database"
    BY DEF Filled, DataStates
  <1>3. RestoredFiles(p) \in DataStates
    BY DEF RestoredFiles, DataStates
  <1>4. row[Source].ref \in Projects
    BY Names DEF Types, ProjectRow
  <1>5. CASE call = "data"
    <2>1. data' = [data EXCEPT ![ref] = Filled(data[ref])]
      BY <1>1, <1>5 DEF DataAfter
    <2> QED  BY <1>1, <1>2, <1>5, <2>1
  <1>6. CASE call = "snapshot"
    <2>1. data' = [data EXCEPT ![ref] = data[row[Source].ref]]
      BY <1>1, <1>6 DEF DataAfter
    <2> QED  BY <1>1, <1>4, <1>6, <2>1
  <1>7. CASE call = "files"
    <2>1. data' = [data EXCEPT ![ref] = RestoredFiles(p)]
      BY <1>1, <1>7 DEF DataAfter
    <2> QED  BY <1>1, <1>3, <1>7, <2>1
  <1>8. CASE call = "await"
    <2>1. data' = [data EXCEPT ![p] = "database"]
      BY <1>1, <1>8 DEF DataAfter
    <2> QED  BY <1>1, <1>8, <2>1 DEF DataStates
  <1>9. CASE call = "create"
    <2>1. data' = [data EXCEPT ![p] = Filled(data[p])]
      BY <1>1, <1>9 DEF DataAfter
    <2> QED  BY <1>1, <1>2, <1>9, <2>1
  <1>10. CASE call = "rmdata"
    <2>1. data' = [data EXCEPT ![ref] = "none"]
      BY <1>1, <1>10 DEF DataAfter
    <2> QED  BY <1>1, <1>10, <2>1 DEF DataStates
  <1>11. CASE call \notin {"data", "snapshot", "files", "await", "create", "rmdata"}
    <2>1. data' = data
      BY <1>1, <1>11 DEF DataAfter
    <2> QED  BY <1>1, <1>11, <2>1
  <1> QED  BY <1>5, <1>6, <1>7, <1>8, <1>9, <1>10, <1>11

\* To the backup volumes: to the project's, and another's may come into being.
RepoEffect(p, call, ref) ==
    /\ repo' \in [Projects -> RepoStates]
    /\ \A q \in Projects : q # p /\ q # ref => repo'[q] \in {repo[q], Filled(repo[q])}
    /\ call # "rmrepo" /\ repo[p] = "backup" => repo'[p] = "backup"
    /\ call = "backup" => repo'[p] = "backup"
    /\ call = "rmrepo" => repo'[p] = "none"
    /\ call \in {"stop", "remove", "start", "rmdata", "rmnet"} => repo' = repo
    /\ net' \subseteq Projects

LEMMA RepoFrame ==
    ASSUME Types, NEW p \in Projects, NEW call, NEW cid, NEW ref \in Projects, NEW src \in BOOLEAN,
           Acts(p, call, cid, ref, src)
    PROVE  RepoEffect(p, call, ref)
  <1> USE DEF RepoEffect
  <1>1. repo \in [Projects -> RepoStates] /\ repo' = RepoAfter(p, call, ref, src)
    BY DEF Types, Acts
  <1>2. \A d \in RepoStates : Filled(d) \in RepoStates /\ Filled("backup") = "backup"
    BY DEF Filled, RepoStates
  <1>3. net' \subseteq Projects
    <2>1. net \subseteq Projects /\ net' = NetAfter(p, call, ref)
      BY DEF Types, Acts
    <2> QED  BY <2>1 DEF NetAfter
  <1>4. CASE call = "repo"
    <2>1. repo' = [repo EXCEPT ![ref] = Filled(repo[ref])]
      BY <1>1, <1>4 DEF RepoAfter
    <2> QED  BY <1>1, <1>2, <1>3, <1>4, <2>1
  <1>5. CASE call = "own"
    <2>1. repo' = [repo EXCEPT ![p] = IF repo[p] = "empty" THEN "stanza" ELSE repo[p]]
      BY <1>1, <1>5 DEF RepoAfter
    <2>2. (IF repo[p] = "empty" THEN "stanza" ELSE repo[p]) \in RepoStates
      BY <1>1 DEF RepoStates
    <2> QED  BY <1>1, <1>3, <1>5, <2>1, <2>2
  <1>6. CASE call = "backup"
    <2>1. repo' = [repo EXCEPT ![p] = "backup"]
      BY <1>1, <1>6 DEF RepoAfter
    <2> QED  BY <1>1, <1>3, <1>6, <2>1 DEF RepoStates
  <1>7. CASE call = "create"
    <2>1. repo' = [q \in Projects |-> IF q = p \/ src THEN Filled(repo[q]) ELSE repo[q]]
      BY <1>1, <1>7 DEF RepoAfter
    <2> QED  BY <1>1, <1>2, <1>3, <1>7, <2>1
  <1>8. CASE call = "rmrepo"
    <2>1. repo' = [repo EXCEPT ![p] = "none"]
      BY <1>1, <1>8 DEF RepoAfter
    <2> QED  BY <1>1, <1>3, <1>8, <2>1 DEF RepoStates
  <1>9. CASE call \notin {"repo", "own", "backup", "create", "rmrepo"}
    <2>1. repo' = repo
      BY <1>1, <1>9 DEF RepoAfter
    <2> QED  BY <1>1, <1>3, <1>9, <2>1
  <1> QED  BY <1>4, <1>5, <1>6, <1>7, <1>8, <1>9
LEMMA ActsEffects ==
    ASSUME Types, NEW p \in Projects, NEW call, NEW cid, NEW ref \in Projects, NEW src \in BOOLEAN,
           Acts(p, call, cid, ref, src)
    PROVE  ContEffect(p, call, src) /\ DataEffect(p, call, ref) /\ RepoEffect(p, call, ref)
  BY ContFrame, DataFrame, RepoFrame

-----------------------------------------------------------------------------
(* Recovery: what a call leaves alone. *)

\* The call that a handler is waiting for does its work.
Works(j) == Acts(Of(j), Call(j), run[j].cid, run[j].ref, j = Copying /\ ~Branching /\ run[j].at < DetachAt)
Can(j) == Able(Of(j), Call(j), run[j].cid, run[j].ref)

\* Its arguments have their types.
LEMMA WorksTyped ==
    ASSUME Types, NEW j \in Jobs
    PROVE  /\ Of(j) \in Projects /\ run[j].ref \in Projects
           /\ (j = Copying /\ ~Branching /\ run[j].at < DetachAt) \in BOOLEAN
           /\ run[j].at \in 0..17 /\ job[j] \in JobRow /\ run[j] \in Handler
  BY Names DEF Types, Handler, DetachAt

LEMMA WorksTypes ==
    ASSUME Types, NEW j \in Jobs, Works(j)
    PROVE  /\ cont' \in [Projects -> Container] /\ data' \in [Projects -> DataStates]
           /\ repo' \in [Projects -> RepoStates] /\ net' \subseteq Projects
  <1>1. PICK src \in BOOLEAN : src = (j = Copying /\ ~Branching /\ run[j].at < DetachAt)
    BY WorksTyped
  <1>2. Acts(Of(j), Call(j), run[j].cid, run[j].ref, src)
    BY <1>1 DEF Works
  <1>3. PICK p \in Projects, ref \in Projects : p = Of(j) /\ ref = run[j].ref
    BY WorksTyped
  <1>4. Acts(p, Call(j), run[j].cid, ref, src)
    BY <1>2, <1>3
  <1>5. ContEffect(p, Call(j), src) /\ DataEffect(p, Call(j), ref) /\ RepoEffect(p, Call(j), ref)
    BY <1>3, <1>4, ActsEffects
  <1> QED  BY <1>5 DEF ContEffect, DataEffect, RepoEffect

\* A handler that runs works on its own project, within its path.
LEMMA RunsWithin ==
    ASSUME RecoveryInv, NEW j \in Jobs, run[j].at # 0
    PROVE  /\ job[j].state = "running" /\ job[j].attempts > 0
           /\ j \in Projects => run[j].at \in 1..5 /\ job[j].steps \in 0..3
           /\ j = Copying => /\ run[j].at \in 1..17
                             /\ Branching => run[j].at \in 1..10 /\ job[j].steps \in 0..4
                             /\ ~Branching => job[j].steps \in 0..5
  BY Names DEF RecoveryInv, RunsInv, RunOf, Furthest, MostSteps, Types, Handler, JobRow

\* What a handler leaves alone of a project that another one works on.
LEMMA OthersKept ==
    ASSUME RecoveryInv, ~Swapped, NEW j \in Jobs, run[j].at # 0, Works(j),
           NEW q \in Projects, q # Of(j)
    PROVE  cont'[q] = cont[q] /\ data'[q] = data[q] /\ repo'[q] \in {repo[q], Filled(repo[q])}
  <1>1. PICK src \in BOOLEAN : src = (j = Copying /\ ~Branching /\ run[j].at < DetachAt)
    BY WorksTyped DEF RecoveryInv
  <1>2. Acts(Of(j), Call(j), run[j].cid, run[j].ref, src)
    BY <1>1 DEF Works
  <1>3. run[j].ref = Of(j) /\ Of(j) \in Projects /\ Types
    BY Names DEF RecoveryInv, Unswapped, OwnRefs
  <1>4. /\ ContEffect(Of(j), Call(j), src) /\ DataEffect(Of(j), Call(j), run[j].ref)
        /\ RepoEffect(Of(j), Call(j), run[j].ref)
    BY <1>2, <1>3, ActsEffects
  <1> QED  BY <1>3, <1>4 DEF ContEffect, DataEffect, RepoEffect

\* What a project's deletion does to it.
LEMMA DeletionFrame ==
    ASSUME RecoveryInv, ~Swapped, NEW p \in Projects, run[p].at # 0, Works(p)
    PROVE  /\ cont'[p].id \in {cont[p].id, 0} /\ (cont'[p].src => cont[p].src)
           /\ data'[p] \in {data[p], "none"} /\ repo'[p] \in {repo[p], "none"}
           /\ run[p].at = 3 => data'[p] = "none"
           /\ run[p].at = 4 => data'[p] = data[p] /\ repo'[p] = "none" /\ cont'[p] = cont[p]
           /\ run[p].at = 5 => data'[p] = data[p] /\ repo'[p] = repo[p] /\ cont'[p] = cont[p]
  <1>1. PICK src \in BOOLEAN : src = (p = Copying /\ ~Branching /\ run[p].at < DetachAt)
    BY WorksTyped, Names DEF RecoveryInv
  <1>2. p \in Jobs /\ Of(p) = p /\ run[p].ref = p /\ Types
    BY Names DEF RecoveryInv, Unswapped, OwnRefs
  <1>3. Acts(p, Call(p), run[p].cid, p, src)
    BY <1>1, <1>2 DEF Works
  <1>4. run[p].at \in 1..5
    BY <1>2, RunsWithin
  <1>5. PICK c : c = Call(p)
    OBVIOUS
  <1>6. /\ run[p].at = 1 => c = "stop"
        /\ run[p].at = 2 => c = "remove"
        /\ run[p].at = 3 => c = "rmdata"
        /\ run[p].at = 4 => c = "rmrepo"
        /\ run[p].at = 5 => c = "rmnet"
    BY <1>4, <1>5, DeleteCall
  <1>7. Acts(p, c, run[p].cid, p, src)
    BY <1>3, <1>5
  <1>8. ContEffect(p, c, src) /\ DataEffect(p, c, p) /\ RepoEffect(p, c, p)
    BY <1>2, <1>7, ActsEffects
  <1>9. /\ c # "create" => /\ cont'[p].id \in {cont[p].id, 0}
                           /\ cont'[p].src => cont[p].src
        /\ c \notin {"stop", "remove", "create", "start"} => cont' = cont
        /\ c = "rmdata" => data'[p] = "none"
        /\ c \in {"stop", "remove", "start", "rmrepo", "rmnet"} => data' = data
    BY <1>8 DEF ContEffect, DataEffect
  <1>10. /\ c = "rmrepo" => repo'[p] = "none"
         /\ c \in {"stop", "remove", "start", "rmdata", "rmnet"} => repo' = repo
    BY <1>8 DEF RepoEffect
  <1>11. run[p].at = 1 \/ run[p].at = 2 \/ run[p].at = 3 \/ run[p].at = 4 \/ run[p].at = 5
    BY <1>4
  <1> QED  BY <1>6, <1>9, <1>10, <1>11

\* What is gone of a project that is being deleted stays gone.
LEMMA GoneStays ==
    ASSUME RecoveryInv, ~Swapped, NEW j \in Jobs, run[j].at # 0, Works(j),
           NEW q \in Projects, job[q].state # "none"
    PROVE  /\ data[q] = "none" => data'[q] = "none"
           /\ cont[q].id = 0 => cont'[q].id = 0
           /\ repo[q] \in {"none", "empty"} => repo'[q] \in {"none", "empty"}
  <1>1. CASE j = q
    BY <1>1, DeletionFrame
  <1>2. CASE j = Copying
    <2>1. q # Restored
      <3>1. Unsettled(Copying)
        BY <1>2, RunsWithin DEF Unsettled
      <3> QED  BY <3>1 DEF RecoveryInv, Unswapped, Deleting
    <2> QED  BY <1>2, <2>1, OthersKept, Names DEF Filled
  <1>3. CASE j # q /\ j # Copying
    <2>1. Of(j) # q
      BY <1>3, Names
    <2> QED  BY <2>1, OthersKept DEF Filled
  <1> QED  BY <1>1, <1>2, <1>3

\* What a copy has made stays while it is made, and afterwards until it is deleted.
Made ==
    /\ Unsettled(Copying) /\ job[Copying].steps >= 4 => data[Restored] = "database"
    /\ Unsettled(Copying) /\ job[Copying].steps = 5 => repo[Restored] = "backup"
    /\ run[Copying].at = 15 => ~cont[Restored].src
    /\ Done /\ job[Restored].state = "none" =>
          data[Restored] = "database" /\ repo[Restored] = "backup" /\ ~cont[Restored].src

LEMMA MadeStays ==
    ASSUME RecoveryInv, ~Swapped, NEW j \in Jobs, run[j].at # 0, Works(j)
    PROVE  /\ Branching => ~cont'[Restored].src
           /\ ~Branching =>
                /\ Unsettled(Copying) /\ job[Copying].steps >= 4 => data'[Restored] = "database"
                /\ Unsettled(Copying) /\ job[Copying].steps = 5 => repo'[Restored] = "backup"
                /\ run[Copying].at \in {14, 15} => ~cont'[Restored].src \/ (j # Copying /\ run[Copying].at = 14)
                /\ Done /\ job[Restored].state = "none" =>
                     data'[Restored] = "database" /\ repo'[Restored] = "backup" /\ ~cont'[Restored].src
  <1>0. /\ row[Restored].state = "absent" => ~cont[Restored].src /\ job[Copying].state = "none"
        /\ Branching => ~cont[Restored].src
        /\ ~Branching /\ row[Restored].state # "absent" => Placed /\ Made
    BY DEF RecoveryInv, Unswapped, Copied, CopyRow, Progress, Made
  <1>1. CASE j = Source
    <2>1. cont'[Restored] = cont[Restored] /\ data'[Restored] = data[Restored]
          /\ repo'[Restored] \in {repo[Restored], Filled(repo[Restored])}
      BY <1>1, OthersKept, Names
    <2>2. repo[Restored] = "backup" => repo'[Restored] = "backup"
      BY <2>1 DEF Filled
    <2>3. row[Restored].state = "absent" => ~Unsettled(Copying) /\ ~Done /\ run[Copying].at # 14 /\ run[Copying].at # 15
      BY <1>0, RunsWithin, Names DEF Unsettled, Done
    <2> QED  BY <1>0, <1>1, <2>1, <2>2, <2>3, Names DEF Made
  <1>2. CASE j = Restored
    <2>1. cont'[Restored].src => cont[Restored].src
      BY <1>2, DeletionFrame, Names
    <2>2. job[Restored].state = "running" /\ ~Unsettled(Copying)
      BY <1>2, RunsWithin DEF RecoveryInv, Unswapped, Deleting
    <2>3. run[Copying].at = 0
      BY <2>2, RunsWithin, Names DEF Unsettled
    <2> QED  BY <1>0, <2>1, <2>2, <2>3
  <1>3. CASE j = Copying
    <2>1. run[Copying].at \in 1..17 /\ Unsettled(Copying) /\ ~Done /\ job[Copying].state # "none"
      BY <1>3, RunsWithin DEF Unsettled, Done
    <2>2. PICK src \in BOOLEAN : src = (~Branching /\ run[Copying].at < DetachAt)
      BY <1>3, WorksTyped DEF RecoveryInv
    <2>3. PICK c : c = Call(Copying)
      OBVIOUS
    <2>4. Acts(Restored, c, run[Copying].cid, Restored, src)
      <3>1. run[Copying].ref = Restored /\ Of(Copying) = Restored
        BY <1>3, <2>1, Names DEF RecoveryInv, Unswapped, OwnRefs
      <3> QED  BY <1>3, <2>2, <2>3, <3>1 DEF Works
    <2>5. /\ c = "create" => cont'[Restored].src = src
          /\ c # "create" => (cont'[Restored].src => cont[Restored].src)
          /\ c \notin {"files", "rmdata", "snapshot"} /\ data[Restored] = "database" => data'[Restored] = "database"
          /\ c # "rmrepo" /\ repo[Restored] = "backup" => repo'[Restored] = "backup"
      <3>1. Types /\ Restored \in Projects
        BY Names DEF RecoveryInv
      <3>2. ContEffect(Restored, c, src) /\ DataEffect(Restored, c, Restored) /\ RepoEffect(Restored, c, Restored)
        BY <2>4, <3>1, ActsEffects
      <3> QED  BY <3>2 DEF ContEffect, DataEffect, RepoEffect
    <2>6. CASE Branching
      <3>1. src = FALSE
        BY <2>2, <2>6
      <3> QED  BY <1>0, <2>5, <2>6, <3>1
    <2>7. CASE ~Branching
      <3>1. Placed /\ Made
        BY <1>0, <2>1, <2>7
      <3>2. run[Copying].at = 15 => c = "start"
        BY <2>1, <2>3, <2>7, RestoreCall
      <3>3. run[Copying].at = 14 => c = "create" /\ src = FALSE
        <4> SUFFICES ASSUME run[Copying].at = 14 PROVE c = "create" /\ src = FALSE
          OBVIOUS
        <4>1. c = "create"
          BY <2>1, <2>3, <2>7, RestoreCall
        <4>2. ~(~Branching /\ run[Copying].at < DetachAt)
          BY DEF DetachAt
        <4> QED  BY <2>2, <4>1, <4>2
      <3>4. c # "rmrepo" /\ c # "rmdata" /\ c # "snapshot" /\ (c = "files" => run[Copying].at = 5)
        BY <2>1, <2>3, <2>7, RestoreCall
      <3>5. run[Copying].at = 5 => job[Copying].steps < 4
        BY <3>1 DEF Placed, Behind
      <3>6. job[Copying].steps \in 0..5
        BY <2>1, <2>7, RunsWithin, <1>3
      <3>7. job[Copying].steps >= 4 => data'[Restored] = "database"
        BY <2>1, <2>5, <3>1, <3>4, <3>5, <3>6 DEF Made
      <3>8. job[Copying].steps = 5 => repo'[Restored] = "backup"
        BY <2>1, <2>5, <3>1, <3>4, <3>6 DEF Made
      <3>9. run[Copying].at \in {14, 15} => ~cont'[Restored].src
        BY <2>5, <3>1, <3>2, <3>3 DEF Made
      <3> QED  BY <2>1, <2>7, <3>7, <3>8, <3>9
    <2> QED  BY <2>6, <2>7
  <1> QED  BY <1>1, <1>2, <1>3, Names
-----------------------------------------------------------------------------
(* Recovery: the requests. *)

RowStates == {"absent", "creating", "running", "stopped", "failed", "deleting"}
Live == {"running", "stopped", "failed"}

\* What a change of state, or of the time to live, leaves of a row.
KeptRow(p) == /\ row'[p].ref = row[p].ref /\ row'[p].cid = row[p].cid /\ row'[p].method = row[p].method
              /\ row'[p].sourceRepo = row[p].sourceRepo /\ row'[p].deleted = row[p].deleted

LEMMA StateSet ==
    ASSUME Types, NEW p \in Projects, NEW s \in RowStates, row' = [row EXCEPT ![p].state = s]
    PROVE  /\ row' \in [Projects -> ProjectRow] /\ row'[p].state = s
           /\ \A q \in Projects : KeptRow(q) /\ (q # p => row'[q].state = row[q].state)
  <1>1. PICK r \in ProjectRow : r = row[p]
    BY DEF Types
  <1>2. [r EXCEPT !.state = s] \in ProjectRow
    BY DEF ProjectRow, RowStates
  <1>3. LET x == [r EXCEPT !.state = s]
        IN  /\ x.state = s /\ x.ref = r.ref /\ x.cid = r.cid /\ x.method = r.method
            /\ x.sourceRepo = r.sourceRepo /\ x.deleted = r.deleted
    BY DEF ProjectRow
  <1>4. row' = [row EXCEPT ![p] = [r EXCEPT !.state = s]]
    BY <1>1
  <1>5. row' \in [Projects -> ProjectRow] /\ row'[p] = [r EXCEPT !.state = s]
        /\ \A q \in Projects : q # p => row'[q] = row[q]
    BY <1>2, <1>4 DEF Types
  <1> QED  BY <1>1, <1>3, <1>5 DEF KeptRow

LEMMA RunKept ==
    ASSUME NEW j, RunOf(j), job'[j] = job[j], run'[j] = run[j],
           row'[Restored].method = row[Restored].method
    PROVE  RunOf(j)'
  BY DEF RunOf, Furthest, MostSteps, Branching

LEMMA RunsKept ==
    ASSUME RunsInv, job' = job, run' = run, row'[Restored].method = row[Restored].method
    PROVE  RunsInv'
  BY RunKept DEF RunsInv

\* Once the refs are swapped little is left to keep.
LEMMA SwappedOn ==
    ASSUME RecoveryInv, Swapped, Types', RunsInv', row'[Restored].ref = row[Restored].ref,
           \A p \in Projects : row'[p].state = "absent" <=> row[p].state = "absent",
           job'[Copying].state = "none" <=> job[Copying].state = "none"
    PROVE  RecoveryInv'
  <1>1. Swapped'
    BY DEF Swapped
  <1>2. CopyRow'
    BY <1>1, Names DEF RecoveryInv, CopyRow
  <1> QED  BY <1>1, <1>2 DEF RecoveryInv

\* Steps that start and stop containers and say so on a live row.
LEMMA RequestStep ==
    ASSUME RecoveryInv, Types', job' = job, run' = run, promo' \in {promo, 0}, data' = data, repo' = repo,
           \A p \in Projects :
              /\ KeptRow(p)
              /\ \/ row'[p].state = row[p].state
                 \/ /\ row[p].state \in Live /\ row'[p].state \in Live
                    /\ row'[p].state = "failed" \/ row[p].cid # 0
              /\ cont'[p].id \in {cont[p].id, 0} /\ (cont'[p].src => cont[p].src)
    PROVE  RecoveryInv'
  <1>1. /\ \A p \in Projects : row'[p].state = "absent" <=> row[p].state = "absent"
        /\ \A p \in Projects : row'[p].state = "deleting" <=> row[p].state = "deleting"
        /\ row'[Restored].state = "creating" <=> row[Restored].state = "creating"
    BY Names DEF Live
  <1>2. RunsInv'
    BY RunsKept, Names DEF RecoveryInv, KeptRow
  <1>3. row'[Restored].ref = row[Restored].ref /\ (Branching' <=> Branching) /\ Done' = Done
    BY Names DEF KeptRow, Branching, Done
  <1>4. CASE Swapped
    BY <1>1, <1>2, <1>3, <1>4, SwappedOn
  <1>5. CASE ~Swapped
    <2>1. OwnRefs'
      BY <1>5, Names DEF RecoveryInv, Unswapped, OwnRefs, KeptRow
    <2>2. CopyRow'
      BY <1>1, <1>3, <1>5, <2>1, Names DEF RecoveryInv, CopyRow, Swapped, OwnRefs
    <2>3. Deleting'
      BY <1>1, <1>5 DEF RecoveryInv, Unswapped, Deleting, KeptRow, Unsettled
    <2>4. ASSUME NEW p \in Projects PROVE Cleared(p)'
      <3>1. Cleared(p)
        BY <1>5 DEF RecoveryInv, Unswapped
      <3> QED  BY <3>1 DEF Cleared, KeptRow
    <2>5. Copied'
      <3>1. Copied /\ KeptRow(Restored) /\ (cont'[Restored].src => cont[Restored].src)
        BY <1>5, Names DEF RecoveryInv, Unswapped
      <3>2. CASE row[Restored].state = "absent"
        BY <1>1, <3>1, <3>2, Names DEF Copied, KeptRow
      <3>3. CASE row[Restored].state # "absent" /\ Branching
        BY <1>1, <1>3, <3>1, <3>3, Names DEF Copied
      <3>4. CASE row[Restored].state # "absent" /\ ~Branching
        <4>1. Placed /\ Progress
          BY <3>1, <3>4 DEF Copied
        <4>2. Placed'
          BY <4>1 DEF Placed
        <4>3. ~Done /\ row'[Restored].state \in {"running", "stopped"} => row'[Restored].cid # 0
          BY <4>1, Names DEF Progress, KeptRow, Live
        <4>4. Progress'
          BY <1>3, <3>1, <4>1, <4>3 DEF Progress, KeptRow, Unsettled, Done
        <4> QED  BY <1>1, <1>3, <3>4, <4>2, <4>4, Names DEF Copied
      <3> QED  BY <3>2, <3>3, <3>4
    <2> QED  BY <1>2, <2>1, <2>2, <2>3, <2>4, <2>5 DEF RecoveryInv, Unswapped
  <1> QED  BY <1>4, <1>5

LEMMA StutterKeeps ==
    ASSUME RecoveryInv, UNCHANGED vars
    PROVE  RecoveryInv'
  <1>1. Types'
    BY DEF RecoveryInv, Types, vars
  <1> QED  BY <1>1, RequestStep DEF vars, KeptRow

LEMMA SetExpiryKeeps ==
    ASSUME RecoveryInv, SetExpiry
    PROVE  RecoveryInv'
  <1>1. PICK r \in ProjectRow : r = row[Restored]
    BY Names DEF RecoveryInv, Types
  <1>2. LET x == [r EXCEPT !.expires = FALSE]
        IN  /\ x \in ProjectRow /\ x.state = r.state /\ x.ref = r.ref /\ x.cid = r.cid
            /\ x.method = r.method /\ x.sourceRepo = r.sourceRepo /\ x.deleted = r.deleted
    BY DEF ProjectRow
  <1>3. row' = [row EXCEPT ![Restored] = [r EXCEPT !.expires = FALSE]]
    BY <1>1 DEF SetExpiry
  <1>4. row' \in [Projects -> ProjectRow] /\ row'[Restored] = [r EXCEPT !.expires = FALSE]
        /\ \A q \in Projects : q # Restored => row'[q] = row[q]
    BY <1>2, <1>3, Names DEF RecoveryInv, Types
  <1>5. \A q \in Projects : KeptRow(q) /\ row'[q].state = row[q].state
    BY <1>1, <1>2, <1>4 DEF KeptRow
  <1>6. UNCHANGED <<store, data, repo, net, cont, job, run, promo, process, faults>>
    BY DEF SetExpiry
  <1>7. Types'
    BY <1>4, <1>6 DEF RecoveryInv, Types
  <1> QED  BY <1>5, <1>6, <1>7, RequestStep

LEMMA ReconcileKeeps ==
    ASSUME RecoveryInv, NEW p \in Projects, Reconcile(p)
    PROVE  RecoveryInv'
  <1>1. row' = [row EXCEPT ![p].state = "failed"] /\ "failed" \in RowStates /\ Types
        /\ row[p].state \in Live
    BY DEF Reconcile, RowStates, RecoveryInv, Live
  <1>2. row' \in [Projects -> ProjectRow] /\ row'[p].state = "failed"
        /\ \A q \in Projects : KeptRow(q) /\ (q # p => row'[q].state = row[q].state)
    BY <1>1, StateSet
  <1>3. UNCHANGED <<store, data, repo, net, cont, job, run, promo, process, faults>>
    BY DEF Reconcile
  <1>4. Types'
    BY <1>2, <1>3 DEF RecoveryInv, Types
  <1> QED  BY <1>1, <1>2, <1>3, <1>4, RequestStep DEF Live

LEMMA SetRunningKeeps ==
    ASSUME RecoveryInv, NEW p \in Projects, NEW up \in BOOLEAN, SetRunning(p, up)
    PROVE  RecoveryInv'
  <1>1. PICK call : call = IF up THEN "start" ELSE "stop"
    OBVIOUS
  <1>2. Acts(p, call, row[p].cid, p, FALSE) /\ call \in {"start", "stop"} /\ Types
    BY <1>1 DEF SetRunning, RecoveryInv
  <1>3. ContEffect(p, call, FALSE) /\ DataEffect(p, call, p) /\ RepoEffect(p, call, p)
    BY <1>2, ActsEffects
  <1>4. PICK s \in RowStates : s = IF up THEN "running" ELSE "stopped"
    BY DEF RowStates
  <1>5. row' = [row EXCEPT ![p].state = s] /\ s \in Live /\ row[p].state \in Live /\ row[p].cid # 0
    BY <1>4 DEF SetRunning, Live
  <1>6. row' \in [Projects -> ProjectRow] /\ row'[p].state = s
        /\ \A q \in Projects : KeptRow(q) /\ (q # p => row'[q].state = row[q].state)
    BY <1>2, <1>5, StateSet
  <1>7. UNCHANGED <<store, job, run, promo, process, faults>>
    BY DEF SetRunning
  <1>8. /\ cont' \in [Projects -> Container] /\ data' = data /\ repo' = repo /\ net' \subseteq Projects
        /\ \A q \in Projects : cont'[q].id \in {cont[q].id, 0} /\ (cont'[q].src => cont[q].src)
    BY <1>2, <1>3 DEF ContEffect, DataEffect, RepoEffect
  <1>9. Types'
    BY <1>6, <1>7, <1>8 DEF RecoveryInv, Types
  <1> QED  BY <1>5, <1>6, <1>7, <1>8, <1>9, RequestStep

LEMMA ProcessKeeps ==
    ASSUME RecoveryInv, Shutdown \/ Restart \/ PromoteThrows
    PROVE  RecoveryInv'
  <1>1. UNCHANGED <<store, row, data, repo, net, cont, job, run>> /\ promo' \in {promo, 0}
    BY DEF Shutdown, Restart, PromoteThrows, Untouched
  <1>2. process' \in {"up", "stopping"} /\ faults' \in 0..MaxFaults /\ promo' \in 0..12
    BY BoundsAssumption DEF Shutdown, Restart, PromoteThrows, RecoveryInv, Types, Fault
  <1>3. Types'
    BY <1>1, <1>2 DEF RecoveryInv, Types
  <1> QED  BY <1>1, <1>3, RequestStep DEF KeptRow
-----------------------------------------------------------------------------
(* Recovery: the handlers. *)

\* What a handler's step leaves of the other jobs.
OnlyJob(j) ==
    /\ job' \in [Jobs -> JobRow] /\ run' \in [Jobs -> Handler]
    /\ \A k \in Jobs : k # j => job'[k] = job[k] /\ run'[k] = run[k]

\* A handler goes on, having checkpointed what its table says.
Gone(j, i) ==
    /\ OnlyJob(j)
    /\ job'[j].state = job[j].state /\ job'[j].attempts = job[j].attempts
    /\ run'[j].at = i /\ run'[j].ref = run[j].ref
    /\ run'[j].again = (run[j].again /\ run[j].at # 9)
    /\ job'[j].steps = IF run[j].at > PathEnd(j) \/ (run[j].again /\ run[j].at < 9) \/ StepAfter(j, run[j].at) = 0
                       THEN job[j].steps ELSE StepAfter(j, run[j].at)

LEMMA GoesToEffect ==
    ASSUME Types, NEW j \in Jobs, NEW i \in 1..17, NEW cid \in {0} \cup Ids, GoesTo(j, i, cid),
           run[j].at <= PathEnd(j) => StepAfter(j, run[j].at) \in 0..6
    PROVE  Gone(j, i)
  <1>1. PICK jr \in JobRow : jr = job[j]
    BY DEF Types
  <1>2. PICK h \in Handler : h = run[j]
    BY DEF Types
  <1>3. jr.steps \in 0..6 /\ h.again \in BOOLEAN /\ h.at \in 0..17 /\ h.old \in {0} \cup Ids
    BY DEF JobRow, Handler
  <1>4. PathEnd(j) \in Int
    BY LastCall, Names
  <1>5. PICK s \in 0..6 : s = IF h.at > PathEnd(j) \/ (h.again /\ h.at < 9) \/ StepAfter(j, h.at) = 0
                              THEN jr.steps ELSE StepAfter(j, h.at)
    BY <1>2, <1>3, <1>4
  <1>6. [jr EXCEPT !.steps = s] \in JobRow /\ [jr EXCEPT !.steps = s].state = jr.state
        /\ [jr EXCEPT !.steps = s].attempts = jr.attempts /\ [jr EXCEPT !.steps = s].steps = s
    BY DEF JobRow
  <1>7. job' = [job EXCEPT ![j] = [jr EXCEPT !.steps = s]]
    <2>1. job' = [job EXCEPT ![j].steps =
                    IF (IF h.at > PathEnd(j) \/ (h.again /\ h.at < 9) THEN 0 ELSE StepAfter(j, h.at)) = 0
                    THEN jr.steps
                    ELSE IF h.at > PathEnd(j) \/ (h.again /\ h.at < 9) THEN 0 ELSE StepAfter(j, h.at)]
      BY <1>1, <1>2 DEF GoesTo, AwaitAt
    <2>2. s = (IF (IF h.at > PathEnd(j) \/ (h.again /\ h.at < 9) THEN 0 ELSE StepAfter(j, h.at)) = 0
               THEN jr.steps
               ELSE IF h.at > PathEnd(j) \/ (h.again /\ h.at < 9) THEN 0 ELSE StepAfter(j, h.at))
      BY <1>5
    <2> QED  BY <1>1, <2>1, <2>2
  <1>8. PICK x \in Handler : /\ run' = [run EXCEPT ![j] = x]
                             /\ x.at = i /\ x.ref = h.ref /\ x.again = (h.again /\ h.at # 9)
    <2>1. CASE h.at = 9 /\ h.again
      <3>1. run' = [run EXCEPT ![j] = [h EXCEPT !.at = i, !.again = FALSE, !.cid = h.old]]
        BY <1>2, <2>1 DEF GoesTo, AwaitAt
      <3>2. [h EXCEPT !.at = i] \in Handler /\ [h EXCEPT !.at = i].at = i /\ [h EXCEPT !.at = i].ref = h.ref
        BY DEF Handler
      <3>3. PICK y : y = [h EXCEPT !.at = i]
        OBVIOUS
      <3>4. y \in Handler /\ y.at = i /\ y.ref = h.ref
        BY <3>2, <3>3
      <3>5. [y EXCEPT !.again = FALSE] \in Handler /\ [y EXCEPT !.again = FALSE].at = i
            /\ [y EXCEPT !.again = FALSE].ref = h.ref /\ [y EXCEPT !.again = FALSE].again = FALSE
        BY <3>4 DEF Handler
      <3>6. PICK z : z = [y EXCEPT !.again = FALSE]
        OBVIOUS
      <3>7. z \in Handler /\ z.at = i /\ z.ref = h.ref /\ z.again = FALSE
        BY <3>5, <3>6
      <3>8. [z EXCEPT !.cid = h.old] \in Handler /\ [z EXCEPT !.cid = h.old].at = i
            /\ [z EXCEPT !.cid = h.old].ref = h.ref /\ [z EXCEPT !.cid = h.old].again = FALSE
        BY <1>3, <3>7 DEF Handler
      <3>9. [z EXCEPT !.cid = h.old] = [h EXCEPT !.at = i, !.again = FALSE, !.cid = h.old]
        BY <3>3, <3>6
      <3>10. FALSE = (h.again /\ h.at # 9)
        BY <2>1
      <3>11. PICK w : w = [z EXCEPT !.cid = h.old]
        OBVIOUS
      <3>12. w \in Handler /\ w.at = i /\ w.ref = h.ref /\ w.again = FALSE
        BY <3>8, <3>11
      <3>14. w.again = (h.again /\ h.at # 9)
        BY <3>10, <3>12
      <3>13. run' = [run EXCEPT ![j] = w]
        BY <3>1, <3>9, <3>11
      <3> QED  BY <3>12, <3>13, <3>14
    <2>2. CASE ~(h.at = 9 /\ h.again)
      <3>1. run' = [run EXCEPT ![j] = [h EXCEPT !.at = i, !.cid = cid]]
        BY <1>2, <2>2 DEF GoesTo, AwaitAt
      <3>2. [h EXCEPT !.at = i] \in Handler /\ [h EXCEPT !.at = i].at = i /\ [h EXCEPT !.at = i].ref = h.ref
            /\ [h EXCEPT !.at = i].again = h.again
        BY DEF Handler
      <3>4. PICK y : y = [h EXCEPT !.at = i]
        OBVIOUS
      <3>5. y \in Handler /\ y.at = i /\ y.ref = h.ref /\ y.again = h.again
        BY <3>2, <3>4
      <3>6. [y EXCEPT !.cid = cid] \in Handler /\ [y EXCEPT !.cid = cid].at = i
            /\ [y EXCEPT !.cid = cid].ref = h.ref /\ [y EXCEPT !.cid = cid].again = h.again
        BY <3>5 DEF Handler
      <3>7. [y EXCEPT !.cid = cid] = [h EXCEPT !.at = i, !.cid = cid]
        BY <3>4
      <3>3. h.again = (h.again /\ h.at # 9)
        BY <1>3, <2>2
      <3>8. PICK w : w = [y EXCEPT !.cid = cid]
        OBVIOUS
      <3>9. w \in Handler /\ w.at = i /\ w.ref = h.ref /\ w.again = (h.again /\ h.at # 9)
        BY <3>3, <3>6, <3>8
      <3>10. run' = [run EXCEPT ![j] = w]
        BY <3>1, <3>7, <3>8
      <3> QED  BY <3>9, <3>10
    <2> QED  BY <2>1, <2>2
  <1>9. OnlyJob(j) /\ job'[j] = [jr EXCEPT !.steps = s] /\ run'[j] = x
    BY <1>6, <1>7, <1>8 DEF Types, OnlyJob
  <1> QED  BY <1>1, <1>2, <1>5, <1>6, <1>8, <1>9 DEF Gone

\* A handler ends: a job that is over or is to be tried again, with what it has checkpointed or,
\* when it succeeded, with nothing.
Concluded(j) ==
    /\ OnlyJob(j)
    /\ job'[j].state \in {"queued", "succeeded", "failed", "cancelled"}
    /\ job'[j].steps = IF job'[j].state = "succeeded" THEN 0 ELSE job[j].steps
    /\ run'[j].at = 0 /\ run'[j].again = FALSE

LEMMA NoRunTyped == NoRun \in Handler /\ NoRun.at = 0 /\ NoRun.again = FALSE
  BY Names DEF NoRun, Handler

LEMMA FinishesEffect ==
    ASSUME Types, NEW j \in Jobs, Finishes(j)
    PROVE  Concluded(j) /\ job'[j].state = "succeeded"
  <1>1. PICK jr \in JobRow : jr = job[j]
    BY DEF Types
  <1>2. [jr EXCEPT !.state = "succeeded"] \in JobRow /\ [jr EXCEPT !.state = "succeeded"].state = "succeeded"
    BY DEF JobRow
  <1>7. PICK x : x = [jr EXCEPT !.state = "succeeded"]
    OBVIOUS
  <1>8. x \in JobRow /\ x.state = "succeeded"
    BY <1>2, <1>7
  <1>9. [x EXCEPT !.steps = 0] \in JobRow /\ [x EXCEPT !.steps = 0].state = "succeeded"
        /\ [x EXCEPT !.steps = 0].steps = 0
    BY <1>8 DEF JobRow
  <1>10. PICK y : y = [x EXCEPT !.steps = 0]
    OBVIOUS
  <1>3. y \in JobRow /\ y.state = "succeeded" /\ y.steps = 0
    BY <1>9, <1>10
  <1>4. job' = [job EXCEPT ![j] = y]
    <2>1. job' = [job EXCEPT ![j].state = "succeeded", ![j].steps = 0]
      BY DEF Finishes
    <2> QED  BY <1>1, <1>7, <1>10, <2>1
  <1>5. run' = [run EXCEPT ![j] = NoRun]
    BY DEF Finishes
  <1>6. OnlyJob(j) /\ job'[j] = y /\ run'[j] = NoRun
    BY <1>3, <1>4, <1>5, NoRunTyped DEF Types, OnlyJob
  <1> QED  BY <1>3, <1>6, NoRunTyped DEF Concluded

\* What is left of a job whose attempt failed or was interrupted.
Attempted(x, j) == /\ x \in JobRow /\ x.steps = job[j].steps
                   /\ x.state \in {"queued", "failed", "cancelled"}

LEMMA FailedJob ==
    ASSUME Types, NEW j \in Jobs
    PROVE  /\ Attempted(FailedAttempt(j), j)
           /\ FailedAttempt(j).state = IF job[j].attempts >= MaxAttempts[j] THEN "failed" ELSE "queued"
  <1>1. PICK jr \in JobRow : jr = job[j]
    BY DEF Types
  <1>2. PICK s \in {"failed", "queued"} : s = IF job[j].attempts >= MaxAttempts[j] THEN "failed" ELSE "queued"
    OBVIOUS
  <1>3. FailedAttempt(j) = [jr EXCEPT !.state = s]
    BY <1>1, <1>2 DEF FailedAttempt
  <1>4. [jr EXCEPT !.state = s] \in JobRow /\ [jr EXCEPT !.state = s].state = s
        /\ [jr EXCEPT !.state = s].steps = jr.steps
    BY DEF JobRow
  <1> QED  BY <1>1, <1>2, <1>3, <1>4 DEF Attempted

LEMMA CancelledJob ==
    ASSUME Types, NEW j \in Jobs, job[j].attempts > 0
    PROVE  Attempted(CancelledAttempt(j), j)
  <1>1. PICK jr \in JobRow : jr = job[j]
    BY DEF Types
  <1>2. CASE job[j].cancel /\ Up
    <2>1. CancelledAttempt(j) = [jr EXCEPT !.state = "cancelled"]
      BY <1>1, <1>2 DEF CancelledAttempt
    <2>2. [jr EXCEPT !.state = "cancelled"] \in JobRow /\ [jr EXCEPT !.state = "cancelled"].state = "cancelled"
          /\ [jr EXCEPT !.state = "cancelled"].steps = jr.steps
      BY DEF JobRow
    <2> QED  BY <1>1, <2>1, <2>2 DEF Attempted
  <1>3. CASE ~(job[j].cancel /\ Up)
    <2>1. PICK n \in Nat : n = jr.attempts - 1
      BY <1>1 DEF JobRow
    <2>2. CancelledAttempt(j) = [jr EXCEPT !.state = "queued", !.attempts = n]
      BY <1>1, <1>3, <2>1 DEF CancelledAttempt
    <2>3. [jr EXCEPT !.state = "queued"] \in JobRow /\ [jr EXCEPT !.state = "queued"].state = "queued"
          /\ [jr EXCEPT !.state = "queued"].steps = jr.steps
      BY DEF JobRow
    <2>4. PICK x : x = [jr EXCEPT !.state = "queued"]
      OBVIOUS
    <2>5. x \in JobRow /\ x.state = "queued" /\ x.steps = jr.steps
      BY <2>3, <2>4
    <2>6. [x EXCEPT !.attempts = n] \in JobRow /\ [x EXCEPT !.attempts = n].state = "queued"
          /\ [x EXCEPT !.attempts = n].steps = jr.steps
      BY <2>5 DEF JobRow
    <2>7. CancelledAttempt(j) = [x EXCEPT !.attempts = n]
      BY <2>2, <2>4
    <2> QED  BY <1>1, <2>6, <2>7 DEF Attempted
  <1> QED  BY <1>2, <1>3

LEMMA AttemptEnds ==
    ASSUME Types, NEW j \in Jobs, NEW x, Attempted(x, j),
           job' = [job EXCEPT ![j] = x], run' = [run EXCEPT ![j] = NoRun]
    PROVE  Concluded(j) /\ job'[j] = x
  <1>1. OnlyJob(j) /\ job'[j] = x /\ run'[j] = NoRun
    BY NoRunTyped DEF Types, OnlyJob, Attempted
  <1> QED  BY <1>1, NoRunTyped DEF Concluded, Attempted

\* The jobs of the others go on as they were.
LEMMA RunsSet ==
    ASSUME RunsInv, NEW j \in Jobs, OnlyJob(j), RunOf(j)',
           row'[Restored].method = row[Restored].method
    PROVE  RunsInv'
  BY RunKept DEF RunsInv, OnlyJob

LEMMA EndedRuns ==
    ASSUME RecoveryInv, NEW j \in Jobs, Concluded(j), row'[Restored].method = row[Restored].method
    PROVE  RunsInv'
  <1>1. RunOf(j) /\ RunsInv /\ OnlyJob(j)
    BY DEF RecoveryInv, RunsInv, Concluded
  <1>2. job[j].steps \in 0..6
    BY DEF RecoveryInv, Types, JobRow
  <1>3. Furthest(j)' \in Nat /\ MostSteps(j)' = MostSteps(j) /\ MostSteps(j) \in Nat
    BY DEF Furthest, MostSteps, Branching
  <1>4. RunOf(j)'
    BY <1>1, <1>2, <1>3 DEF RunOf, Concluded
  <1> QED  BY <1>1, <1>4, RunsSet
-----------------------------------------------------------------------------
(* Recovery: what every step of a handler keeps. *)

HostStep(j) == Untouched \/ (run[j].at # 0 /\ Works(j))

LEMMA HostTypes ==
    ASSUME Types, NEW j \in Jobs, HostStep(j)
    PROVE  /\ cont' \in [Projects -> Container] /\ data' \in [Projects -> DataStates]
           /\ repo' \in [Projects -> RepoStates] /\ net' \subseteq Projects
  <1>1. CASE Untouched
    BY <1>1 DEF Types, Untouched
  <1>2. CASE Works(j)
    BY <1>2, WorksTypes
  <1> QED  BY <1>1, <1>2 DEF HostStep

\* What a deletion cleared stays cleared.
LEMMA ClearedStays ==
    ASSUME RecoveryInv, ~Swapped, NEW j \in Jobs, HostStep(j), NEW q \in Projects,
           run'[q].at \in {run[q].at, 0}, job'[q].steps = job[q].steps, row'[q].deleted = row[q].deleted
    PROVE  Cleared(q)'
  <1>1. Cleared(q) /\ q \in Jobs
    BY Names DEF RecoveryInv, Unswapped
  <1>2. run[q].at = 4 \/ job[q].steps = 3 \/ run[q].at = 5 \/ row[q].deleted => job[q].state # "none"
    <2>1. RunOf(q) /\ (row[q].deleted => job[q].state = "succeeded")
      BY <1>1 DEF RecoveryInv, RunsInv, Unswapped, Deleting
    <2> QED  BY <2>1 DEF RunOf
  <1>3. job[q].state # "none" =>
           /\ data[q] = "none" => data'[q] = "none"
           /\ cont[q].id = 0 => cont'[q].id = 0
           /\ repo[q] \in {"none", "empty"} => repo'[q] \in {"none", "empty"}
    <2>1. CASE Untouched
      BY <2>1 DEF Untouched
    <2>2. CASE run[j].at # 0 /\ Works(j)
      BY <2>2, GoneStays
    <2> QED  BY <2>1, <2>2 DEF HostStep
  <1> QED  BY <1>1, <1>2, <1>3 DEF Cleared

\* So does what a copy made.
MadeKept ==
    /\ row[Restored].state = "absent" => ~cont'[Restored].src
    /\ row[Restored].state # "absent" /\ Branching => ~cont'[Restored].src
    /\ row[Restored].state # "absent" /\ ~Branching =>
         /\ Unsettled(Copying) /\ job[Copying].steps >= 4 => data'[Restored] = "database"
         /\ Unsettled(Copying) /\ job[Copying].steps = 5 => repo'[Restored] = "backup"
         /\ run[Copying].at = 15 => ~cont'[Restored].src
         /\ Done /\ job[Restored].state = "none" =>
              data'[Restored] = "database" /\ repo'[Restored] = "backup" /\ ~cont'[Restored].src

LEMMA HostMade ==
    ASSUME RecoveryInv, ~Swapped, NEW j \in Jobs, HostStep(j)
    PROVE  MadeKept
  <1>0. /\ row[Restored].state = "absent" => ~cont[Restored].src
        /\ row[Restored].state # "absent" /\ Branching => ~cont[Restored].src
        /\ row[Restored].state # "absent" /\ ~Branching => Made
    BY DEF RecoveryInv, Unswapped, Copied, Progress, Made
  <1>1. CASE Untouched
    BY <1>0, <1>1 DEF Untouched, MadeKept, Made
  <1>2. CASE run[j].at # 0 /\ Works(j)
    <2>1. row[Restored].state = "absent" => ~cont'[Restored].src
      <3> SUFFICES ASSUME row[Restored].state = "absent" PROVE ~cont'[Restored].src
        OBVIOUS
      <3>1. job[j].state = "running"
        BY <1>2, RunsWithin
      <3>2. job[Restored].state = "none" /\ job[Copying].state = "none"
        BY Names DEF RecoveryInv, Unswapped, Deleting, CopyRow
      <3>3. Of(j) # Restored
        BY <3>1, <3>2, Names
      <3>4. cont'[Restored] = cont[Restored]
        BY <1>2, <3>3, OthersKept, Names
      <3> QED  BY <1>0, <3>4
    <2>2. /\ Branching => ~cont'[Restored].src
          /\ ~Branching =>
                /\ Unsettled(Copying) /\ job[Copying].steps >= 4 => data'[Restored] = "database"
                /\ Unsettled(Copying) /\ job[Copying].steps = 5 => repo'[Restored] = "backup"
                /\ run[Copying].at \in {14, 15} => ~cont'[Restored].src \/ (j # Copying /\ run[Copying].at = 14)
                /\ Done /\ job[Restored].state = "none" =>
                     data'[Restored] = "database" /\ repo'[Restored] = "backup" /\ ~cont'[Restored].src
      BY <1>2, MadeStays
    <2>3. run[Copying].at = 15 => run[Copying].at \in {14, 15} /\ run[Copying].at # 14
      OBVIOUS
    <2> QED  BY <2>1, <2>2, <2>3 DEF MadeKept
  <1> QED  BY <1>1, <1>2 DEF HostStep

-----------------------------------------------------------------------------
(* Recovery: rows. *)

\* A row with another state, container id, mark of the source's repository, mark of deletion.
RowWith(x, r, s, c, b, d) ==
    /\ x \in ProjectRow /\ x.ref = r.ref /\ x.method = r.method
    /\ x.state = s /\ x.cid = c /\ x.sourceRepo = b /\ x.deleted = d

RowBecomes(p, s, c, b, d) ==
    /\ row' \in [Projects -> ProjectRow] /\ RowWith(row'[p], row[p], s, c, b, d)
    /\ \A q \in Projects : q # p => row'[q] = row[q]

LEMMA CidField ==
    \A r \in ProjectRow, c \in {0} \cup Ids :
        RowWith([r EXCEPT !.cid = c], r, r.state, c, r.sourceRepo, r.deleted)
  BY DEF ProjectRow, RowWith

LEMMA RepoField ==
    \A r \in ProjectRow, b \in BOOLEAN : RowWith([r EXCEPT !.sourceRepo = b], r, r.state, r.cid, b, r.deleted)
  BY DEF ProjectRow, RowWith

LEMMA StateField ==
    \A r \in ProjectRow, s \in RowStates : RowWith([r EXCEPT !.state = s], r, s, r.cid, r.sourceRepo, r.deleted)
  BY DEF ProjectRow, RowWith, RowStates

LEMMA DeletedField ==
    \A r \in ProjectRow : RowWith([r EXCEPT !.deleted = TRUE], r, r.state, r.cid, r.sourceRepo, TRUE)
  BY DEF ProjectRow, RowWith

\* The row of one project is replaced.
LEMMA RowReplaced ==
    ASSUME Types, NEW p \in Projects, NEW x, NEW s, NEW c, NEW b, NEW d,
           RowWith(x, row[p], s, c, b, d), row' = [row EXCEPT ![p] = x]
    PROVE  RowBecomes(p, s, c, b, d)
  BY DEF Types, RowBecomes, RowWith

\* A container id is recorded.
LEMMA CidSet ==
    ASSUME Types, NEW p \in Projects, NEW c \in {0} \cup Ids, row' = [row EXCEPT ![p].cid = c]
    PROVE  RowBecomes(p, row[p].state, c, row[p].sourceRepo, row[p].deleted)
  <1>1. PICK r \in ProjectRow : r = row[p]
    BY DEF Types
  <1>2. PICK x : x = [r EXCEPT !.cid = c]
    OBVIOUS
  <1>3. RowWith(x, r, r.state, c, r.sourceRepo, r.deleted)
    BY <1>2, CidField
  <1>4. row' = [row EXCEPT ![p] = x]
    BY <1>1, <1>2
  <1> QED  BY <1>1, <1>3, <1>4, RowReplaced

\* A container id and whether it mounts the source's repository.
LEMMA RecordsSet ==
    ASSUME Types, NEW p \in Projects, NEW c \in {0} \cup Ids, NEW b \in BOOLEAN,
           row' = [row EXCEPT ![p].cid = c, ![p].sourceRepo = b]
    PROVE  RowBecomes(p, row[p].state, c, b, row[p].deleted)
  <1>1. PICK r \in ProjectRow : r = row[p]
    BY DEF Types
  <1>2. PICK x : x = [r EXCEPT !.cid = c]
    OBVIOUS
  <1>3. RowWith(x, r, r.state, c, r.sourceRepo, r.deleted)
    BY <1>2, CidField
  <1>4. PICK y : y = [x EXCEPT !.sourceRepo = b]
    OBVIOUS
  <1>5. RowWith(y, x, x.state, x.cid, b, x.deleted)
    <2>1. x \in ProjectRow
      BY <1>3 DEF RowWith
    <2> QED  BY <1>4, <2>1, RepoField
  <1>6. RowWith(y, r, r.state, c, b, r.deleted)
    BY <1>3, <1>5 DEF RowWith
  <1>7. row' = [row EXCEPT ![p] = y]
    BY <1>1, <1>2, <1>4
  <1> QED  BY <1>1, <1>6, <1>7, RowReplaced

\* Both, and the state.
LEMMA RecordsState ==
    ASSUME Types, NEW p \in Projects, NEW c \in {0} \cup Ids, NEW b \in BOOLEAN, NEW s \in RowStates,
           row' = [[row EXCEPT ![p].cid = c, ![p].sourceRepo = b] EXCEPT ![p].state = s]
    PROVE  RowBecomes(p, s, c, b, row[p].deleted)
  <1>1. PICK r \in ProjectRow : r = row[p]
    BY DEF Types
  <1>2. PICK x : x = [r EXCEPT !.cid = c]
    OBVIOUS
  <1>3. RowWith(x, r, r.state, c, r.sourceRepo, r.deleted)
    BY <1>2, CidField
  <1>4. PICK y : y = [x EXCEPT !.sourceRepo = b]
    OBVIOUS
  <1>5. RowWith(y, x, x.state, x.cid, b, x.deleted)
    <2>1. x \in ProjectRow
      BY <1>3 DEF RowWith
    <2> QED  BY <1>4, <2>1, RepoField
  <1>6. PICK z : z = [y EXCEPT !.state = s]
    OBVIOUS
  <1>7. RowWith(z, y, s, y.cid, y.sourceRepo, y.deleted)
    <2>1. y \in ProjectRow
      BY <1>5 DEF RowWith
    <2> QED  BY <1>6, <2>1, StateField
  <1>8. RowWith(z, r, s, c, b, r.deleted)
    BY <1>3, <1>5, <1>7 DEF RowWith
  <1>9. row' = [row EXCEPT ![p] = z]
    BY <1>1, <1>2, <1>4, <1>6
  <1> QED  BY <1>1, <1>8, <1>9, RowReplaced

\* A state.
LEMMA StateIs ==
    ASSUME Types, NEW p \in Projects, NEW s \in RowStates, row' = [row EXCEPT ![p].state = s]
    PROVE  RowBecomes(p, s, row[p].cid, row[p].sourceRepo, row[p].deleted)
  <1>1. PICK r \in ProjectRow : r = row[p]
    BY DEF Types
  <1>2. PICK x : x = [r EXCEPT !.state = s]
    OBVIOUS
  <1>3. RowWith(x, r, s, r.cid, r.sourceRepo, r.deleted)
    BY <1>2, StateField
  <1>4. row' = [row EXCEPT ![p] = x]
    BY <1>1, <1>2
  <1> QED  BY <1>1, <1>3, <1>4, RowReplaced

\* A project is retired.
LEMMA DeletedSet ==
    ASSUME Types, NEW p \in Projects, row' = [row EXCEPT ![p].deleted = TRUE, ![p].cid = 0]
    PROVE  RowBecomes(p, row[p].state, 0, row[p].sourceRepo, TRUE)
  <1>1. PICK r \in ProjectRow : r = row[p]
    BY DEF Types
  <1>2. PICK x : x = [r EXCEPT !.deleted = TRUE]
    OBVIOUS
  <1>3. RowWith(x, r, r.state, r.cid, r.sourceRepo, TRUE)
    BY <1>2, DeletedField
  <1>4. PICK y : y = [x EXCEPT !.cid = 0]
    OBVIOUS
  <1>5. RowWith(y, x, x.state, 0, x.sourceRepo, x.deleted)
    <2>1. x \in ProjectRow /\ 0 \in {0} \cup Ids
      BY <1>3 DEF RowWith
    <2> QED  BY <1>4, <2>1, CidField
  <1>6. RowWith(y, r, r.state, 0, r.sourceRepo, TRUE)
    BY <1>3, <1>5 DEF RowWith
  <1>7. row' = [row EXCEPT ![p] = y]
    BY <1>1, <1>2, <1>4
  <1> QED  BY <1>1, <1>6, <1>7, RowReplaced
-----------------------------------------------------------------------------
(* Recovery: copies, deletions, promotion. *)

LEMMA InitHolds ==
    ASSUME Init
    PROVE  RecoveryInv
  <1>1. NoContainer \in Container /\ NoContainer.id = 0 /\ NoContainer.src = FALSE
    BY Names DEF NoContainer, Container, Ids
  <1>13. [NoContainer EXCEPT !.id = 1, !.up = TRUE] \in Container
    <2>1. \A c \in Container : [c EXCEPT !.id = 1, !.up = TRUE] \in Container
      <3> TAKE c \in Container
      <3>1. PICK y : y = [c EXCEPT !.id = 1]
        OBVIOUS
      <3>2. y \in Container
        BY <3>1 DEF Container, Ids
      <3>3. [y EXCEPT !.up = TRUE] \in Container
        BY <3>2 DEF Container
      <3> QED  BY <3>1, <3>3
    <2> QED  BY <1>1, <2>1
  <1>2. cont \in [Projects -> Container] /\ cont[Restored] = NoContainer
    BY <1>1, <1>13, Names DEF Init
  <1>3. NoJob \in JobRow /\ NoJob.state = "none" /\ NoJob.steps = 0
    BY DEF NoJob, JobRow
  <1>4. job \in [Jobs -> JobRow] /\ run \in [Jobs -> Handler]
        /\ \A j \in Jobs : /\ job[j].state = "none" /\ job[j].steps = 0
                           /\ run[j].at = 0 /\ run[j].again = FALSE
    BY <1>3, NoRunTyped DEF Init
  <1>5. row \in [Projects -> ProjectRow]
    BY Names DEF Init, ProjectRow, Ids
  <1>6. /\ \A p \in Projects : row[p].ref = p /\ ~row[p].deleted
        /\ row[Source].state = "running" /\ row[Restored].state = "absent" /\ row[Restored].cid = 0
    BY Names DEF Init
  <1>7. Types
    BY <1>2, <1>4, <1>5, Names, BoundsAssumption DEF Init, Types, DataStates, RepoStates
  <1>8. RunsInv
    BY <1>4 DEF RunsInv, RunOf, Furthest, MostSteps
  <1>9. promo = 0 /\ ~Swapped
    BY <1>6, Names DEF Init, Swapped
  <1>10. CopyRow
    BY <1>4, <1>6, <1>9, Names DEF CopyRow
  <1>11. OwnRefs /\ Deleting /\ (\A p \in Projects : Cleared(p))
    BY <1>4, <1>6, <1>9, Names DEF OwnRefs, Deleting, Cleared, Unsettled
  <1>12. Copied
    BY <1>1, <1>2, <1>6 DEF Copied
  <1> QED  BY <1>7, <1>8, <1>10, <1>11, <1>12 DEF RecoveryInv, Unswapped

LEMMA QueuedJob == Queued \in JobRow /\ Queued.state = "queued" /\ Queued.steps = 0
  <1>1. NoJob \in JobRow /\ NoJob.steps = 0
    BY DEF NoJob, JobRow
  <1>2. \A x \in JobRow : /\ [x EXCEPT !.state = "queued"] \in JobRow
                          /\ [x EXCEPT !.state = "queued"].state = "queued"
                          /\ [x EXCEPT !.state = "queued"].steps = x.steps
    BY DEF JobRow
  <1>3. PICK x \in JobRow : x = NoJob
    BY <1>1
  <1>4. Queued = [x EXCEPT !.state = "queued"]
    BY <1>3 DEF Queued
  <1> QED  BY <1>1, <1>2, <1>3, <1>4

LEMMA CopiesKeeps ==
    ASSUME RecoveryInv, row[Restored].state = "absent",
           NEW m \in {"latest", "late", "cow"}, NEW e \in BOOLEAN, Copies(m, e)
    PROVE  RecoveryInv'
  <1>1. job[Copying].state = "none" /\ ~Swapped /\ Copying \in Jobs
    BY Names DEF RecoveryInv, CopyRow
  <1>2. run[Copying].at = 0 /\ ~run[Copying].again
    <2>1. RunOf(Copying) /\ run[Copying].again \in BOOLEAN /\ run[Copying].at \in 0..17
      BY <1>1 DEF RecoveryInv, RunsInv, Types, Handler
    <2> QED  BY <1>1, <2>1 DEF RunOf
  <1>3. UNCHANGED <<store, data, repo, net, cont, run, promo, process, faults>>
        /\ job' = [job EXCEPT ![Copying] = Queued]
    BY DEF Copies
  <1>4. job' \in [Jobs -> JobRow] /\ job'[Copying] = Queued
        /\ \A j \in Jobs : j # Copying => job'[j] = job[j]
    BY <1>1, <1>3, QueuedJob DEF RecoveryInv, Types
  <1>5. PICK r \in ProjectRow : r = row[Restored]
    BY Names DEF RecoveryInv, Types
  <1>6. PICK x : /\ x \in ProjectRow /\ row' = [row EXCEPT ![Restored] = x]
                 /\ x.state = "creating" /\ x.ref = r.ref /\ x.cid = r.cid
                 /\ x.sourceRepo = r.sourceRepo /\ x.deleted = r.deleted
    <2>1. [r EXCEPT !.state = "creating"] \in ProjectRow
          /\ RowWith([r EXCEPT !.state = "creating"], r, "creating", r.cid, r.sourceRepo, r.deleted)
      BY StateField DEF RowStates, RowWith
    <2>2. PICK a : a = [r EXCEPT !.state = "creating"]
      OBVIOUS
    <2>3. a \in ProjectRow /\ RowWith(a, r, "creating", r.cid, r.sourceRepo, r.deleted)
      BY <2>1, <2>2
    <2>4. LET y == [a EXCEPT !.method = m]
          IN  /\ y \in ProjectRow /\ y.state = a.state /\ y.ref = a.ref /\ y.cid = a.cid
              /\ y.sourceRepo = a.sourceRepo /\ y.deleted = a.deleted
      BY <2>3 DEF ProjectRow
    <2>5. PICK b : b = [a EXCEPT !.method = m]
      OBVIOUS
    <2>6. /\ b \in ProjectRow /\ b.state = a.state /\ b.ref = a.ref /\ b.cid = a.cid
          /\ b.sourceRepo = a.sourceRepo /\ b.deleted = a.deleted
      BY <2>4, <2>5
    <2>7. LET y == [b EXCEPT !.expires = e]
          IN  /\ y \in ProjectRow /\ y.state = b.state /\ y.ref = b.ref /\ y.cid = b.cid
              /\ y.sourceRepo = b.sourceRepo /\ y.deleted = b.deleted
      BY <2>6 DEF ProjectRow
    <2>8. PICK x : x = [b EXCEPT !.expires = e]
      OBVIOUS
    <2>9. row' = [row EXCEPT ![Restored] = x]
      BY <1>5, <2>2, <2>5, <2>8 DEF Copies
    <2>10. /\ x \in ProjectRow /\ x.state = "creating" /\ x.ref = r.ref /\ x.cid = r.cid
           /\ x.sourceRepo = r.sourceRepo /\ x.deleted = r.deleted
      BY <2>3, <2>6, <2>7, <2>8 DEF RowWith
    <2> QED  BY <2>9, <2>10
  <1>7. row' \in [Projects -> ProjectRow] /\ row'[Restored] = x /\ row'[Source] = row[Source]
    BY <1>6, Names DEF RecoveryInv, Types
  <1>8. Types'
    BY <1>3, <1>4, <1>7 DEF RecoveryInv, Types
  <1>9. RunsInv'
    <2>1. ASSUME NEW j \in Jobs, j # Copying PROVE RunOf(j)'
      <3>1. RunOf(j) /\ Furthest(j)' = Furthest(j) /\ MostSteps(j)' = MostSteps(j)
        BY <2>1 DEF RecoveryInv, RunsInv, Furthest, MostSteps
      <3> QED  BY <1>3, <1>4, <2>1, <3>1 DEF RunOf
    <2>2. RunOf(Copying)'
      <3>1. Furthest(Copying)' \in Nat /\ MostSteps(Copying)' \in Nat
        BY DEF Furthest, MostSteps
      <3> QED  BY <1>2, <1>3, <1>4, <3>1, QueuedJob DEF RunOf
    <2> QED  BY <2>1, <2>2 DEF RunsInv
  <1>10. \A p \in Projects : row'[p].ref = row[p].ref /\ row'[p].deleted = row[p].deleted
    BY <1>5, <1>6, <1>7, Names
  <1>11. ~Swapped' /\ OwnRefs'
    BY <1>1, <1>3, <1>10, Names DEF RecoveryInv, Unswapped, OwnRefs, Swapped
  <1>12. CopyRow'
    BY <1>3, <1>4, <1>6, <1>7, <1>11, QueuedJob DEF RecoveryInv, CopyRow, Unswapped, OwnRefs
  <1>13. Deleting'
    <2>1. job[Restored].state = "none"
      BY <1>1, Names DEF RecoveryInv, Unswapped, Deleting
    <2> QED  BY <1>1, <1>4, <1>6, <1>7, <1>10, <2>1, Names DEF RecoveryInv, Unswapped, Deleting
  <1>14. ASSUME NEW p \in Projects PROVE Cleared(p)'
    <2>1. Cleared(p)
      BY <1>1 DEF RecoveryInv, Unswapped
    <2> QED  BY <1>3, <1>4, <1>10, <2>1, Names DEF Cleared
  <1>15. Copied'
    <2>1. ~cont[Restored].src /\ row[Restored].cid = 0
      BY <1>1 DEF RecoveryInv, Unswapped, Copied
    <2>2. Placed'
      BY <1>2, <1>3 DEF Placed
    <2>3. Progress'
      BY <1>2, <1>3, <1>4, <1>5, <1>6, <1>7, <2>1, QueuedJob DEF Progress, Done, Unsettled
    <2> QED  BY <1>3, <1>6, <1>7, <2>1, <2>2, <2>3 DEF Copied
  <1> QED  BY <1>8, <1>9, <1>12, <1>11, <1>13, <1>14, <1>15 DEF RecoveryInv, Unswapped

LEMMA DeleteKeeps ==
    ASSUME RecoveryInv, NEW p \in Projects, Delete(p)
    PROVE  RecoveryInv'
  <1>1. /\ row[p].state \notin {"absent", "deleting"} /\ ~row[p].deleted
        /\ job[p].state = "none" /\ (p = Restored => ~Unsettled(Copying))
        /\ row' = [row EXCEPT ![p].state = "deleting"] /\ job' = [job EXCEPT ![p] = Queued]
        /\ UNCHANGED <<store, data, repo, net, cont, run, promo, process, faults>>
    BY DEF Delete
  <1>2. p \in Jobs /\ p # Copying /\ Copying \in Jobs
    BY Names
  <1>3. job' \in [Jobs -> JobRow] /\ job'[p] = Queued /\ \A j \in Jobs : j # p => job'[j] = job[j]
    BY <1>1, <1>2, QueuedJob DEF RecoveryInv, Types
  <1>4. RowBecomes(p, "deleting", row[p].cid, row[p].sourceRepo, row[p].deleted)
    BY <1>1, StateIs DEF RecoveryInv, RowStates
  <1>5. /\ row' \in [Projects -> ProjectRow] /\ row'[p].state = "deleting"
        /\ \A q \in Projects : KeptRow(q) /\ (q # p => row'[q] = row[q])
    BY <1>4 DEF RowBecomes, RowWith, KeptRow
  <1>6. Types'
    BY <1>1, <1>3, <1>5 DEF RecoveryInv, Types
  <1>7. run[p].at = 0 /\ ~run[p].again
    <2>1. RunOf(p) /\ run[p].again \in BOOLEAN /\ run[p].at \in 0..17
      BY <1>2 DEF RecoveryInv, RunsInv, Types, Handler
    <2> QED  BY <1>1, <2>1 DEF RunOf
  <1>8. RunsInv'
    <2>1. row'[Restored].method = row[Restored].method
      BY <1>5, Names DEF KeptRow
    <2>2. OnlyJob(p)
      BY <1>1, <1>3 DEF OnlyJob, RecoveryInv, Types
    <2>3. RunOf(p)'
      <3>1. Furthest(p)' \in Nat /\ MostSteps(p)' \in Nat
        BY DEF Furthest, MostSteps
      <3> QED  BY <1>1, <1>3, <1>7, <3>1, QueuedJob DEF RunOf
    <2> QED  BY <1>2, <2>1, <2>2, <2>3, RunsSet DEF RecoveryInv
  <1>9. \A q \in Projects : row'[q].state = "absent" <=> row[q].state = "absent"
    BY <1>1, <1>5
  <1>10. job'[Copying] = job[Copying]
    BY <1>2, <1>3
  <1>11. CASE Swapped
    BY <1>5, <1>6, <1>8, <1>9, <1>10, <1>11, SwappedOn, Names DEF KeptRow
  <1>12. CASE ~Swapped
    <2>1. OwnRefs' /\ ~Swapped'
      BY <1>1, <1>5, <1>12, Names DEF RecoveryInv, Unswapped, OwnRefs, Swapped, KeptRow
    <2>2. CopyRow'
      BY <1>9, <1>10, <2>1, Names DEF RecoveryInv, CopyRow, OwnRefs
    <2>3. Deleting'
      <3>1. Deleting
        BY <1>12 DEF RecoveryInv, Unswapped
      <3> QED  BY <1>1, <1>2, <1>3, <1>5, <1>10, <3>1, QueuedJob, Names DEF Deleting, KeptRow, Unsettled
    <2>4. ASSUME NEW q \in Projects PROVE Cleared(q)'
      <3>1. Cleared(q)
        BY <1>12 DEF RecoveryInv, Unswapped
      <3>2. CASE q = p
        BY <1>1, <1>3, <1>5, <1>7, <3>2, QueuedJob DEF Cleared, KeptRow
      <3>3. CASE q # p
        BY <1>1, <1>3, <1>5, <3>1, <3>3, Names DEF Cleared
      <3> QED  BY <3>2, <3>3
    <2>5. Copied'
      <3>1. Copied
        BY <1>12 DEF RecoveryInv, Unswapped
      <3>2. (Branching' <=> Branching) /\ Done' = Done /\ KeptRow(Restored) /\ Unsettled(Copying)' = Unsettled(Copying)
        BY <1>5, <1>10, Names DEF KeptRow, Branching, Done, Unsettled
      <3>3. (job'[Restored].state = "none" => job[Restored].state = "none")
            /\ (row'[Restored].state \in {"running", "stopped"} => row'[Restored] = row[Restored])
        BY <1>1, <1>3, <1>5, QueuedJob, Names
      <3>4. Placed => Placed'
        BY <1>1, <1>10 DEF Placed
      <3>5. Progress => Progress'
        BY <1>1, <1>10, <3>2, <3>3 DEF Progress, KeptRow
      <3> QED  BY <1>1, <1>9, <3>1, <3>2, <3>4, <3>5, Names DEF Copied, KeptRow
    <2> QED  BY <1>6, <1>8, <2>1, <2>2, <2>3, <2>4, <2>5 DEF RecoveryInv, Unswapped
  <1> QED  BY <1>11, <1>12

LEMMA RequestCancelKeeps ==
    ASSUME RecoveryInv, RequestCancel
    PROVE  RecoveryInv'
  <1>1. PICK jr \in JobRow : jr = job[Copying]
    BY Names DEF RecoveryInv, Types
  <1>2. PICK s \in {"cancelled", "running"} : s = IF jr.state = "queued" THEN "cancelled" ELSE jr.state
    BY <1>1 DEF RequestCancel, Unsettled
  <1>3. LET x == [jr EXCEPT !.cancel = TRUE]
        IN  x \in JobRow /\ x.state = jr.state /\ x.steps = jr.steps /\ x.attempts = jr.attempts
    BY DEF JobRow
  <1>4. PICK x : x = [jr EXCEPT !.cancel = TRUE]
    OBVIOUS
  <1>5. x \in JobRow /\ x.state = jr.state /\ x.steps = jr.steps /\ x.attempts = jr.attempts
    BY <1>3, <1>4
  <1>6. LET y == [x EXCEPT !.state = s]
        IN  y \in JobRow /\ y.state = s /\ y.steps = x.steps /\ y.attempts = x.attempts
    BY <1>5 DEF JobRow
  <1>7. PICK y : y = [x EXCEPT !.state = s]
    OBVIOUS
  <1>8. y \in JobRow /\ y.state = s /\ y.steps = jr.steps /\ y.attempts = jr.attempts
    BY <1>5, <1>6, <1>7
  <1>9. job' = [job EXCEPT ![Copying] = y]
        /\ UNCHANGED <<store, row, data, repo, net, cont, run, promo, process, faults>>
    BY <1>1, <1>2, <1>4, <1>7 DEF RequestCancel
  <1>10. OnlyJob(Copying) /\ job'[Copying] = y
    BY <1>8, <1>9, Names DEF RecoveryInv, Types, OnlyJob
  <1>11. Types'
    BY <1>9, <1>10 DEF RecoveryInv, Types, OnlyJob
  <1>12. Copying \in Jobs /\ jr.state \in {"queued", "running"} /\ (s = "running" <=> jr.state = "running")
    BY <1>1, <1>2, Names DEF RequestCancel, Unsettled
  <1>13. RunsInv'
    <2>1. RunOf(Copying)
      BY <1>12 DEF RecoveryInv, RunsInv
    <2>2. Furthest(Copying)' = Furthest(Copying) /\ MostSteps(Copying)' = MostSteps(Copying)
      BY <1>9 DEF Furthest, MostSteps, Branching
    <2>3. RunOf(Copying)'
      BY <1>1, <1>8, <1>9, <1>10, <1>12, <2>1, <2>2 DEF RunOf
    <2> QED  BY <1>9, <1>10, <1>12, <2>3, RunsSet DEF RecoveryInv
  <1>14. CASE Swapped
    BY <1>1, <1>2, <1>8, <1>9, <1>10, <1>11, <1>12, <1>13, <1>14, SwappedOn
  <1>15. CASE ~Swapped
    <2>1. OwnRefs' /\ ~Swapped' /\ CopyRow'
      BY <1>1, <1>8, <1>9, <1>10, <1>12, <1>15 DEF RecoveryInv, Unswapped, OwnRefs, Swapped, CopyRow
    <2>2. \A p \in Projects : job'[p] = job[p]
      BY <1>10, Names DEF OnlyJob
    <2>3. (Unsettled(Copying)' => Unsettled(Copying)) /\ ~Done /\ ~Done' /\ job'[Copying].steps = job[Copying].steps
      BY <1>1, <1>8, <1>10, <1>12 DEF Unsettled, Done
    <2>4. Deleting'
      BY <1>9, <1>15, <2>2, <2>3, Names DEF RecoveryInv, Unswapped, Deleting
    <2>5. ASSUME NEW q \in Projects PROVE Cleared(q)'
      BY <1>9, <1>15, <2>2, <2>5 DEF RecoveryInv, Unswapped, Cleared
    <2>6. Copied'
      <3>1. Placed => Placed'
        BY <1>9, <2>3 DEF Placed
      <3>2. Progress => Progress'
        BY <1>9, <2>3 DEF Progress
      <3> QED  BY <1>9, <1>15, <3>1, <3>2 DEF RecoveryInv, Unswapped, Copied, Branching
    <2> QED  BY <1>11, <1>13, <2>1, <2>4, <2>5, <2>6 DEF RecoveryInv, Unswapped
  <1> QED  BY <1>14, <1>15

LEMMA PromoteKeeps ==
    ASSUME RecoveryInv, Promote
    PROVE  RecoveryInv'
  <1>1. row[Restored].ref = Restored /\ row[Restored].state = "running" /\ ~Swapped
    BY DEF Promote, Promotable, Swapped
  <1>2. row[Source].ref = Source
    BY <1>1, Names DEF RecoveryInv, Unswapped, OwnRefs
  <1>3. UNCHANGED <<store, data, repo, net, cont, job, run, process, faults>> /\ promo' = 1
        /\ row' = [p \in Projects |-> [row[p] EXCEPT !.ref = row[Other(p)].ref]]
    BY DEF Promote
  <1>4. \A r \in ProjectRow, q \in Projects :
           LET x == [r EXCEPT !.ref = q]
           IN  x \in ProjectRow /\ x.state = r.state /\ x.ref = q /\ x.method = r.method
    BY DEF ProjectRow
  <1>5. \A p \in Projects : row[p] \in ProjectRow /\ row[Other(p)].ref \in Projects
    BY Names DEF RecoveryInv, Types, ProjectRow
  <1>6. row' \in [Projects -> ProjectRow]
        /\ \A p \in Projects : /\ row'[p].state = row[p].state /\ row'[p].ref = row[Other(p)].ref
                               /\ row'[p].method = row[p].method
    BY <1>3, <1>4, <1>5
  <1>7. Types'
    <2>1. UNCHANGED <<store, data, repo, net, cont, job, run, process, faults>> /\ promo' = 1
      BY <1>3
    <2> QED  BY <1>6, <2>1 DEF RecoveryInv, Types
  <1>8. RunsInv'
    BY <1>3, <1>6, RunsKept, Names DEF RecoveryInv
  <1>9. Swapped'
    BY <1>2, <1>6, Names DEF Swapped
  <1>10. CopyRow'
    BY <1>1, <1>3, <1>6, <1>9, Names DEF RecoveryInv, CopyRow
  <1> QED  BY <1>7, <1>8, <1>9, <1>10 DEF RecoveryInv

LEMMA PromoteTable == \A i \in 1..12 : PromoteCalls[i].p \in Projects
  <1>1. \A i \in 1..12 : i = 1 \/ i = 2 \/ i = 3 \/ i = 4 \/ i = 5 \/ i = 6 \/ i = 7 \/ i = 8 \/ i = 9
                            \/ i = 10 \/ i = 11 \/ i = 12
    OBVIOUS
  <1>2. /\ PromoteCalls[1].p = Restored /\ PromoteCalls[2].p = Restored /\ PromoteCalls[3].p = Source
        /\ PromoteCalls[4].p = Source /\ PromoteCalls[5].p = Restored /\ PromoteCalls[6].p = Restored
        /\ PromoteCalls[7].p = Restored /\ PromoteCalls[8].p = Restored /\ PromoteCalls[9].p = Source
        /\ PromoteCalls[10].p = Source /\ PromoteCalls[11].p = Source /\ PromoteCalls[12].p = Source
    BY DEF PromoteCalls
  <1> QED  BY <1>1, <1>2, Names

LEMMA PromoteReturnsKeeps ==
    ASSUME RecoveryInv, PromoteReturns
    PROVE  RecoveryInv'
  <1>1. promo \in 1..12 /\ Swapped
    <2>1. promo # 0
      BY DEF PromoteReturns
    <2>2. promo \in 0..12
      BY DEF RecoveryInv, Types
    <2> QED  BY <2>1, <2>2 DEF RecoveryInv, CopyRow
  <1>2. PICK p \in Projects : p = PromoteCalls[promo].p
    BY <1>1, PromoteTable
  <1>3. PICK call : call = PromoteCalls[promo].call
    OBVIOUS
  <1>4. PICK id \in {0} \cup Ids : id = IF call = "start" THEN cont[p].id ELSE row[p].cid
    BY DEF RecoveryInv, Types, Container, ProjectRow
  <1>5. /\ Untouched \/ Acts(p, call, id, p, FALSE)
        /\ promo' = (promo + 1) % 13
        /\ UNCHANGED <<store, job, run, process, faults>>
    BY <1>2, <1>3, <1>4 DEF PromoteReturns
  <1>12. PICK once : once = [row EXCEPT ![p].cid = id]
    OBVIOUS
  <1>13. PICK both : both = [q \in Projects |-> [row[q] EXCEPT !.state = "running",
                                                             !.cid = IF q = p THEN id ELSE row[q].cid]]
    OBVIOUS
  <1>11. row' = CASE call = "start" /\ promo < 12 -> once
                  [] promo = 12 -> both
                  [] OTHER -> row
    BY <1>2, <1>3, <1>4, <1>12, <1>13 DEF PromoteReturns
  <1>6. /\ cont' \in [Projects -> Container] /\ data' \in [Projects -> DataStates]
        /\ repo' \in [Projects -> RepoStates] /\ net' \subseteq Projects
    <2>1. CASE Untouched
      BY <2>1 DEF Untouched, RecoveryInv, Types
    <2>2. CASE Acts(p, call, id, p, FALSE)
      <3>1. FALSE \in BOOLEAN /\ Types
        BY DEF RecoveryInv
      <3>2. ContEffect(p, call, FALSE) /\ DataEffect(p, call, p) /\ RepoEffect(p, call, p)
        BY <2>2, <3>1, ActsEffects
      <3> QED  BY <3>2 DEF ContEffect, DataEffect, RepoEffect
    <2> QED  BY <1>5, <2>1, <2>2
  <1>7. /\ row' \in [Projects -> ProjectRow]
        /\ \A q \in Projects : /\ row'[q].ref = row[q].ref /\ row'[q].method = row[q].method
                               /\ row'[q].state = "absent" <=> row[q].state = "absent"
    <2>1. CASE call = "start" /\ promo < 12
      <3>1. row' = [row EXCEPT ![p].cid = id] /\ Types
        BY <1>11, <1>12, <2>1 DEF RecoveryInv
      <3>2. RowBecomes(p, row[p].state, id, row[p].sourceRepo, row[p].deleted)
        BY <3>1, CidSet
      <3> QED  BY <3>2 DEF RowBecomes, RowWith
    <2>2. CASE promo = 12
      <3>1. row' = [q \in Projects |-> [row[q] EXCEPT !.state = "running",
                                                      !.cid = IF q = p THEN id ELSE row[q].cid]]
        <4>1. row' = both
          BY <1>11, <2>2
        <4> QED  BY <1>13, <4>1
      <3>2. \A r \in ProjectRow, c \in {0} \cup Ids :
               LET x == [r EXCEPT !.state = "running", !.cid = c]
               IN  x \in ProjectRow /\ x.state = "running" /\ x.ref = r.ref /\ x.method = r.method
        <4> TAKE r \in ProjectRow, c \in {0} \cup Ids
        <4>1. PICK y : y = [r EXCEPT !.state = "running"]
          OBVIOUS
        <4>2. RowWith(y, r, "running", r.cid, r.sourceRepo, r.deleted)
          BY <4>1, StateField DEF RowStates
        <4>3. RowWith([y EXCEPT !.cid = c], y, y.state, c, y.sourceRepo, y.deleted)
          <5>1. y \in ProjectRow
            BY <4>2 DEF RowWith
          <5> QED  BY <5>1, CidField
        <4>4. [y EXCEPT !.cid = c] = [r EXCEPT !.state = "running", !.cid = c]
          BY <4>1
        <4> QED  BY <4>2, <4>3, <4>4 DEF RowWith
      <3>3. \A q \in Projects : row[q] \in ProjectRow /\ (IF q = p THEN id ELSE row[q].cid) \in {0} \cup Ids
        BY DEF RecoveryInv, Types, ProjectRow
      <3>4. row[Source].state # "absent" /\ row[Restored].state # "absent"
        BY <1>1 DEF RecoveryInv, CopyRow
      <3>5. row' \in [Projects -> ProjectRow]
            /\ \A q \in Projects : row'[q].state = "running" /\ row'[q].ref = row[q].ref /\ row'[q].method = row[q].method
        <4> DEFINE F(q) == [row[q] EXCEPT !.state = "running", !.cid = IF q = p THEN id ELSE row[q].cid]
        <4>1. ASSUME NEW q \in Projects
              PROVE  /\ F(q) \in ProjectRow /\ F(q).state = "running" /\ F(q).ref = row[q].ref
                     /\ F(q).method = row[q].method
          <5>1. PICK r \in ProjectRow, c \in {0} \cup Ids : r = row[q] /\ c = IF q = p THEN id ELSE row[q].cid
            BY <3>3
          <5>2. LET x == [r EXCEPT !.state = "running", !.cid = c]
                IN  x \in ProjectRow /\ x.state = "running" /\ x.ref = r.ref /\ x.method = r.method
            BY <3>2
          <5> QED  BY <5>1, <5>2
        <4>2. row' = [q \in Projects |-> F(q)]
          BY <3>1
        <4> HIDE DEF F
        <4> QED  BY <4>1, <4>2
      <3> QED  BY <3>4, <3>5, Names
    <2>3. CASE ~(call = "start" /\ promo < 12) /\ promo # 12
      <3>1. row' = row
        BY <1>11, <2>3
      <3> QED  BY <3>1 DEF RecoveryInv, Types
    <2> QED  BY <2>1, <2>2, <2>3
  <1>8. promo' \in 0..12
    <2>1. promo' = (promo + 1) % 13
      BY <1>5
    <2>2. \A i \in 1..12 : (i + 1) % 13 \in 0..12
      OBVIOUS
    <2> QED  BY <1>1, <2>1, <2>2
  <1>9. Types'
    BY <1>5, <1>6, <1>7, <1>8 DEF RecoveryInv, Types
  <1>10. RunsInv'
    BY <1>5, <1>7, RunsKept, Names DEF RecoveryInv
  <1> QED  BY <1>1, <1>5, <1>7, <1>9, <1>10, SwappedOn, Names
-----------------------------------------------------------------------------
(* Recovery: a step of a copy, a step of a deletion. *)

LEMMA CopyStep ==
    ASSUME RecoveryInv, ~Swapped, Unsettled(Copying), HostStep(Copying), OnlyJob(Copying),
           Types', RunsInv', promo' = promo, job'[Copying].state # "none",
           run'[Copying].at # 0 => run'[Copying].ref = Restored,
           row'[Source] = row[Source], row'[Restored].ref = row[Restored].ref,
           row'[Restored].deleted = row[Restored].deleted,
           row'[Restored].state \in {"creating", "running", "failed"},
           Unsettled(Copying)' => row'[Restored].state = "creating",
           Copied'
    PROVE  RecoveryInv'
  <1>1. OwnRefs /\ Deleting /\ CopyRow
    BY DEF RecoveryInv, Unswapped
  <1>2. OwnRefs' /\ ~Swapped'
    BY <1>1, Names DEF OwnRefs, OnlyJob, Swapped
  <1>3. CopyRow'
    BY <1>1, <1>2 DEF CopyRow, OwnRefs
  <1>4. job[Restored].state = "none" /\ \A p \in Projects : job'[p] = job[p] /\ run'[p] = run[p]
    BY <1>1, Names DEF Deleting, OnlyJob
  <1>5. Deleting'
    <2>1. \A p \in Projects : job'[p].state # "none" => row'[p].state = "deleting"
      BY <1>1, <1>4, Names DEF Deleting
    <2>2. \A p \in Projects : row'[p].deleted => job'[p].state = "succeeded"
      BY <1>1, <1>4, Names DEF Deleting
    <2>3. job'[Restored].state = "none"
      BY <1>4, Names
    <2> QED  BY <2>1, <2>2, <2>3 DEF Deleting
  <1>6. ASSUME NEW q \in Projects PROVE Cleared(q)'
    <2>1. row'[q].deleted = row[q].deleted /\ Copying \in Jobs
      BY Names
    <2> QED  BY <1>4, <2>1, ClearedStays
  <1> QED  BY <1>2, <1>3, <1>5, <1>6 DEF RecoveryInv, Unswapped

LEMMA DeletionStep ==
    ASSUME RecoveryInv, ~Swapped, NEW p \in Projects, job[p].state # "none", HostStep(p), OnlyJob(p),
           Types', RunsInv', promo' = promo, job'[p].state # "none",
           run'[p].at # 0 => run'[p].ref = p,
           \A q \in Projects : q # p => row'[q] = row[q],
           row'[p].state = row[p].state, row'[p].ref = row[p].ref, row'[p].cid \in {row[p].cid, 0},
           row'[p].method = row[p].method, row'[p].sourceRepo = row[p].sourceRepo,
           row'[p].deleted => job'[p].state = "succeeded",
           Cleared(p)'
    PROVE  RecoveryInv'
  <1>1. OwnRefs /\ Deleting /\ CopyRow /\ p \in Jobs /\ p # Copying /\ Copying \in Jobs
    BY Names DEF RecoveryInv, Unswapped
  <1>2. OwnRefs' /\ ~Swapped'
    BY <1>1, Names DEF OwnRefs, OnlyJob, Swapped
  <1>3. job'[Copying] = job[Copying] /\ run'[Copying] = run[Copying]
    BY <1>1 DEF OnlyJob
  <1>4. CopyRow'
    BY <1>1, <1>2, <1>3, Names DEF CopyRow, OwnRefs
  <1>5. Deleting'
    BY <1>1, <1>3, Names DEF Deleting, Unsettled, OnlyJob
  <1>6. ASSUME NEW q \in Projects, q # p PROVE Cleared(q)'
    <2>1. q \in Jobs /\ job'[q] = job[q] /\ run'[q] = run[q] /\ row'[q] = row[q]
      BY <1>6, Names DEF OnlyJob
    <2> QED  BY <1>1, <2>1, ClearedStays
  <1>7. Copied'
    <2>1. MadeKept /\ Copied
      BY <1>1, HostMade DEF RecoveryInv, Unswapped
    <2>2. /\ row'[Restored].state = row[Restored].state /\ row'[Restored].cid \in {row[Restored].cid, 0}
          /\ row'[Restored].method = row[Restored].method /\ row'[Restored].sourceRepo = row[Restored].sourceRepo
      BY Names
    <2>3. job'[Restored].state = "none" => job[Restored].state = "none"
      BY Names DEF OnlyJob
    <2>4. row[Restored].state \in {"running", "stopped"} => row'[Restored].cid = row[Restored].cid
      <3>1. row[p].state = "deleting"
        BY <1>1 DEF Deleting
      <3> QED  BY <3>1, Names
    <2>5. Placed => Placed'
      BY <1>3 DEF Placed
    <2>6. row[Restored].state # "absent" /\ ~Branching /\ Progress => Progress'
      BY <1>3, <2>1, <2>2, <2>3, <2>4 DEF Progress, Done, Unsettled, MadeKept
    <2>7. CASE row[Restored].state = "absent"
      BY <2>1, <2>2, <2>7 DEF Copied, MadeKept
    <2>8. CASE row[Restored].state # "absent" /\ Branching
      BY <2>1, <2>2, <2>8 DEF Copied, MadeKept, Branching
    <2>9. CASE row[Restored].state # "absent" /\ ~Branching
      BY <2>1, <2>2, <2>5, <2>6, <2>9 DEF Copied, Branching
    <2> QED  BY <2>7, <2>8, <2>9
  <1> QED  BY <1>2, <1>4, <1>5, <1>6, <1>7 DEF RecoveryInv, Unswapped

\* A job that is under way has its row; a copy's is being created.
LEMMA CopyRuns ==
    ASSUME RecoveryInv, run[Copying].at # 0
    PROVE  /\ job[Copying].state = "running" /\ Unsettled(Copying) /\ ~Done
           /\ row[Restored].state # "absent"
           /\ ~Swapped => /\ row[Restored].state = "creating" /\ run[Copying].ref = Restored
                          /\ ~Branching => Placed /\ Progress
  <1>1. job[Copying].state = "running" /\ Copying \in Jobs
    BY RunsWithin, Names
  <1>2. row[Restored].state # "absent"
    BY <1>1 DEF RecoveryInv, CopyRow
  <1> QED  BY <1>1, <1>2, Names DEF RecoveryInv, Unswapped, Deleting, OwnRefs, Copied, Unsettled, Done

\* Once the refs are swapped, a job's step keeps what is left if it keeps the types and the
\* handlers within their paths.
LEMMA SwappedStep ==
    ASSUME RecoveryInv, Swapped, NEW j \in Jobs, OnlyJob(j), Types', RunsInv',
           job[j].state # "none", job'[j].state # "none",
           row'[Restored].ref = row[Restored].ref,
           \A p \in Projects : row'[p].state = "absent" <=> row[p].state = "absent"
    PROVE  RecoveryInv'
  <1>1. job'[Copying].state = "none" <=> job[Copying].state = "none"
    BY Names DEF OnlyJob
  <1> QED  BY <1>1, SwappedOn

-----------------------------------------------------------------------------
(* Recovery: an attempt starts. *)

LEMMA EntryPlaces ==
    ASSUME RecoveryInv, NEW j \in Jobs
    PROVE  /\ Entry(j, job[j].steps) \in 1..Furthest(j)
           /\ j \in Projects => /\ Entry(j, job[j].steps) # 4
                                /\ Entry(j, job[j].steps) = 5 => job[j].steps = 3
           /\ j = Copying /\ ~Branching => /\ job[j].steps = Behind(Entry(j, job[j].steps))
                                           /\ Entry(j, job[j].steps) # 15
  <1>1. job[j].steps \in 0..6 /\ job[j].steps <= MostSteps(j)
    BY DEF RecoveryInv, Types, JobRow, RunsInv, RunOf
  <1>2. CASE j \in Projects
    <2>1. j # Copying /\ Furthest(j) = 5 /\ (job[j].steps = 0 \/ job[j].steps = 1 \/ job[j].steps = 2 \/ job[j].steps = 3)
      BY <1>1, <1>2, Names DEF MostSteps, Furthest
    <2> QED  BY <1>2, <2>1, EntryOf
  <1>3. CASE j = Copying /\ Branching
    <2>1. j \notin Projects /\ Furthest(j) = 10
          /\ (job[j].steps = 0 \/ job[j].steps = 1 \/ job[j].steps = 2 \/ job[j].steps = 3 \/ job[j].steps = 4)
      BY <1>1, <1>3, Names DEF MostSteps, Furthest
    <2> QED  BY <1>3, <2>1, EntryOf
  <1>4. CASE j = Copying /\ ~Branching
    <2>1. j \notin Projects /\ Furthest(j) = 17
          /\ (job[j].steps = 0 \/ job[j].steps = 1 \/ job[j].steps = 2 \/ job[j].steps = 3 \/ job[j].steps = 4
              \/ job[j].steps = 5)
      BY <1>1, <1>4, Names DEF MostSteps, Furthest
    <2>2. PICK e : e = Entry(Copying, job[Copying].steps)
      OBVIOUS
    <2>3. /\ (job[j].steps = 0 => e = 1) /\ (job[j].steps = 1 => e = 4) /\ (job[j].steps = 2 => e = 6)
          /\ (job[j].steps = 3 => e = 9) /\ (job[j].steps = 4 => e = 10) /\ (job[j].steps = 5 => e = 12)
      BY <1>4, <2>2, EntryOf
    <2>4. e \in 1..17 /\ e # 15 /\ job[j].steps = Behind(e)
      BY <2>1, <2>3 DEF Behind
    <2> QED  BY <1>4, <2>1, <2>2, <2>4
  <1> QED  BY <1>2, <1>3, <1>4, Names

LEMMA ClaimKeeps ==
    ASSUME RecoveryInv, NEW j \in Jobs, Claim(j)
    PROVE  RecoveryInv'
  <1>0. PICK refused \in BOOLEAN : refused = (j = Copying /\ Branching /\ row[Source].deleted)
    BY Names DEF RecoveryInv, Types, ProjectRow
  <1>1. PICK jr \in JobRow : jr = job[j] /\ jr.state = "queued"
    BY DEF RecoveryInv, Types, Claim
  <1>2. LET x == [jr EXCEPT !.state = "running"]
        IN  x \in JobRow /\ x.state = "running" /\ x.steps = jr.steps /\ x.attempts = jr.attempts
    BY DEF JobRow
  <1>3. PICK x : x = [jr EXCEPT !.state = "running"]
    OBVIOUS
  <1>4. x \in JobRow /\ x.state = "running" /\ x.steps = jr.steps /\ x.attempts = jr.attempts
        /\ jr.attempts \in Nat
    BY <1>2, <1>3 DEF JobRow
  <1>5. LET y == [x EXCEPT !.attempts = jr.attempts + 1]
        IN  y \in JobRow /\ y.state = "running" /\ y.steps = jr.steps /\ y.attempts = jr.attempts + 1
    BY <1>4 DEF JobRow
  <1>6. PICK y : y = [x EXCEPT !.attempts = jr.attempts + 1]
    OBVIOUS
  <1>7. y \in JobRow /\ y.state = "running" /\ y.steps = jr.steps /\ y.attempts > 0
    BY <1>4, <1>5, <1>6
  <1>8. y = [job[j] EXCEPT !.state = "running", !.attempts = @ + 1]
    BY <1>1, <1>3, <1>6
  <1>9. Untouched /\ UNCHANGED <<store, promo, process, faults>> /\ HostStep(j)
    BY DEF Claim, HostStep
  <1>10. run[j].at = 0 /\ ~run[j].again
    <2>1. RunOf(j) /\ run[j].again \in BOOLEAN
      BY DEF RecoveryInv, RunsInv, Types, Handler
    <2> QED  BY <1>1, <2>1 DEF RunOf
  <1>11. CASE refused
    <2>1. row' = row /\ run' = run /\ j = Copying /\ Branching
      BY <1>0, <1>11 DEF Claim
    <2>2. PICK s \in {"failed", "queued"} : s = IF y.attempts >= MaxAttempts[j] THEN "failed" ELSE "queued"
      OBVIOUS
    <2>3. [y EXCEPT !.state = s] \in JobRow /\ [y EXCEPT !.state = s].state = s
          /\ [y EXCEPT !.state = s].steps = y.steps
      BY <1>7 DEF JobRow
    <2>4. PICK z : z = [y EXCEPT !.state = s]
      OBVIOUS
    <2>5. z \in JobRow /\ z.state = s /\ z.steps = jr.steps
      BY <1>7, <2>3, <2>4
    <2>6. job' = [job EXCEPT ![j] = z]
      BY <1>0, <1>8, <1>11, <2>2, <2>4 DEF Claim
    <2>7. OnlyJob(j) /\ job'[j] = z
      BY <2>1, <2>5, <2>6 DEF OnlyJob, RecoveryInv, Types
    <2>8. Types'
      BY <1>9, <2>1, <2>7 DEF RecoveryInv, Types, OnlyJob, Untouched
    <2>9. RunsInv'
      <3>1. RunOf(j) /\ MostSteps(j)' = MostSteps(j) /\ Furthest(j)' = Furthest(j)
        BY <2>1 DEF RecoveryInv, RunsInv, MostSteps, Furthest, Branching
      <3>2. RunOf(j)'
        BY <1>1, <1>10, <2>1, <2>5, <2>7, <3>1 DEF RunOf
      <3> QED  BY <2>1, <2>7, <3>2, RunsSet DEF RecoveryInv
    <2>10. CASE Swapped
      BY <1>1, <2>1, <2>5, <2>7, <2>8, <2>9, <2>10, SwappedStep
    <2>11. CASE ~Swapped
      <3>1. Unsettled(Copying) /\ row[Restored].state = "creating"
        BY <1>1, <2>1, <2>11 DEF Unsettled, RecoveryInv, Unswapped, Deleting
      <3>2. Copied'
        BY <1>9, <2>1, <2>11, <3>1 DEF RecoveryInv, Unswapped, Copied, Untouched, Branching
      <3> QED  BY <1>9, <1>10, <2>1, <2>5, <2>7, <2>8, <2>9, <2>11, <3>1, <3>2, CopyStep
    <2> QED  BY <2>10, <2>11
  <1>12. CASE ~refused
    <2>1. PICK e \in 1..Furthest(j) : e = Entry(j, jr.steps)
      BY <1>1, EntryPlaces
    <2>2. PICK h \in Handler : h = [NoRun EXCEPT !.at = e, !.ref = row[Of(j)].ref, !.cid = row[Of(j)].cid]
                 /\ h.at = e /\ h.ref = row[Of(j)].ref /\ h.again = FALSE
      <3>1. Of(j) \in Projects /\ row[Of(j)].ref \in Projects /\ row[Of(j)].cid \in {0} \cup Ids
        BY WorksTyped DEF RecoveryInv, Types, ProjectRow
      <3>2. e \in 0..17
        BY <2>1 DEF Furthest
      <3>3. PICK n \in Handler : n = NoRun /\ n.again = FALSE
        BY NoRunTyped
      <3>4. [n EXCEPT !.at = e] \in Handler /\ [n EXCEPT !.at = e].at = e /\ [n EXCEPT !.at = e].again = n.again
        BY <3>2 DEF Handler
      <3>5. PICK a : a = [n EXCEPT !.at = e]
        OBVIOUS
      <3>6. a \in Handler /\ a.at = e /\ a.again = FALSE
        BY <3>3, <3>4, <3>5
      <3>7. PICK f \in Projects : f = row[Of(j)].ref
        BY <3>1
      <3>8. [a EXCEPT !.ref = f] \in Handler /\ [a EXCEPT !.ref = f].at = e /\ [a EXCEPT !.ref = f].again = FALSE
            /\ [a EXCEPT !.ref = f].ref = f
        BY <3>6 DEF Handler
      <3>9. PICK b : b = [a EXCEPT !.ref = f]
        OBVIOUS
      <3>10. b \in Handler /\ b.at = e /\ b.again = FALSE /\ b.ref = f
        BY <3>8, <3>9
      <3>11. PICK c \in {0} \cup Ids : c = row[Of(j)].cid
        BY <3>1
      <3>12. [b EXCEPT !.cid = c] \in Handler /\ [b EXCEPT !.cid = c].at = e /\ [b EXCEPT !.cid = c].again = FALSE
            /\ [b EXCEPT !.cid = c].ref = f
        BY <3>10 DEF Handler
      <3>13. PICK h : h = [b EXCEPT !.cid = c]
        OBVIOUS
      <3>14. h \in Handler /\ h.at = e /\ h.again = FALSE /\ h.ref = f
        BY <3>12, <3>13
      <3>15. h = [NoRun EXCEPT !.at = e, !.ref = row[Of(j)].ref, !.cid = row[Of(j)].cid]
        BY <3>3, <3>5, <3>7, <3>9, <3>11, <3>13
      <3> QED  BY <3>7, <3>14, <3>15
    <2>3. job' = [job EXCEPT ![j] = y] /\ run' = [run EXCEPT ![j] = h]
      <3>1. job' = [job EXCEPT ![j] = y]
        BY <1>0, <1>8, <1>12 DEF Claim
      <3>2. run' = [run EXCEPT ![j] = [NoRun EXCEPT !.at = Entry(j, y.steps), !.ref = row[Of(j)].ref,
                                                    !.cid = row[Of(j)].cid]]
        BY <1>0, <1>8, <1>12 DEF Claim
      <3> QED  BY <1>7, <2>1, <2>2, <3>1, <3>2
    <2>4. OnlyJob(j) /\ job'[j] = y /\ run'[j] = h
      BY <1>7, <2>2, <2>3 DEF OnlyJob, RecoveryInv, Types
    <2>5. /\ row' \in [Projects -> ProjectRow]
          /\ \A q \in Projects : KeptRow(q) /\ (j # Copying \/ q # Restored => row'[q] = row[q])
          /\ j = Copying => row'[Restored].state = "creating"
      <3>1. CASE j = Copying
        <4>1. row' = [row EXCEPT ![Restored].state = "creating"]
          BY <1>0, <1>12, <3>1 DEF Claim
        <4>2. RowBecomes(Restored, "creating", row[Restored].cid, row[Restored].sourceRepo, row[Restored].deleted)
          BY <4>1, StateIs, Names DEF RecoveryInv, RowStates
        <4> QED  BY <3>1, <4>2, Names DEF RowBecomes, RowWith, KeptRow
      <3>2. CASE j # Copying
        BY <1>0, <1>12, <3>2 DEF Claim, RecoveryInv, Types, KeptRow
      <3> QED  BY <3>1, <3>2
    <2>6. Types'
      BY <1>9, <2>4, <2>5 DEF RecoveryInv, Types, OnlyJob, Untouched
    <2>7. (Branching' <=> Branching) /\ row'[Restored].method = row[Restored].method
      BY <2>5, Names DEF KeptRow, Branching
    <2>8. RunsInv'
      <3>1. RunOf(j) /\ MostSteps(j)' = MostSteps(j) /\ Furthest(j)' = Furthest(j)
        BY <2>7 DEF RecoveryInv, RunsInv, MostSteps, Furthest
      <3>2. Furthest(j) \in Nat
        BY DEF Furthest
      <3>3. RunOf(j)'
        BY <1>1, <1>7, <2>1, <2>2, <2>4, <3>1, <3>2 DEF RunOf
      <3> QED  BY <2>4, <2>7, <3>3, RunsSet DEF RecoveryInv
    <2>9. CASE Swapped
      <3>1. \A p \in Projects : row'[p].state = "absent" <=> row[p].state = "absent"
        <4>1. j = Copying => row[Restored].state # "absent"
          BY <1>1 DEF RecoveryInv, CopyRow
        <4> QED  BY <2>5, <4>1, Names
      <3> QED  BY <1>1, <1>7, <2>4, <2>5, <2>6, <2>8, <2>9, <3>1, SwappedStep, Names DEF KeptRow
    <2>10. CASE ~Swapped /\ j = Copying
      <3>1. Unsettled(Copying) /\ ~Done /\ row[Restored].state = "creating" /\ row[Restored].ref = Restored
        BY <1>1, <2>10, Names DEF Unsettled, RecoveryInv, Unswapped, Deleting, OwnRefs, Done
      <3>2. Copied'
        <4>1. Copied
          BY <2>10 DEF RecoveryInv, Unswapped
        <4>2. CASE Branching
          BY <1>9, <2>5, <2>7, <2>10, <3>1, <4>1, <4>2 DEF Copied, Untouched
        <4>3. CASE ~Branching
          <5>1. Placed /\ Progress
            BY <3>1, <4>1, <4>3 DEF Copied
          <5>2. jr.steps = Behind(e) /\ e # 15 /\ e # 0
            BY <1>1, <2>1, <2>10, <4>3, EntryPlaces DEF Furthest
          <5>3. Placed'
            BY <1>7, <2>2, <2>4, <2>10, <5>2 DEF Placed, Behind
          <5>4. Progress'
            <6>1. job'[Copying].state = "running" /\ job'[Copying].steps = job[Copying].steps /\ ~Done' /\ run'[Copying].at = e
              BY <1>1, <1>7, <2>2, <2>4, <2>10 DEF Done
            <6>2. /\ row'[Restored].sourceRepo = row[Restored].sourceRepo /\ row'[Restored].cid = row[Restored].cid
                  /\ row'[Restored].state = "creating"
              BY <2>5, <2>10, Names DEF KeptRow
            <6>3. data' = data /\ repo' = repo /\ cont' = cont
              BY <1>9 DEF Untouched
            <6> QED  BY <3>1, <5>1, <5>2, <6>1, <6>2, <6>3 DEF Progress
          <5> QED  BY <2>5, <2>7, <2>10, <4>3, <5>3, <5>4 DEF Copied
        <4> QED  BY <4>2, <4>3
      <3>3. Of(j) = Restored
        BY <2>10, Names
      <3>4. row'[Source] = row[Source]
        BY <2>5, Names
      <3> QED  BY <1>7, <1>9, <2>2, <2>4, <2>5, <2>6, <2>8, <2>10, <3>1, <3>2, <3>3, <3>4, CopyStep, Names, ZenonT(30) DEF KeptRow
    <2>11. CASE ~Swapped /\ j # Copying
      <3>1. j \in Projects /\ Of(j) = j /\ row[j].ref = j /\ row' = row
        BY <1>0, <1>12, <2>11, Names DEF RecoveryInv, Unswapped, OwnRefs, Claim
      <3>2. Cleared(j) /\ (row[j].deleted => job[j].state = "succeeded")
        BY <2>11, <3>1 DEF RecoveryInv, Unswapped, Deleting
      <3>3. e # 4 /\ (e = 5 => jr.steps = 3)
        BY <1>1, <2>1, <3>1, EntryPlaces
      <3>4. Cleared(j)'
        BY <1>1, <1>7, <1>9, <2>2, <2>4, <3>1, <3>2, <3>3 DEF Cleared, Untouched
      <3>5. job[j].state # "none" /\ job'[j].state # "none" /\ run'[j].ref = j
            /\ (row'[j].deleted => job'[j].state = "succeeded")
        BY <1>1, <1>7, <2>2, <2>4, <3>1, <3>2
      <3> QED  BY <1>9, <2>4, <2>6, <2>8, <2>11, <3>1, <3>4, <3>5, DeletionStep
    <2> QED  BY <2>9, <2>10, <2>11
  <1> QED  BY <1>11, <1>12
-----------------------------------------------------------------------------
(* Recovery: a deletion goes on. *)

LEMMA StepTyped ==
    ASSUME NEW j \in Jobs, NEW i \in 1..17, i <= PathEnd(j)
    PROVE  StepAfter(j, i) \in 0..6
  <1>1. CASE j \in Projects
    <2>1. i \in 1..5 /\ StepAfter(j, i) = DeleteSteps[i]
      BY <1>1, LastCall, Names DEF StepAfter
    <2> QED  BY <2>1, StepTables
  <1>2. CASE j = Copying /\ Branching
    <2>1. i \in 1..10 /\ StepAfter(j, i) = BranchSteps[i]
      BY <1>2, LastCall DEF StepAfter
    <2> QED  BY <2>1, StepTables
  <1>3. CASE j = Copying /\ ~Branching
    <2>1. i \in 1..15 /\ StepAfter(j, i) = RestoreSteps[i]
      BY <1>3, LastCall DEF StepAfter
    <2> QED  BY <2>1, StepTables
  <1> QED  BY <1>1, <1>2, <1>3, Names

LEMMA DeletionGoes ==
    ASSUME RecoveryInv, NEW p \in Projects, run[p].at \in 1..4, HostStep(p), Gone(p, run[p].at + 1),
           row' = row, store' = store, promo' = promo, process' = process, faults' = faults,
           ~Swapped => /\ run[p].at = 3 => data'[p] = "none"
                       /\ run[p].at = 4 => cont'[p].id = 0 /\ data'[p] = "none" /\ repo'[p] = "none"
    PROVE  RecoveryInv'
  <1>1. p \in Jobs /\ p # Copying /\ OnlyJob(p) /\ RunOf(p) /\ Types
    BY Names DEF Gone, RecoveryInv, RunsInv
  <1>2. PICK a \in 1..4 : a = run[p].at
    OBVIOUS
  <1>3. job[p].state = "running" /\ job[p].steps \in 0..3 /\ job[p].attempts > 0
    BY <1>1, RunsWithin
  <1>4. \/ job'[p].steps = job[p].steps
        \/ a # 3 /\ job'[p].steps = (IF a = 1 THEN 1 ELSE IF a = 2 THEN 2 ELSE 3)
    <2>1. PathEnd(p) = 5 /\ StepAfter(p, a) = DeleteSteps[a]
      BY <1>1, LastCall DEF StepAfter
    <2>2. DeleteSteps[a] = IF a = 1 THEN 1 ELSE IF a = 2 THEN 2 ELSE IF a = 4 THEN 3 ELSE 0
      BY StepTables
    <2>3. job'[p].steps = job[p].steps \/ (job'[p].steps = DeleteSteps[a] /\ DeleteSteps[a] # 0)
      BY <1>2, <2>1 DEF Gone
    <2> QED  BY <2>2, <2>3
  <1>5. /\ job'[p].state = "running" /\ job'[p].attempts > 0 /\ run'[p].at = a + 1
        /\ run'[p].ref = run[p].ref
    BY <1>2, <1>3 DEF Gone
  <1>6. Types'
    <2>1. /\ cont' \in [Projects -> Container] /\ data' \in [Projects -> DataStates]
          /\ repo' \in [Projects -> RepoStates] /\ net' \subseteq Projects
      BY <1>1, HostTypes
    <2> QED  BY <1>1, <2>1 DEF Types, OnlyJob
  <1>7. RunsInv'
    <2>1. Furthest(p)' = 5 /\ MostSteps(p)' = 3
      BY <1>1 DEF Furthest, MostSteps
    <2>2. RunOf(p)'
      BY <1>3, <1>4, <1>5, <2>1 DEF RunOf
    <2> QED  BY <1>1, <2>2, RunsSet DEF RecoveryInv
  <1>8. CASE Swapped
    BY <1>1, <1>3, <1>5, <1>6, <1>7, <1>8, SwappedStep
  <1>9. CASE ~Swapped
    <2>1. ~row[p].deleted /\ run[p].ref = p
      BY <1>1, <1>2, <1>3, <1>9, Names DEF RecoveryInv, Unswapped, Deleting, OwnRefs
    <2>2. Cleared(p)
      BY <1>9 DEF RecoveryInv, Unswapped
    <2>3. job[p].steps = 3 => cont'[p].id = 0 /\ data'[p] = "none" /\ repo'[p] \in {"none", "empty"}
      <3>1. /\ data[p] = "none" => data'[p] = "none"
            /\ cont[p].id = 0 => cont'[p].id = 0
            /\ repo[p] \in {"none", "empty"} => repo'[p] \in {"none", "empty"}
        <4>1. CASE Untouched
          BY <4>1 DEF Untouched
        <4>2. CASE run[p].at # 0 /\ Works(p)
          BY <1>1, <1>3, <1>9, <4>2, GoneStays
        <4> QED  BY <4>1, <4>2 DEF HostStep
      <3> QED  BY <2>2, <3>1 DEF Cleared
    <2>4. Cleared(p)'
      BY <1>2, <1>4, <1>5, <1>9, <2>1, <2>3 DEF Cleared
    <2> QED  BY <1>1, <1>3, <1>5, <1>6, <1>7, <1>9, <2>1, <2>4, DeletionStep
  <1> QED  BY <1>8, <1>9

\* A call of a deletion returns.
LEMMA DeletionReturnsKeeps ==
    ASSUME RecoveryInv, NEW p \in Projects, CallReturns(p)
    PROVE  RecoveryInv'
  <1>1. p \in Jobs /\ p # Copying /\ Of(p) = p /\ Types /\ PathEnd(p) = 5
    BY Names, LastCall DEF RecoveryInv
  <1>2. run[p].at # 0 /\ Can(p) /\ Works(p) /\ UNCHANGED <<store, promo, process, faults>>
    BY <1>1 DEF CallReturns, Can, Works
  <1>3. run[p].at \in 1..5 /\ job[p].state = "running" /\ job[p].steps \in 0..3
    BY <1>1, <1>2, RunsWithin
  <1>4. PICK c : c = Call(p)
    OBVIOUS
  <1>5. /\ run[p].at = 1 => c = "stop"
        /\ run[p].at = 2 => c = "remove"
        /\ run[p].at = 3 => c = "rmdata"
        /\ run[p].at = 4 => c = "rmrepo"
        /\ run[p].at = 5 => c = "rmnet"
    BY <1>3, <1>4, DeleteCall
  <1>6. run[p].at = 1 \/ run[p].at = 2 \/ run[p].at = 3 \/ run[p].at = 4 \/ run[p].at = 5
    BY <1>3
  <1>7. c # "list" /\ c # "create" /\ HostStep(p)
    BY <1>2, <1>5, <1>6 DEF HostStep
  <1>8. CASE run[p].at # 5
    <2>1. GoesTo(p, run[p].at + 1, run[p].cid) /\ row' = row
      BY <1>1, <1>3, <1>4, <1>7, <1>8 DEF CallReturns, Fallback
    <2>2. run[p].at + 1 \in 1..17 /\ run[p].cid \in {0} \cup Ids /\ run[p].at \in 1..17
      BY <1>1, <1>3 DEF Types, Handler
    <2>3. run[p].at <= PathEnd(p) => StepAfter(p, run[p].at) \in 0..6
      BY <1>1, <2>2, StepTyped
    <2>4. Gone(p, run[p].at + 1)
      BY <1>1, <2>1, <2>2, <2>3, GoesToEffect
    <2>5. ~Swapped => /\ run[p].at = 3 => data'[p] = "none"
                      /\ run[p].at = 4 => cont'[p].id = 0 /\ data'[p] = "none" /\ repo'[p] = "none"
      <3> SUFFICES ASSUME ~Swapped
                   PROVE  /\ run[p].at = 3 => data'[p] = "none"
                          /\ run[p].at = 4 => cont'[p].id = 0 /\ data'[p] = "none" /\ repo'[p] = "none"
        OBVIOUS
      <3>1. /\ run[p].at = 3 => data'[p] = "none"
            /\ run[p].at = 4 => data'[p] = data[p] /\ repo'[p] = "none" /\ cont'[p] = cont[p]
        BY <1>2, DeletionFrame
      <3>2. run[p].at = 4 => data[p] = "none"
        BY DEF RecoveryInv, Unswapped, Cleared
      <3>3. c = "rmrepo" => cont[p].id = 0
        BY <1>1, <1>2, <1>4 DEF Can, Able
      <3> QED  BY <1>5, <3>1, <3>2, <3>3
    <2>6. run[p].at \in 1..4
      BY <1>3, <1>8
    <2> QED  BY <1>2, <1>7, <2>1, <2>4, <2>5, <2>6, DeletionGoes
  <1>9. CASE run[p].at = 5
    <2>1. Finishes(p) /\ row' = [row EXCEPT ![p].deleted = TRUE, ![p].cid = 0]
      <3>1. Finishes(p)
        BY <1>1, <1>9 DEF CallReturns
      <3>2. PICK retired : retired = [row EXCEPT ![p].deleted = TRUE, ![p].cid = 0]
        OBVIOUS
      <3>3. row' = retired
        BY <1>1, <1>9, <3>2 DEF CallReturns
      <3> QED  BY <3>1, <3>2, <3>3
    <2>2. Concluded(p) /\ job'[p].state = "succeeded" /\ job'[p].steps = 0
      BY <1>1, <2>1, FinishesEffect DEF Concluded
    <2>3. RowBecomes(p, row[p].state, 0, row[p].sourceRepo, TRUE)
      BY <1>1, <2>1, DeletedSet
    <2>4. /\ row' \in [Projects -> ProjectRow] /\ row'[p].state = row[p].state /\ row'[p].ref = row[p].ref
          /\ row'[p].cid = 0 /\ row'[p].method = row[p].method /\ row'[p].sourceRepo = row[p].sourceRepo
          /\ row'[p].deleted = TRUE /\ \A q \in Projects : q # p => row'[q] = row[q]
      BY <2>3 DEF RowBecomes, RowWith
    <2>5. row'[Restored].method = row[Restored].method /\ row'[Restored].ref = row[Restored].ref
          /\ \A q \in Projects : row'[q].state = row[q].state
      BY <2>4, Names
    <2>6. RunsInv' /\ OnlyJob(p) /\ run'[p].at = 0
      BY <1>1, <2>2, <2>5, EndedRuns DEF Concluded
    <2>7. Types'
      <3>1. /\ cont' \in [Projects -> Container] /\ data' \in [Projects -> DataStates]
            /\ repo' \in [Projects -> RepoStates] /\ net' \subseteq Projects
        BY <1>1, <1>7, HostTypes
      <3> QED  BY <1>1, <1>2, <2>4, <2>6, <3>1 DEF Types, OnlyJob
    <2>8. CASE Swapped
      BY <1>1, <1>3, <2>2, <2>5, <2>6, <2>7, <2>8, SwappedStep
    <2>9. CASE ~Swapped
      <3>1. data'[p] = data[p] /\ repo'[p] = repo[p] /\ cont'[p] = cont[p]
        BY <1>2, <1>9, <2>9, DeletionFrame
      <3>2. Cleared(p)
        BY <2>9 DEF RecoveryInv, Unswapped
      <3>3. Cleared(p)'
        BY <1>9, <2>2, <2>6, <3>1, <3>2 DEF Cleared
      <3> QED  BY <1>1, <1>2, <1>3, <1>7, <2>2, <2>4, <2>6, <2>7, <2>9, <3>3, DeletionStep
    <2> QED  BY <2>8, <2>9
  <1> QED  BY <1>8, <1>9

\* There is no container to stop or to remove.
LEMMA DeletionSkipsKeeps ==
    ASSUME RecoveryInv, NEW p \in Projects, StepSkipped(p)
    PROVE  RecoveryInv'
  <1>1. p \in Jobs /\ p # Copying /\ Types /\ PathEnd(p) = 5
    BY Names, LastCall DEF RecoveryInv
  <1>2. run[p].at # 0 /\ GoesTo(p, run[p].at + 1, 0) /\ row' = row /\ HostStep(p)
        /\ UNCHANGED <<store, promo, process, faults>> /\ Call(p) \in {"stop", "remove"}
    BY <1>1 DEF StepSkipped, Skipped, HostStep
  <1>3. PICK c : c = Call(p)
    OBVIOUS
  <1>4. run[p].at \in 1..5
    BY <1>1, <1>2, RunsWithin
  <1>5. /\ run[p].at = 3 => c = "rmdata"
        /\ run[p].at = 4 => c = "rmrepo"
        /\ run[p].at = 5 => c = "rmnet"
    BY <1>3, <1>4, DeleteCall
  <1>6. run[p].at \in 1..4 /\ run[p].at # 3 /\ run[p].at # 4
    BY <1>2, <1>3, <1>4, <1>5
  <1>7. run[p].at + 1 \in 1..17 /\ 0 \in {0} \cup Ids /\ run[p].at \in 1..17
    BY <1>6
  <1>8. run[p].at <= PathEnd(p) => StepAfter(p, run[p].at) \in 0..6
    BY <1>1, <1>7, StepTyped
  <1>9. Gone(p, run[p].at + 1)
    BY <1>1, <1>2, <1>7, <1>8, GoesToEffect
  <1> QED  BY <1>2, <1>6, <1>9, DeletionGoes
-----------------------------------------------------------------------------
(* Recovery: a copy goes on. *)

\* The steps after call a of a restore, of which s were behind it, in an attempt that has fallen
\* back (g) or not.
After(a, g, s) == IF a > 15 \/ (g /\ a < 9) THEN s
                  ELSE IF a = 3 THEN 1 ELSE IF a = 5 THEN 2 ELSE IF a = 8 THEN 3
                  ELSE IF a = 9 THEN 4 ELSE IF a = 11 THEN 5 ELSE s

\* From a call of a restore in its place to the next.
LEMMA NextPlace ==
    ASSUME NEW a \in 1..17, a # 15, NEW g \in BOOLEAN, NEW s \in 0..5, NEW i \in 1..17,
           i = (IF a = 17 THEN 4 ELSE a + 1) \/ (a = 6 /\ i = 8),
           g => s = 3 /\ a \in 4..9 \cup 16..17,
           ~g => s = Behind(a)
    PROVE  LET t == After(a, g, s)  h == g /\ a # 9 IN
           /\ h => t = 3 /\ i \in 4..9 \cup 16..17
           /\ ~h => t = Behind(i)
           /\ t >= 3 => s >= 3 \/ (a = 8 /\ ~g)
           /\ t >= 4 => s >= 4 \/ a = 9
           /\ t = 5 => s = 5 \/ a = 11
           /\ i = 15 => a = 14
  <1>1. CASE g
    BY <1>1 DEF After, Behind
  <1>2. CASE ~g
    BY <1>2 DEF After, Behind
  <1> QED  BY <1>1, <1>2

LEMMA CopyGoes ==
    ASSUME RecoveryInv, run[Copying].at # 0, run[Copying].at # PathEnd(Copying), NEW i \in 1..17,
           HostStep(Copying), Gone(Copying, i),
           row' \in [Projects -> ProjectRow], row'[Source] = row[Source],
           row'[Restored].state = row[Restored].state, row'[Restored].ref = row[Restored].ref,
           row'[Restored].method = row[Restored].method, row'[Restored].deleted = row[Restored].deleted,
           store' = store, promo' = promo, process' = process, faults' \in 0..MaxFaults,
           Branching => i \in 1..10,
           ~Branching => /\ i = (IF run[Copying].at = 17 THEN 4 ELSE run[Copying].at + 1)
                            \/ (run[Copying].at = 6 /\ i = 8)
                         /\ run[Copying].at # 8 => row' = row
                         /\ run[Copying].at = 14 => Works(Copying)
                         /\ run[Copying].at = 8 =>
                              row'[Restored].sourceRepo = IF run[Copying].again THEN row[Restored].sourceRepo ELSE TRUE,
           ~Swapped /\ ~Branching => /\ run[Copying].at = 9 => data'[Restored] = "database"
                                     /\ run[Copying].at = 11 => repo'[Restored] = "backup"
    PROVE  RecoveryInv'
  <1>1. Copying \in Jobs /\ Copying \notin Projects /\ Restored \in Projects /\ Source \in Projects
        /\ OnlyJob(Copying) /\ RunOf(Copying) /\ Types
    BY Names DEF Gone, RecoveryInv, RunsInv
  <1>2. /\ job[Copying].state = "running" /\ Unsettled(Copying) /\ ~Done /\ row[Restored].state # "absent"
        /\ ~Swapped => /\ row[Restored].state = "creating" /\ run[Copying].ref = Restored
                       /\ ~Branching => Placed /\ Progress
    BY CopyRuns
  <1>3. /\ run[Copying].at \in 1..17
        /\ Branching => run[Copying].at \in 1..10 /\ job[Copying].steps \in 0..4
        /\ ~Branching => job[Copying].steps \in 0..5
        /\ job[Copying].attempts > 0
    BY <1>1, RunsWithin
  <1>4. PICK a \in 1..17 : a = run[Copying].at
    BY <1>3
  <1>5. PICK g \in BOOLEAN : g = run[Copying].again
    BY <1>1 DEF Types, Handler
  <1>6. PICK s \in 0..5 : s = job[Copying].steps
    BY <1>3
  <1>7. PICK t : t = job'[Copying].steps
    OBVIOUS
  <1>8. Branching => t \in 0..4
    <2> SUFFICES ASSUME Branching PROVE t \in 0..4
      OBVIOUS
    <2>1. PathEnd(Copying) = 10 /\ a \in 1..10 /\ a # 10 /\ s \in 0..4
      BY <1>3, <1>4, <1>6, LastCall
    <2>2. StepAfter(Copying, a) = BranchSteps[a]
      BY DEF StepAfter
    <2>3. BranchSteps[a] \in 0..4
      BY <2>1, StepTables
    <2>4. t = s \/ t = StepAfter(Copying, a)
      BY <1>4, <1>6, <1>7 DEF Gone
    <2> QED  BY <2>1, <2>2, <2>3, <2>4
  <1>9. ~Branching => a # 15 /\ t = After(a, g, s)
    <2> SUFFICES ASSUME ~Branching PROVE a # 15 /\ t = After(a, g, s)
      OBVIOUS
    <2>1. PathEnd(Copying) = 15
      BY LastCall
    <2>2. t = IF a > 15 \/ (g /\ a < 9) \/ StepAfter(Copying, a) = 0 THEN s ELSE StepAfter(Copying, a)
      BY <1>4, <1>5, <1>6, <1>7, <2>1 DEF Gone
    <2>3. a <= 15 => StepAfter(Copying, a) = IF a = 3 THEN 1 ELSE IF a = 5 THEN 2 ELSE IF a = 8 THEN 3
                  ELSE IF a = 9 THEN 4 ELSE IF a = 11 THEN 5 ELSE IF a = 15 THEN 6 ELSE 0
      <3>1. StepAfter(Copying, a) = RestoreSteps[a]
        BY DEF StepAfter
      <3>2. a <= 15 => a \in 1..15
        OBVIOUS
      <3> QED  BY <3>1, <3>2, StepTables
    <2>4. a # 15
      BY <1>4, <2>1
    <2> QED  BY <2>2, <2>3, <2>4 DEF After
  <1>10. /\ job'[Copying].state = "running" /\ job'[Copying].attempts > 0
         /\ run'[Copying].at = i /\ run'[Copying].ref = run[Copying].ref
         /\ run'[Copying].again = (g /\ a # 9)
    BY <1>2, <1>3, <1>4, <1>5 DEF Gone
  <1>11. ~Branching => t \in 0..5
    <2>1. After(a, g, s) \in 0..5
      BY DEF After
    <2> QED  BY <1>9, <2>1
  <1>12. (Branching' <=> Branching)
    BY DEF Branching
  <1>13. Types'
    <2>1. /\ cont' \in [Projects -> Container] /\ data' \in [Projects -> DataStates]
          /\ repo' \in [Projects -> RepoStates] /\ net' \subseteq Projects
      BY <1>1, HostTypes
    <2> QED  BY <1>1, <2>1 DEF Types, OnlyJob
  <1>14. RunsInv'
    <2>1. MostSteps(Copying)' = (IF Branching THEN 4 ELSE 5) /\ Furthest(Copying)' = (IF Branching THEN 10 ELSE 17)
      BY <1>12 DEF MostSteps, Furthest
    <2>2. RunOf(Copying)'
      BY <1>7, <1>8, <1>10, <1>11, <2>1 DEF RunOf
    <2> QED  BY <1>1, <2>2, RunsSet DEF RecoveryInv
  <1>15. CASE Swapped
    <2>1. \A p \in Projects : row'[p].state = "absent" <=> row[p].state = "absent"
      BY Names
    <2> QED  BY <1>1, <1>2, <1>10, <1>13, <1>14, <1>15, <2>1, SwappedStep
  <1>16. CASE ~Swapped
    <2>1. MadeKept
      BY <1>1, <1>16, HostMade
    <2>2. Copied'
      <3>1. CASE Branching
        BY <1>2, <1>12, <2>1, <3>1 DEF Copied, MadeKept
      <3>2. CASE ~Branching
        <4>1. Placed /\ Progress
          BY <1>2, <1>16, <3>2
        <4>2. /\ g => s = 3 /\ a \in 4..9 \cup 16..17
              /\ ~g => s = Behind(a)
          BY <1>4, <1>5, <1>6, <4>1 DEF Placed
        <4>3. i = (IF a = 17 THEN 4 ELSE a + 1) \/ (a = 6 /\ i = 8)
          BY <1>4, <3>2
        <4>4. LET u == After(a, g, s)  h == g /\ a # 9 IN
              /\ h => u = 3 /\ i \in 4..9 \cup 16..17
              /\ ~h => u = Behind(i)
              /\ u >= 3 => s >= 3 \/ (a = 8 /\ ~g)
              /\ u >= 4 => s >= 4 \/ a = 9
              /\ u = 5 => s = 5 \/ a = 11
              /\ i = 15 => a = 14
          BY <1>9, <3>2, <4>2, <4>3, NextPlace
        <4>5. /\ (g /\ a # 9) => t = 3 /\ i \in 4..9 \cup 16..17
              /\ ~(g /\ a # 9) => t = Behind(i)
              /\ t >= 3 => s >= 3 \/ (a = 8 /\ ~g)
              /\ t >= 4 => s >= 4 \/ a = 9
              /\ t = 5 => s = 5 \/ a = 11
              /\ i = 15 => a = 14
          BY <1>9, <3>2, <4>4
        <4>6. Placed'
          BY <1>7, <1>10, <4>5 DEF Placed
        <4>7. ~Done' /\ row'[Restored].state = "creating"
          BY <1>2, <1>10, <1>16 DEF Done
        <4>8. job'[Copying].steps >= 3 => row'[Restored].sourceRepo
          BY <1>2, <1>4, <1>5, <1>6, <1>7, <3>2, <4>1, <4>5 DEF Progress
        <4>9. row'[Restored].cid # 0 => row'[Restored].sourceRepo
          <5>1. CASE a = 8
            <6>1. row'[Restored].sourceRepo = IF g THEN row[Restored].sourceRepo ELSE TRUE
              BY <1>4, <1>5, <3>2, <5>1
            <6>2. g => row[Restored].sourceRepo
              BY <1>2, <1>6, <4>1, <4>2 DEF Progress
            <6> QED  BY <6>1, <6>2
          <5>2. CASE a # 8
            BY <1>2, <1>4, <3>2, <4>1, <5>2 DEF Progress
          <5> QED  BY <5>1, <5>2
        <4>10. job'[Copying].steps >= 4 => data'[Restored] = "database"
          BY <1>2, <1>4, <1>6, <1>7, <1>16, <2>1, <3>2, <4>5 DEF MadeKept
        <4>11. job'[Copying].steps = 5 => repo'[Restored] = "backup"
          BY <1>2, <1>4, <1>6, <1>7, <1>16, <2>1, <3>2, <4>5 DEF MadeKept
        <4>12. run'[Copying].at = 15 => ~cont'[Restored].src
          <5> SUFFICES ASSUME run'[Copying].at = 15 PROVE ~cont'[Restored].src
            OBVIOUS
          <5>1. run[Copying].at = 14
            BY <1>4, <1>10, <4>5
          <5>2. Works(Copying)
            BY <3>2, <5>1
          <5>3. /\ Branching => ~cont'[Restored].src
                /\ ~Branching =>
                      /\ Unsettled(Copying) /\ job[Copying].steps >= 4 => data'[Restored] = "database"
                      /\ Unsettled(Copying) /\ job[Copying].steps = 5 => repo'[Restored] = "backup"
                      /\ run[Copying].at \in {14, 15} => ~cont'[Restored].src \/ (Copying # Copying /\ run[Copying].at = 14)
                      /\ Done /\ job[Restored].state = "none" =>
                           data'[Restored] = "database" /\ repo'[Restored] = "backup" /\ ~cont'[Restored].src
            BY <1>1, <1>16, <5>2, MadeStays
          <5> QED  BY <3>2, <5>1, <5>3
        <4>13. Progress'
          BY <4>7, <4>8, <4>9, <4>10, <4>11, <4>12 DEF Progress
        <4> QED  BY <1>12, <3>2, <4>6, <4>7, <4>13 DEF Copied
      <3> QED  BY <3>1, <3>2
    <2> QED  BY <1>1, <1>2, <1>10, <1>13, <1>14, <1>16, <2>2, CopyStep
  <1> QED  BY <1>15, <1>16
\* The call that a copy is waiting for, the container id it goes on with, and its row.
Goes(i, id) ==
    /\ GoesTo(Copying, i, id)
    /\ row' = CASE Branching /\ Call(Copying) = "create" -> [row EXCEPT ![Restored].cid = id]
                [] Branching /\ Call(Copying) = "list" /\ id # 0 -> [row EXCEPT ![Restored].cid = id]
                [] ~Branching /\ run[Copying].at = StartAt -> Records(Copying, id)
                [] OTHER -> row

LEMMA CopyReturns ==
    ASSUME RecoveryInv, CallReturns(Copying)
    PROVE  /\ run[Copying].at # 0 /\ Can(Copying) /\ Works(Copying) /\ UNCHANGED <<store, promo, process, faults>>
           /\ \E id \in {0} \cup Ids :
                /\ Call(Copying) \notin {"list", "create"} => id = run[Copying].cid
                /\ run[Copying].at = PathEnd(Copying) =>
                     /\ Finishes(Copying)
                     /\ Branching => row' = [row EXCEPT ![Restored].state = "running"]
                     /\ ~Branching => row' = [Records(Copying, id) EXCEPT ![Restored].state = "running"]
                /\ run[Copying].at # PathEnd(Copying) =>
                     Goes(CASE run[Copying].at = 17 -> 4
                            [] Call(Copying) = "list" /\ id # 0 -> run[Copying].at + 2
                            [] OTHER -> run[Copying].at + 1, id)
  <1>1. Copying \notin Projects /\ Of(Copying) = Restored /\ Fallback + 1 = 17
    BY Names DEF Fallback
  <1>2. run[Copying].at # 0 /\ Can(Copying) /\ Works(Copying) /\ UNCHANGED <<store, promo, process, faults>>
    BY DEF CallReturns, Can, Works
  <1>3. PICK id : id = CASE Call(Copying) = "list" -> cont[Restored].id
                         [] Call(Copying) = "create" -> Fresh
                         [] OTHER -> run[Copying].cid
    OBVIOUS
  <1>4. id \in {0} \cup Ids
    <2>1. cont[Restored].id \in {0} \cup Ids /\ run[Copying].cid \in {0} \cup Ids
      BY Names DEF RecoveryInv, Types, Container, Handler
    <2> QED  BY <1>3, <2>1, FreshExists
  <1>5. Call(Copying) \notin {"list", "create"} => id = run[Copying].cid
    BY <1>3
  <1>6. ASSUME run[Copying].at = PathEnd(Copying)
        PROVE  /\ Finishes(Copying)
               /\ Branching => row' = [row EXCEPT ![Restored].state = "running"]
               /\ ~Branching => row' = [Records(Copying, id) EXCEPT ![Restored].state = "running"]
    <2>1. Finishes(Copying)
      BY <1>6 DEF CallReturns
    <2>2. PICK a : a = [row EXCEPT ![Copying].deleted = TRUE, ![Copying].cid = 0]
      OBVIOUS
    <2>3. PICK b : b = [row EXCEPT ![Restored].state = "running"]
      OBVIOUS
    <2>4. PICK d : d = [Records(Copying, id) EXCEPT ![Restored].state = "running"]
      OBVIOUS
    <2>5. row' = CASE Copying # Copying -> a [] Copying = Copying /\ Branching -> b [] OTHER -> d
      BY ONLY <1>1, <1>3, <1>6, <2>2, <2>3, <2>4, CallReturns(Copying) DEF CallReturns
    <2> QED  BY <2>1, <2>3, <2>4, <2>5
  <1>7. ASSUME run[Copying].at # PathEnd(Copying)
        PROVE  Goes(CASE run[Copying].at = 17 -> 4
                      [] Call(Copying) = "list" /\ id # 0 -> run[Copying].at + 2
                      [] OTHER -> run[Copying].at + 1, id)
    <2>1. GoesTo(Copying, CASE run[Copying].at = 17 -> 4
                            [] Call(Copying) = "list" /\ id # 0 -> run[Copying].at + 2
                            [] OTHER -> run[Copying].at + 1, id)
      BY ONLY <1>1, <1>3, <1>7, CallReturns(Copying) DEF CallReturns
    <2>2. row' = CASE Branching /\ Call(Copying) = "create" -> [row EXCEPT ![Restored].cid = id]
                   [] Branching /\ Call(Copying) = "list" /\ id # 0 -> [row EXCEPT ![Restored].cid = id]
                   [] ~Branching /\ run[Copying].at = StartAt -> Records(Copying, id)
                   [] OTHER -> row
      BY ONLY <1>1, <1>3, <1>7, CallReturns(Copying) DEF CallReturns
    <2> QED  BY <2>1, <2>2 DEF Goes
  <1> QED  BY <1>2, <1>4, <1>5, <1>6, <1>7

LEMMA CopyReturnsKeeps ==
    ASSUME RecoveryInv, CallReturns(Copying)
    PROVE  RecoveryInv'
  <1>1. Copying \in Jobs /\ Copying \notin Projects /\ Restored \in Projects /\ Source \in Projects
        /\ Source # Restored /\ Types
    BY Names DEF RecoveryInv
  <1>2. /\ run[Copying].at # 0 /\ Can(Copying) /\ Works(Copying) /\ HostStep(Copying)
        /\ UNCHANGED <<store, promo, process, faults>>
    BY CopyReturns DEF HostStep
  <1>3. PICK id \in {0} \cup Ids :
                /\ Call(Copying) \notin {"list", "create"} => id = run[Copying].cid
                /\ run[Copying].at = PathEnd(Copying) =>
                     /\ Finishes(Copying)
                     /\ Branching => row' = [row EXCEPT ![Restored].state = "running"]
                     /\ ~Branching => row' = [Records(Copying, id) EXCEPT ![Restored].state = "running"]
                /\ run[Copying].at # PathEnd(Copying) =>
                     Goes(CASE run[Copying].at = 17 -> 4
                            [] Call(Copying) = "list" /\ id # 0 -> run[Copying].at + 2
                            [] OTHER -> run[Copying].at + 1, id)
    BY CopyReturns
  <1>4. /\ job[Copying].state = "running" /\ Unsettled(Copying) /\ ~Done /\ row[Restored].state # "absent"
        /\ ~Swapped => /\ row[Restored].state = "creating" /\ run[Copying].ref = Restored
                       /\ ~Branching => Placed /\ Progress
    BY <1>2, CopyRuns
  <1>5. run[Copying].at \in 1..17 /\ (Branching => run[Copying].at \in 1..10)
    BY <1>1, <1>2, RunsWithin
  <1>6. PICK c : c = Call(Copying)
    OBVIOUS
  <1>7. PICK a \in 1..17 : a = run[Copying].at
    BY <1>5
  <1>8. Branching => /\ a = 6 => c = "create"
                     /\ c = "create" => a = 6
                     /\ c = "list" => a = 5
    BY <1>5, <1>6, <1>7, BranchCall
  <1>9. ~Branching => /\ c = "list" => a = 6
                      /\ a = 9 => c = "await"
                      /\ a = 11 => c = "backup"
                      /\ a = 15 => c = "start"
    BY <1>5, <1>6, <1>7, RestoreCall
  <1>10. \A b \in BOOLEAN : row' = [row EXCEPT ![Restored].cid = id, ![Restored].sourceRepo = b] =>
            RowBecomes(Restored, row[Restored].state, id, b, row[Restored].deleted)
    BY <1>1, RecordsSet
  <1>11. CASE a # PathEnd(Copying)
    <2>1. PICK i : i = CASE a = 17 -> 4 [] c = "list" /\ id # 0 -> a + 2 [] OTHER -> a + 1
      OBVIOUS
    <2>2. Goes(i, id)
      BY <1>3, <1>6, <1>7, <1>11, <2>1
    <2>3. i \in 1..17 /\ (Branching => i \in 1..10)
          /\ (~Branching => i = (IF a = 17 THEN 4 ELSE a + 1) \/ (a = 6 /\ i = 8))
      <3>1. CASE Branching
        <4>1. a \in 1..9 /\ a # 17
          BY <1>5, <1>7, <1>11, <3>1, LastCall
        <4>2. (a = 5 /\ i = a + 2) \/ i = a + 1
          BY <1>8, <2>1, <3>1, <4>1
        <4> QED  BY <3>1, <4>1, <4>2
      <3>2. CASE ~Branching
        <4>1. a = 17 => i = 4
          BY <1>9, <2>1, <3>2
        <4>2. a # 17 => i = a + 1 \/ (a = 6 /\ i = 8)
          BY <1>9, <2>1, <3>2
        <4> QED  BY <3>2, <4>1, <4>2
      <3> QED  BY <3>1, <3>2
    <2>4. Gone(Copying, i)
      <3>1. run[Copying].at <= PathEnd(Copying) => StepAfter(Copying, run[Copying].at) \in 0..6
        BY <1>1, <1>5, StepTyped
      <3> QED  BY <1>1, <2>2, <2>3, <3>1, GoesToEffect DEF Goes
    <2>5. CASE Branching
      <3>1. row' = row \/ row' = [row EXCEPT ![Restored].cid = id]
        BY <2>2, <2>5 DEF Goes
      <3>2. /\ row' \in [Projects -> ProjectRow] /\ row'[Source] = row[Source]
            /\ row'[Restored].state = row[Restored].state /\ row'[Restored].ref = row[Restored].ref
            /\ row'[Restored].method = row[Restored].method /\ row'[Restored].deleted = row[Restored].deleted
        <4>1. CASE row' = row
          BY <1>1, <4>1 DEF Types
        <4>2. CASE row' = [row EXCEPT ![Restored].cid = id]
          <5>1. RowBecomes(Restored, row[Restored].state, id, row[Restored].sourceRepo, row[Restored].deleted)
            BY <1>1, <4>2, CidSet
          <5> QED  BY <1>1, <5>1 DEF RowBecomes, RowWith
        <4> QED  BY <3>1, <4>1, <4>2
      <3>3. faults' \in 0..MaxFaults /\ store' = store /\ promo' = promo /\ process' = process
        BY <1>1, <1>2 DEF Types
      <3> QED  BY <1>2, <1>7, <1>11, <2>3, <2>4, <2>5, <3>2, <3>3, CopyGoes
    <2>6. CASE ~Branching
      <3>1. a # 8 => row' = row
        BY <1>7, <2>2, <2>6 DEF Goes, StartAt
      <3>2. PICK b \in BOOLEAN : b = IF run[Copying].again THEN row[Restored].sourceRepo ELSE TRUE
        BY <1>1 DEF Types, ProjectRow
      <3>3. a = 8 => row' = [row EXCEPT ![Restored].cid = id, ![Restored].sourceRepo = b]
        <4> SUFFICES ASSUME a = 8 PROVE row' = [row EXCEPT ![Restored].cid = id, ![Restored].sourceRepo = b]
          OBVIOUS
        <4>1. row' = Records(Copying, id)
          BY <1>7, <2>2, <2>6 DEF Goes, StartAt
        <4>2. ~(run[Copying].at > DetachAt)
          BY <1>7 DEF DetachAt
        <4> QED  BY <3>2, <4>1, <4>2 DEF Records
      <3>4. a = 8 => RowBecomes(Restored, row[Restored].state, id, b, row[Restored].deleted)
        BY <1>10, <3>3
      <3>5. /\ row' \in [Projects -> ProjectRow] /\ row'[Source] = row[Source]
            /\ row'[Restored].state = row[Restored].state /\ row'[Restored].ref = row[Restored].ref
            /\ row'[Restored].method = row[Restored].method /\ row'[Restored].deleted = row[Restored].deleted
            /\ a = 8 => row'[Restored].sourceRepo = b
        <4>1. CASE a = 8
          BY <1>1, <3>4, <4>1 DEF RowBecomes, RowWith
        <4>2. CASE a # 8
          BY <1>1, <3>1, <4>2 DEF Types
        <4> QED  BY <4>1, <4>2
      <3>6. faults' \in 0..MaxFaults /\ store' = store /\ promo' = promo /\ process' = process
        BY <1>1, <1>2 DEF Types
      <3>7. ~Swapped => /\ a = 9 => data'[Restored] = "database"
                        /\ a = 11 => repo'[Restored] = "backup"
        <4> SUFFICES ASSUME ~Swapped PROVE /\ a = 9 => data'[Restored] = "database"
                                           /\ a = 11 => repo'[Restored] = "backup"
          OBVIOUS
        <4>1. PICK src \in BOOLEAN : src = (~Branching /\ run[Copying].at < DetachAt)
          BY <1>1, WorksTyped
        <4>2. Acts(Restored, c, run[Copying].cid, Restored, src)
          BY <1>2, <1>4, <1>6, <4>1, Names DEF Works
        <4>3. ContEffect(Restored, c, src) /\ DataEffect(Restored, c, Restored) /\ RepoEffect(Restored, c, Restored)
          BY <1>1, <4>2, ActsEffects
        <4> QED  BY <1>9, <2>6, <4>3 DEF DataEffect, RepoEffect
      <3>8. run[Copying].at = 8 =>
               row'[Restored].sourceRepo = IF run[Copying].again THEN row[Restored].sourceRepo ELSE TRUE
        BY <1>7, <3>2, <3>5
      <3> QED  BY <1>2, <1>7, <1>11, <2>3, <2>4, <2>6, <3>1, <3>5, <3>6, <3>7, <3>8, CopyGoes
    <2> QED  BY <2>5, <2>6
  <1>12. CASE a = PathEnd(Copying)
    <2>1. Finishes(Copying)
      BY <1>3, <1>7, <1>12
    <2>2. Concluded(Copying) /\ job'[Copying].state = "succeeded" /\ job'[Copying].steps = 0
          /\ run'[Copying].at = 0 /\ run'[Copying].again = FALSE /\ OnlyJob(Copying)
      BY <1>1, <2>1, FinishesEffect DEF Concluded
    <2>3. Done' /\ ~Unsettled(Copying)'
      BY <2>2 DEF Done, Unsettled
    <2>4. /\ Branching => RowBecomes(Restored, "running", row[Restored].cid, row[Restored].sourceRepo, row[Restored].deleted)
          /\ ~Branching => (\E b \in BOOLEAN : RowBecomes(Restored, "running", id, b, row[Restored].deleted))
      <3>1. "running" \in RowStates
        BY DEF RowStates
      <3>2. Branching => RowBecomes(Restored, "running", row[Restored].cid, row[Restored].sourceRepo, row[Restored].deleted)
        BY <1>1, <1>3, <1>7, <1>12, <3>1, StateIs
      <3>3. ~Branching => \E b \in BOOLEAN : RowBecomes(Restored, "running", id, b, row[Restored].deleted)
        <4> SUFFICES ASSUME ~Branching PROVE \E b \in BOOLEAN : RowBecomes(Restored, "running", id, b, row[Restored].deleted)
          OBVIOUS
        <4>1. row' = [Records(Copying, id) EXCEPT ![Restored].state = "running"]
          BY <1>3, <1>7, <1>12
        <4>2. PICK b : b = IF run[Copying].at > DetachAt THEN FALSE
                           ELSE IF run[Copying].again THEN row[Restored].sourceRepo ELSE TRUE
          OBVIOUS
        <4>3. b \in BOOLEAN
          BY <1>1, <4>2 DEF Types, ProjectRow
        <4>4. row' = [[row EXCEPT ![Restored].cid = id, ![Restored].sourceRepo = b] EXCEPT ![Restored].state = "running"]
          BY <4>1, <4>2 DEF Records
        <4>5. RowBecomes(Restored, "running", id, b, row[Restored].deleted)
          BY <1>1, <3>1, <4>3, <4>4, RecordsState
        <4> QED  BY <4>3, <4>5
      <3> QED  BY <3>2, <3>3
    <2>5. /\ row' \in [Projects -> ProjectRow] /\ row'[Source] = row[Source]
          /\ row'[Restored].state = "running" /\ row'[Restored].ref = row[Restored].ref
          /\ row'[Restored].method = row[Restored].method /\ row'[Restored].deleted = row[Restored].deleted
      <3>1. CASE Branching
        BY <1>1, <2>4, <3>1 DEF RowBecomes, RowWith
      <3>2. CASE ~Branching
        <4>1. PICK b \in BOOLEAN : RowBecomes(Restored, "running", id, b, row[Restored].deleted)
          BY <2>4, <3>2
        <4> QED  BY <1>1, <4>1 DEF RowBecomes, RowWith
      <3> QED  BY <3>1, <3>2
    <2>6. RunsInv'
      BY <1>1, <2>2, <2>5, EndedRuns
    <2>7. Types'
      <3>1. /\ cont' \in [Projects -> Container] /\ data' \in [Projects -> DataStates]
            /\ repo' \in [Projects -> RepoStates] /\ net' \subseteq Projects
        BY <1>1, <1>2, HostTypes
      <3> QED  BY <1>1, <1>2, <2>2, <2>5, <3>1 DEF Types, OnlyJob
    <2>8. CASE Swapped
      <3>1. \A p \in Projects : row'[p].state = "absent" <=> row[p].state = "absent"
        BY <1>4, <2>5, Names
      <3> QED  BY <1>1, <1>4, <2>2, <2>5, <2>6, <2>7, <2>8, <3>1, SwappedStep
    <2>9. CASE ~Swapped
      <3>1. MadeKept
        BY <1>1, <1>2, <2>9, HostMade
      <3>2. Copied'
        <4>1. (Branching' <=> Branching)
          BY <2>5 DEF Branching
        <4>2. CASE Branching
          BY <1>4, <2>5, <3>1, <4>1, <4>2 DEF Copied, MadeKept
        <4>3. CASE ~Branching
          <5>1. a = 15
            BY <1>12, <4>3, LastCall
          <5>2. job[Copying].steps = 5
            <6>1. ~run[Copying].again
              BY <1>4, <1>7, <2>9, <4>3, <5>1 DEF Placed
            <6> QED  BY <1>4, <1>7, <2>9, <4>3, <5>1, <6>1 DEF Placed, Behind
          <5>3. data'[Restored] = "database" /\ repo'[Restored] = "backup" /\ ~cont'[Restored].src
            BY <1>4, <1>7, <3>1, <4>3, <5>1, <5>2 DEF MadeKept
          <5>4. Placed' /\ Progress'
            BY <2>2, <2>3, <5>3 DEF Placed, Progress
          <5> QED  BY <2>5, <4>1, <4>3, <5>4 DEF Copied
        <4> QED  BY <4>2, <4>3
      <3> QED  BY <1>1, <1>2, <1>4, <2>2, <2>3, <2>5, <2>6, <2>7, <2>9, <3>2, CopyStep
    <2> QED  BY <2>8, <2>9
  <1> QED  BY <1>7, <1>11, <1>12
-----------------------------------------------------------------------------
(* Recovery: skipped, failed and interrupted. *)

\* There is no repository to detach from only if the refs were swapped meanwhile.
LEMMA CopySkipsKeeps ==
    ASSUME RecoveryInv, StepSkipped(Copying)
    PROVE  RecoveryInv'
  <1>1. Copying \in Jobs /\ Restored \in Projects /\ Source \in Projects /\ Source # Restored /\ Types
    BY Names DEF RecoveryInv
  <1>2. /\ run[Copying].at = 12 /\ ~Branching /\ ~row[Restored].sourceRepo /\ Finishes(Copying)
        /\ row' = [row EXCEPT ![Restored].state = "running"]
        /\ Untouched /\ UNCHANGED <<store, promo, process, faults>>
    BY DEF StepSkipped, Skipped, DetachAt
  <1>3. /\ job[Copying].state = "running" /\ ~Done /\ row[Restored].state # "absent"
        /\ ~Swapped => Placed /\ Progress
    BY <1>2, CopyRuns
  <1>4. Swapped
    <2> SUFFICES ASSUME ~Swapped PROVE FALSE
      OBVIOUS
    <2>1. ~run[Copying].again
      BY <1>2, <1>3 DEF Placed
    <2>2. job[Copying].steps = 5
      BY <1>2, <1>3, <2>1 DEF Placed, Behind
    <2> QED  BY <1>2, <1>3, <2>2 DEF Progress
  <1>5. Concluded(Copying) /\ job'[Copying].state = "succeeded" /\ OnlyJob(Copying)
    BY <1>1, <1>2, FinishesEffect DEF Concluded
  <1>6. RowBecomes(Restored, "running", row[Restored].cid, row[Restored].sourceRepo, row[Restored].deleted)
    BY <1>1, <1>2, StateIs DEF RowStates
  <1>7. /\ row' \in [Projects -> ProjectRow] /\ row'[Source] = row[Source]
        /\ row'[Restored].state = "running" /\ row'[Restored].ref = row[Restored].ref
        /\ row'[Restored].method = row[Restored].method
    BY <1>1, <1>6 DEF RowBecomes, RowWith
  <1>8. RunsInv'
    BY <1>1, <1>5, <1>7, EndedRuns
  <1>9. Types'
    BY <1>1, <1>2, <1>5, <1>7 DEF Types, OnlyJob, Untouched
  <1>10. \A p \in Projects : row'[p].state = "absent" <=> row[p].state = "absent"
    BY <1>3, <1>7, Names
  <1> QED  BY <1>1, <1>3, <1>4, <1>5, <1>7, <1>8, <1>9, <1>10, SwappedStep

\* The target time cannot be reached.
LEMMA TargetUnreachableKeeps ==
    ASSUME RecoveryInv, TargetUnreachable
    PROVE  RecoveryInv'
  <1>1. Copying \in Jobs /\ Types /\ RunOf(Copying)
    BY Names DEF RecoveryInv, RunsInv
  <1>2. /\ run[Copying].at = 9 /\ ~Branching
        /\ run' = [run EXCEPT ![Copying].at = 16, ![Copying].again = TRUE, ![Copying].old = run[Copying].cid]
        /\ Untouched /\ UNCHANGED <<store, row, job, promo, process, faults>>
    BY DEF TargetUnreachable, Late, AwaitAt, Fallback
  <1>3. PICK h \in Handler : h = run[Copying]
    BY <1>1 DEF Types
  <1>4. PICK x : x = [h EXCEPT !.at = 16]
    OBVIOUS
  <1>5. x \in Handler /\ x.at = 16 /\ x.ref = h.ref
    <2>1. [h EXCEPT !.at = 16] \in Handler /\ [h EXCEPT !.at = 16].at = 16 /\ [h EXCEPT !.at = 16].ref = h.ref
      BY DEF Handler
    <2> QED  BY <1>4, <2>1
  <1>6. PICK y : y = [x EXCEPT !.again = TRUE]
    OBVIOUS
  <1>7. y \in Handler /\ y.at = 16 /\ y.ref = h.ref /\ y.again = TRUE
    <2>1. [x EXCEPT !.again = TRUE] \in Handler /\ [x EXCEPT !.again = TRUE].at = 16
          /\ [x EXCEPT !.again = TRUE].ref = h.ref /\ [x EXCEPT !.again = TRUE].again = TRUE
      BY <1>5 DEF Handler
    <2> QED  BY <1>6, <2>1
  <1>8. PICK z : z = [y EXCEPT !.old = h.cid]
    OBVIOUS
  <1>9. z \in Handler /\ z.at = 16 /\ z.ref = h.ref /\ z.again = TRUE
    <2>1. h.cid \in {0} \cup Ids
      BY DEF Handler
    <2>2. [y EXCEPT !.old = h.cid] \in Handler /\ [y EXCEPT !.old = h.cid].at = 16
          /\ [y EXCEPT !.old = h.cid].ref = h.ref /\ [y EXCEPT !.old = h.cid].again = TRUE
      BY <1>7, <2>1 DEF Handler
    <2> QED  BY <1>8, <2>2
  <1>10. run' = [run EXCEPT ![Copying] = z]
    BY <1>2, <1>3, <1>4, <1>6, <1>8
  <1>11. OnlyJob(Copying) /\ run'[Copying] = z /\ job'[Copying] = job[Copying]
    <2>1. job' = job
      BY <1>2
    <2> QED  BY <1>1, <1>9, <1>10, <2>1 DEF Types, OnlyJob
  <1>12. Types'
    BY <1>1, <1>2, <1>11 DEF Types, OnlyJob, Untouched
  <1>13. /\ job[Copying].state = "running" /\ Unsettled(Copying) /\ ~Done /\ row[Restored].state # "absent"
         /\ ~Swapped => /\ row[Restored].state = "creating" /\ run[Copying].ref = Restored
                        /\ Placed /\ Progress
    BY <1>2, CopyRuns
  <1>14. RunsInv'
    <2>1. Furthest(Copying)' = 17 /\ MostSteps(Copying)' = MostSteps(Copying)
      BY <1>2 DEF Furthest, MostSteps, Branching
    <2>2. RunOf(Copying)'
      BY <1>1, <1>2, <1>9, <1>11, <1>13, <2>1 DEF RunOf
    <2> QED  BY <1>1, <1>2, <1>11, <2>2, RunsSet DEF RecoveryInv
  <1>15. CASE Swapped
    BY <1>1, <1>2, <1>11, <1>12, <1>13, <1>14, <1>15, SwappedStep
  <1>16. CASE ~Swapped
    <2>1. job[Copying].steps = 3
      BY <1>2, <1>13, <1>16 DEF Placed, Behind
    <2>2. Placed'
      BY <1>9, <1>11, <2>1 DEF Placed
    <2>3. Progress'
      BY <1>2, <1>9, <1>11, <1>13, <1>16 DEF Progress, Done, Unsettled, Untouched
    <2>4. Copied'
      BY <1>2, <1>13, <2>2, <2>3 DEF Copied, Branching
    <2>5. HostStep(Copying) /\ (Unsettled(Copying)' => row'[Restored].state = "creating")
          /\ row'[Restored].state \in {"creating", "running", "failed"}
      BY <1>2, <1>13, <1>16 DEF HostStep
    <2> QED  BY <1>2, <1>3, <1>9, <1>11, <1>12, <1>13, <1>14, <1>16, <2>4, <2>5, CopyStep
  <1> QED  BY <1>15, <1>16

\* An attempt ends without success.
LEMMA AttemptFails ==
    ASSUME RecoveryInv, NEW j \in Jobs, run[j].at # 0, Untouched, UNCHANGED <<store, promo, process>>,
           faults' \in 0..MaxFaults, Concluded(j), job'[j].state # "succeeded",
           row' \in [Projects -> ProjectRow], \A p \in Projects : KeptRow(p) /\ (p # Restored => row'[p] = row[p]),
           j # Copying => row' = row,
           j = Copying => /\ row'[Restored].state \in {row[Restored].state, "failed", "creating"}
                          /\ job'[j].state = "queued" /\ row[Restored].state = "creating" =>
                                row'[Restored].state = "creating"
    PROVE  RecoveryInv'
  <1>1. job[j].state = "running" /\ OnlyJob(j) /\ Types /\ HostStep(j)
    BY RunsWithin DEF Concluded, RecoveryInv, HostStep
  <1>2. /\ job'[j].state \in {"queued", "failed", "cancelled"} /\ job'[j].steps = job[j].steps
        /\ run'[j].at = 0 /\ run'[j].again = FALSE
    BY DEF Concluded
  <1>3. Types'
    BY <1>1 DEF Types, OnlyJob, Untouched
  <1>4. row'[Restored].method = row[Restored].method /\ row'[Restored].ref = row[Restored].ref
        /\ (Branching' <=> Branching)
    BY Names DEF KeptRow, Branching
  <1>5. RunsInv'
    BY <1>4, EndedRuns
  <1>6. CASE Swapped
    <2>1. \A p \in Projects : row'[p].state = "absent" <=> row[p].state = "absent"
      <3>1. j = Copying => row[Restored].state # "absent"
        BY CopyRuns
      <3> QED  BY <3>1, Names
    <2> QED  BY <1>1, <1>2, <1>3, <1>4, <1>5, <1>6, <2>1, SwappedStep
  <1>7. CASE ~Swapped /\ j = Copying
    <2>1. /\ Unsettled(Copying) /\ ~Done /\ row[Restored].state = "creating"
          /\ ~Branching => Placed /\ Progress
      BY <1>7, CopyRuns
    <2>2. job'[Copying].steps = job[Copying].steps /\ ~Done' /\ run'[Copying].at = 0 /\ run'[Copying].again = FALSE
          /\ row'[Restored].state \in {"creating", "failed"}
      BY <1>2, <1>7, <2>1 DEF Done
    <2>3. Copied'
      <3>1. CASE Branching
        BY <1>4, <1>7, <2>1, <2>2, <3>1 DEF Untouched, RecoveryInv, Unswapped, Copied
      <3>2. CASE ~Branching
        <4>1. Placed'
          BY <2>2 DEF Placed
        <4>2. /\ row'[Restored].sourceRepo = row[Restored].sourceRepo /\ row'[Restored].cid = row[Restored].cid
              /\ data' = data /\ repo' = repo /\ cont' = cont
          BY Names DEF KeptRow, Untouched
        <4>3. Progress'
          BY <2>1, <2>2, <3>2, <4>2 DEF Progress
        <4> QED  BY <1>4, <2>2, <3>2, <4>1, <4>3 DEF Copied
      <3> QED  BY <3>1, <3>2
    <2>4. Unsettled(Copying)' => row'[Restored].state = "creating"
      BY <1>2, <1>7, <2>1 DEF Unsettled
    <2>5. row'[Source] = row[Source] /\ row'[Restored].deleted = row[Restored].deleted
      BY Names DEF KeptRow
    <2> QED  BY <1>1, <1>2, <1>3, <1>4, <1>5, <1>7, <2>1, <2>2, <2>3, <2>4, <2>5, CopyStep
  <1>8. CASE ~Swapped /\ j # Copying
    <2>1. j \in Projects /\ row' = row
      BY <1>8, Names
    <2>2. ~row[j].deleted
      BY <1>1, <1>8, <2>1 DEF RecoveryInv, Unswapped, Deleting
    <2>3. Cleared(j)'
      <3>1. Cleared(j)
        BY <1>8, <2>1 DEF RecoveryInv, Unswapped
      <3> QED  BY <1>2, <2>1, <3>1 DEF Cleared, Untouched
    <2> QED  BY <1>1, <1>2, <1>3, <1>5, <1>8, <2>1, <2>2, <2>3, DeletionStep
  <1> QED  BY <1>6, <1>7, <1>8

LEMMA CallThrowsKeeps ==
    ASSUME RecoveryInv, NEW j \in Jobs, CallThrows(j)
    PROVE  RecoveryInv'
  <1>1. /\ run[j].at # 0 /\ Untouched /\ UNCHANGED <<store, promo, process>> /\ Types /\ HostStep(j)
    BY DEF CallThrows, RecoveryInv, HostStep
  <1>2. faults' \in 0..MaxFaults
    BY BoundsAssumption DEF CallThrows, Fault, RecoveryInv, Types
  <1>3. CASE ~Cancelled(j) /\ (Call(j) = "checkpoint" \/ run[j].at = Fallback)
    <2>1. GoesTo(j, run[j].at + 1, run[j].cid) /\ row' = row
      BY <1>3 DEF CallThrows
    <2>2. PICK c : c = Call(j)
      OBVIOUS
    <2>3. j = Copying /\ run[j].at \in 1..17 /\ (Branching => run[j].at = 1) /\ (~Branching => run[j].at = 16)
      <3>1. j = Copying
        <4> SUFFICES ASSUME j \in Projects PROVE FALSE
          BY Names
        <4>1. run[j].at \in 1..5
          BY <1>1, RunsWithin
        <4>2. run[j].at = 1 \/ run[j].at = 2 \/ run[j].at = 3 \/ run[j].at = 4 \/ run[j].at = 5
          BY <4>1
        <4>3. c \in {"stop", "remove", "rmdata", "rmrepo", "rmnet"}
          BY <2>2, <4>1, <4>2, DeleteCall
        <4> QED  BY <1>3, <2>2, <4>1, <4>3 DEF Fallback
      <3>2. run[j].at \in 1..17 /\ (Branching => run[j].at \in 1..10)
        BY <1>1, <3>1, RunsWithin
      <3>3. CASE Branching
        <4>1. c = "checkpoint"
          BY <1>3, <2>2, <3>2, <3>3 DEF Fallback
        <4>2. PICK a \in 1..10 : a = run[j].at
          BY <3>2, <3>3
        <4>3. a = 1 \/ a = 2 \/ a = 3 \/ a = 4 \/ a = 5 \/ a = 6 \/ a = 7 \/ a = 8 \/ a = 9 \/ a = 10
          OBVIOUS
        <4>4. a # 1 => c # "checkpoint"
          BY <2>2, <3>1, <3>3, <4>2, <4>3, BranchCall
        <4> QED  BY <3>1, <3>2, <3>3, <4>1, <4>2, <4>4
      <3>4. CASE ~Branching
        <4>1. c # "checkpoint"
          <5>1. PICK a \in 1..17 : a = run[Copying].at
            BY <3>1, <3>2
          <5>2. a = 1 \/ a = 2 \/ a = 3 \/ a = 4 \/ a = 5 \/ a = 6 \/ a = 7 \/ a = 8 \/ a = 9 \/ a = 10
                \/ a = 11 \/ a = 12 \/ a = 13 \/ a = 14 \/ a = 15 \/ a = 16 \/ a = 17
            OBVIOUS
          <5> QED  BY <2>2, <3>1, <3>4, <5>1, <5>2, RestoreCall
        <4> QED  BY <1>3, <2>2, <3>1, <3>2, <3>4, <4>1 DEF Fallback
      <3> QED  BY <3>1, <3>3, <3>4
    <2>4. run[j].at + 1 \in 1..17 /\ run[j].cid \in {0} \cup Ids /\ run[j].at # PathEnd(Copying)
      BY <1>1, <2>3, LastCall DEF Types, Handler
    <2>5. run[j].at <= PathEnd(j) => StepAfter(j, run[j].at) \in 0..6
      BY <2>3, StepTyped
    <2>6. Gone(Copying, run[j].at + 1)
      BY <1>1, <2>1, <2>3, <2>4, <2>5, GoesToEffect
    <2>7. row' \in [Projects -> ProjectRow] /\ row'[Source] = row[Source]
      BY <1>1, <2>1 DEF Types
    <2>8. /\ HostStep(Copying) /\ run[Copying].at # 0 /\ run[Copying].at # PathEnd(Copying)
          /\ store' = store /\ promo' = promo /\ process' = process
      BY <1>1, <2>3, <2>4
    <2>9. PICK i \in 1..17 : i = run[Copying].at + 1
      BY <2>3, <2>4
    <2>10. Gone(Copying, i)
      BY <2>3, <2>6, <2>9
    <2>11. Branching => i \in 1..10
      BY <2>3, <2>9
    <2>12. ~Branching => /\ i = IF run[Copying].at = 17 THEN 4 ELSE run[Copying].at + 1
                         /\ run[Copying].at = 16
      BY <2>3, <2>9
    <2>13. ~Swapped /\ ~Branching => /\ run[Copying].at = 9 => data'[Restored] = "database"
                                     /\ run[Copying].at = 11 => repo'[Restored] = "backup"
      BY <2>12
    <2>14. ~Branching => /\ i = (IF run[Copying].at = 17 THEN 4 ELSE run[Copying].at + 1)
                            \/ (run[Copying].at = 6 /\ i = 8)
                         /\ run[Copying].at # 8 => row' = row
                         /\ run[Copying].at = 14 => Works(Copying)
                         /\ run[Copying].at = 8 =>
                              row'[Restored].sourceRepo = IF run[Copying].again THEN row[Restored].sourceRepo ELSE TRUE
      <3>1. ~Branching => run[Copying].at # 8 /\ run[Copying].at # 14
        BY <2>12
      <3>2. ~Branching => i = (IF run[Copying].at = 17 THEN 4 ELSE run[Copying].at + 1)
        BY <2>12
      <3> QED  BY <2>1, <3>1, <3>2, Zenon
    <2>15. /\ row'[Restored].state = row[Restored].state /\ row'[Restored].ref = row[Restored].ref
           /\ row'[Restored].method = row[Restored].method /\ row'[Restored].deleted = row[Restored].deleted
      BY <2>1
    <2> QED  BY <1>2, <2>7, <2>8, <2>10, <2>11, <2>13, <2>14, <2>15, CopyGoes
  <1>4. CASE ~(~Cancelled(j) /\ (Call(j) = "checkpoint" \/ run[j].at = Fallback))
    <2>1. PICK cancelled \in BOOLEAN : cancelled = Cancelled(j)
      BY DEF Cancelled
    <2>2. /\ run' = [run EXCEPT ![j] = NoRun]
          /\ job' = [job EXCEPT ![j] = IF cancelled THEN CancelledAttempt(j) ELSE FailedAttempt(j)]
      BY <1>4, <2>1 DEF CallThrows
    <2>3. PICK s : s = IF job[j].attempts >= MaxAttempts[j] THEN "failed" ELSE "creating"
      OBVIOUS
    <2>4. row' = IF j # Copying \/ cancelled THEN row ELSE [row EXCEPT ![Restored].state = s]
      BY <1>4, <2>1, <2>3 DEF CallThrows
    <2>5. PICK x : x = IF cancelled THEN CancelledAttempt(j) ELSE FailedAttempt(j)
      OBVIOUS
    <2>6. Attempted(x, j) /\ (~cancelled => x.state = IF job[j].attempts >= MaxAttempts[j] THEN "failed" ELSE "queued")
      <3>1. job[j].attempts > 0
        BY <1>1, RunsWithin
      <3> QED  BY <1>1, <2>5, <3>1, CancelledJob, FailedJob
    <2>7. Concluded(j) /\ job'[j] = x /\ x.state # "succeeded"
      <3>1. job' = [job EXCEPT ![j] = x]
        BY <2>2, <2>5
      <3> QED  BY <1>1, <2>2, <2>6, <3>1, AttemptEnds DEF Attempted
    <2>8. /\ row' \in [Projects -> ProjectRow] /\ \A p \in Projects : KeptRow(p) /\ (p # Restored => row'[p] = row[p])
          /\ j # Copying => row' = row
          /\ j = Copying => /\ row'[Restored].state \in {row[Restored].state, "failed", "creating"}
                            /\ x.state = "queued" /\ row[Restored].state = "creating" =>
                                   row'[Restored].state = "creating"
      <3>1. CASE j # Copying \/ cancelled
        BY <1>1, <2>4, <3>1 DEF Types, KeptRow
      <3>2. CASE j = Copying /\ ~cancelled
        <4>1. row' = [row EXCEPT ![Restored].state = s] /\ s \in RowStates /\ s \in {"failed", "creating"}
              /\ Restored \in Projects
          BY <2>3, <2>4, <3>2, Names DEF RowStates
        <4>2. RowBecomes(Restored, s, row[Restored].cid, row[Restored].sourceRepo, row[Restored].deleted)
          BY <1>1, <4>1, StateIs
        <4>3. /\ row' \in [Projects -> ProjectRow] /\ \A p \in Projects : KeptRow(p) /\ (p # Restored => row'[p] = row[p])
              /\ row'[Restored].state = s
          BY <4>2 DEF RowBecomes, RowWith, KeptRow
        <4>4. x.state = "queued" => s = "creating"
          BY <2>3, <2>6, <3>2
        <4> QED  BY <3>2, <4>1, <4>3, <4>4
      <3> QED  BY <2>1, <3>1, <3>2
    <2> QED  BY <1>1, <1>2, <2>7, <2>8, AttemptFails
  <1> QED  BY <1>3, <1>4

LEMMA CrashKeeps ==
    ASSUME RecoveryInv, Crash
    PROVE  RecoveryInv'
  <1>1. /\ Types /\ RunsInv /\ CopyRow /\ faults' \in 0..MaxFaults /\ UNCHANGED <<store, row>>
        /\ promo' = 0 /\ process' = "up" /\ run' = [j \in Jobs |-> NoRun]
        /\ job' = [j \in Jobs |-> IF run[j].at = 0 THEN job[j] ELSE FailedAttempt(j)]
    BY BoundsAssumption DEF Crash, Fault, RecoveryInv, Types
  <1>2. PICK k \in Jobs : HostStep(k)
    <2>1. CASE Untouched
      BY <2>1, Names DEF HostStep
    <2>2. CASE ~Untouched
      <3>1. PICK k \in Jobs : run[k].at # 0 /\ Works(k)
        BY <2>2 DEF Crash, Works
      <3> QED  BY <3>1 DEF HostStep
    <2> QED  BY <2>1, <2>2
  <1>3. \A j \in Jobs : /\ job'[j] \in JobRow /\ job'[j].steps = job[j].steps
                        /\ run[j].at = 0 => job'[j] = job[j]
                        /\ run[j].at # 0 => job[j].state = "running" /\ job'[j].state \in {"queued", "failed", "cancelled"}
                        /\ run'[j].at = 0 /\ run'[j].again = FALSE /\ run'[j] \in Handler
    <2> TAKE j \in Jobs
    <2>1. Attempted(FailedAttempt(j), j)
      BY <1>1, FailedJob
    <2>2. job'[j] = IF run[j].at = 0 THEN job[j] ELSE FailedAttempt(j)
      BY <1>1
    <2>3. run'[j] = NoRun
      BY <1>1
    <2>4. run[j].at # 0 => job[j].state = "running"
      BY <1>1 DEF RunsInv, RunOf
    <2> QED  BY <1>1, <2>1, <2>2, <2>3, <2>4, NoRunTyped DEF Attempted, Types
  <1>4. job' \in [Jobs -> JobRow] /\ run' \in [Jobs -> Handler]
    BY <1>1, <1>3
  <1>5. Types'
    <2>1. /\ cont' \in [Projects -> Container] /\ data' \in [Projects -> DataStates]
          /\ repo' \in [Projects -> RepoStates] /\ net' \subseteq Projects
      BY <1>1, <1>2, HostTypes
    <2> QED  BY <1>1, <1>4, <2>1 DEF Types
  <1>6. RunsInv'
    <2>1. ASSUME NEW j \in Jobs PROVE RunOf(j)'
      <3>1. RunOf(j) /\ Furthest(j)' = Furthest(j) /\ MostSteps(j)' = MostSteps(j) /\ Furthest(j) \in Nat
        BY <1>1 DEF RunsInv, Furthest, MostSteps, Branching
      <3>2. job'[j].state # "running" /\ (job'[j].state = "none" => job'[j] = job[j])
        BY <1>3, <3>1 DEF RunOf
      <3> QED  BY <1>3, <3>1, <3>2 DEF RunOf
    <2> QED  BY <2>1 DEF RunsInv
  <1>7. (job'[Copying].state = "none" <=> job[Copying].state = "none") /\ Copying \in Jobs
    BY <1>3, Names
  <1>8. CASE Swapped
    BY <1>1, <1>5, <1>6, <1>7, <1>8, SwappedOn
  <1>9. CASE ~Swapped
    <2>1. OwnRefs' /\ ~Swapped' /\ CopyRow'
      BY <1>1, <1>3, <1>7, <1>9 DEF RecoveryInv, Unswapped, OwnRefs, Swapped, CopyRow
    <2>2. Deleting'
      <3>1. Deleting
        BY <1>9 DEF RecoveryInv, Unswapped
      <3>2. \A j \in Jobs : /\ job'[j].state # "none" => job[j].state # "none"
                            /\ job[j].state = "succeeded" => job'[j].state = "succeeded"
                            /\ Unsettled(j)' => Unsettled(j)
        BY <1>3 DEF Unsettled
      <3>3. Restored \in Jobs /\ \A p \in Projects : p \in Jobs
        BY Names
      <3> QED  BY <1>1, <1>7, <3>1, <3>2, <3>3 DEF Deleting
    <2>3. ASSUME NEW p \in Projects PROVE Cleared(p)'
      <3>1. p \in Jobs
        BY Names
      <3> QED  BY <1>1, <1>2, <1>3, <1>9, <3>1, ClearedStays
    <2>4. Copied'
      <3>1. MadeKept /\ Copied
        BY <1>2, <1>9, HostMade DEF RecoveryInv, Unswapped
      <3>2. Placed'
        BY <1>3, <1>7 DEF Placed
      <3>3. /\ (Done' <=> Done) /\ job'[Copying].steps = job[Copying].steps
            /\ (Unsettled(Copying)' => Unsettled(Copying)) /\ run'[Copying].at = 0
            /\ (job'[Restored].state = "none" => job[Restored].state = "none")
        BY <1>3, <1>7, Names DEF Done, Unsettled
      <3>4. row[Restored].state # "absent" /\ ~Branching => Progress'
        BY <1>1, <3>1, <3>3 DEF Progress, Copied, MadeKept
      <3> QED  BY <1>1, <3>1, <3>2, <3>4 DEF Copied, MadeKept, Branching
    <2> QED  BY <1>5, <1>6, <2>1, <2>2, <2>3, <2>4 DEF RecoveryInv, Unswapped
  <1> QED  BY <1>8, <1>9

-----------------------------------------------------------------------------
(* Recovery: the theorems. *)

LEMMA EveryStepKeeps ==
    ASSUME RecoveryInv, [Next]_vars
    PROVE  RecoveryInv'
  <1>1. ASSUME NEW e \in BOOLEAN, CreateBranch(e) PROVE RecoveryInv'
    BY <1>1, CopiesKeeps DEF CreateBranch, Copyable
  <1>2. ASSUME NEW e \in BOOLEAN, NEW m \in {"latest", "late"}, StartRestore(m, e) PROVE RecoveryInv'
    <2>1. row[Restored].state = "absent" /\ Copies(m, e) /\ m \in {"latest", "late", "cow"}
      BY <1>2 DEF StartRestore, Copyable
    <2> QED  BY <2>1, CopiesKeeps
  <1>3. ASSUME ExpireDue PROVE RecoveryInv'
    BY <1>3, DeleteKeeps, Names DEF ExpireDue
  <1>4. ASSUME NEW p \in Projects, Delete(p) \/ Reconcile(p) \/ \E up \in BOOLEAN : SetRunning(p, up)
        PROVE  RecoveryInv'
    BY <1>4, DeleteKeeps, ReconcileKeeps, SetRunningKeeps
  <1>5. ASSUME NEW j \in Jobs, Claim(j) \/ CallReturns(j) \/ StepSkipped(j) \/ CallThrows(j)
        PROVE  RecoveryInv'
    <2>1. j \in Projects \/ j = Copying
      BY Names
    <2> QED  BY <1>5, <2>1, ClaimKeeps, DeletionReturnsKeeps, CopyReturnsKeeps, DeletionSkipsKeeps,
                CopySkipsKeeps, CallThrowsKeeps
  <1>6. CASE UNCHANGED vars
    BY <1>6, StutterKeeps
  <1> QED  BY <1>1, <1>2, <1>3, <1>4, <1>5, <1>6, SetExpiryKeeps, RequestCancelKeeps, PromoteKeeps,
              PromoteReturnsKeeps, ProcessKeeps, TargetUnreachableKeeps, CrashKeeps DEF Next

LEMMA RecoveryInvariant == Spec => []RecoveryInv
  <1>1. Init => RecoveryInv
    BY InitHolds
  <1>2. RecoveryInv /\ [Next]_vars => RecoveryInv'
    BY EveryStepKeeps
  <1> QED  BY <1>1, <1>2, PTL DEF Spec

\* Rows, volumes, containers, jobs and handlers keep their types; in particular there is always a
\* container id that nothing refers to.
THEOREM RecoveryTypes == Spec => []TypeOK
  <1>1. RecoveryInv => TypeOK
    BY DEF RecoveryInv, Types, TypeOK, ProjectRow, Container, JobRow, Handler, DataStates, RepoStates
  <1> QED  BY <1>1, RecoveryInvariant, PTL

\* A project that is retired left no container, data or backup on the host, whatever failed, crashed
\* or was retried while it was deleted, and whatever job had worked on it, unless it was promoted.
THEOREM RetiredLeavesNothing == Spec => []RetiredMeansGone
  <1>1. RecoveryInv => RetiredMeansGone
    BY DEF RecoveryInv, Unswapped, Cleared, RetiredMeansGone
  <1> QED  BY <1>1, RecoveryInvariant, PTL

\* A copy that runs and may be promoted does not need its source: neither does its container mount
\* the source's repository, nor does it lack its database or, restored, its own backup.
THEOREM CopyStandsAlone == Spec => []CopyIsIndependent
  <1>1. ASSUME RecoveryInv, row[Restored].state = "running", ~row[Restored].sourceRepo, ~Swapped
        PROVE  /\ data[Restored] = "database" \/ Branching
               /\ ~cont[Restored].src
               /\ ~Branching => repo[Restored] = "backup"
    <2>1. Copied /\ Deleting
      BY <1>1 DEF RecoveryInv, Unswapped
    <2>2. CASE Branching
      BY <1>1, <2>1, <2>2 DEF Copied
    <2>3. CASE ~Branching
      <3>1. Progress
        BY <1>1, <2>1, <2>3 DEF Copied
      <3>2. Done
        BY <1>1, <3>1 DEF Progress
      <3>3. job[Restored].state = "none"
        BY <1>1, <2>1, Names DEF Deleting
      <3> QED  BY <2>3, <3>1, <3>2, <3>3 DEF Progress
    <2> QED  BY <2>2, <2>3
  <1>2. RecoveryInv => CopyIsIndependent
    BY <1>1 DEF CopyIsIndependent
  <1> QED  BY <1>2, RecoveryInvariant, PTL

-----------------------------------------------------------------------------
(* Instance: the inductive invariant. *)

File == [id : Nat, content : {"partial", "unclaimed", "whole"}]

Typed ==
    /\ count \in [claims : Nat, tokens : Nat, backups : Nat, taken : BOOLEAN]
    /\ token \in Nat
    /\ files \in Seq(File)
    /\ backup \in [Slots -> Nat]

\* A run is writing a file of its own, which nobody has finished; ids are not given twice.
Writing ==
    /\ \A f \in Range(files) : f.id \in 1..count.backups
    /\ \A s \in Slots : backup[s] <= count.backups
    /\ \A s, t \in Slots : s # t /\ backup[s] # 0 => backup[s] # backup[t]
    /\ \A s \in Slots, f \in Range(files) : f.id = backup[s] => f.content = "partial"

IInv == Typed /\ Writing /\ WholeBackupIsKept

-----------------------------------------------------------------------------
(* Instance: files. *)

\* What is in a file list after one is appended.
LEMMA AppendRange ==
    ASSUME NEW S, NEW fs \in Seq(S), NEW x \in S
    PROVE  Append(fs, x) \in Seq(S) /\ Range(Append(fs, x)) = Range(fs) \cup {x}
  <1>1. /\ Append(fs, x) \in Seq(S)
        /\ Len(Append(fs, x)) = Len(fs) + 1
        /\ \A i \in 1..Len(fs) : Append(fs, x)[i] = fs[i]
        /\ Append(fs, x)[Len(fs) + 1] = x
    BY AppendProperties
  <1>2. /\ DOMAIN fs = 1..Len(fs) /\ Len(fs) \in Nat
        /\ DOMAIN Append(fs, x) = 1..(Len(fs) + 1)
    BY <1>1, LenProperties
  <1>3. ASSUME NEW y \in Range(Append(fs, x)) PROVE y \in Range(fs) \cup {x}
    BY <1>1, <1>2 DEF Range
  <1>4. ASSUME NEW y \in Range(fs) \cup {x} PROVE y \in Range(Append(fs, x))
    <2>1. CASE y = x
      BY <1>1, <1>2, <2>1 DEF Range
    <2>2. CASE y \in Range(fs)
      <3>1. PICK i \in 1..Len(fs) : y = fs[i]
        BY <1>2, <2>2 DEF Range
      <3> QED  BY <1>1, <1>2, <3>1 DEF Range
    <2> QED  BY <1>4, <2>1, <2>2
  <1> QED  BY <1>1, <1>3, <1>4

\* A segment of a list, element by element.
LEMMA Segment ==
    ASSUME NEW S, NEW fs \in Seq(S), NEW m \in 1..(Len(fs) + 1), NEW n \in (m - 1)..Len(fs)
    PROVE  /\ SubSeq(fs, m, n) \in Seq(S)
           /\ Range(SubSeq(fs, m, n)) = {fs[i] : i \in m..n}
  <1>1. Len(fs) \in Nat /\ m \in Nat /\ n \in Nat /\ \A i \in m..n : fs[i] \in S
    BY LenProperties, ElementOfSeq
  <1>2. /\ SubSeq(fs, m, n) \in Seq(S)
        /\ Len(SubSeq(fs, m, n)) = n - m + 1
        /\ \A i \in 1..(n - m + 1) : SubSeq(fs, m, n)[i] = fs[m + i - 1]
    BY <1>1, SubSeqProperties
  <1>3. DOMAIN SubSeq(fs, m, n) = 1..(n - m + 1)
    BY <1>2, LenProperties
  <1>4. ASSUME NEW y \in Range(SubSeq(fs, m, n)) PROVE \E i \in m..n : y = fs[i]
    <2>1. PICK i \in 1..(n - m + 1) : y = SubSeq(fs, m, n)[i]
      BY <1>3 DEF Range
    <2>2. y = fs[m + i - 1] /\ m + i - 1 \in m..n
      BY <1>1, <1>2, <2>1
    <2> QED  BY <2>2
  <1>5. ASSUME NEW i \in m..n PROVE fs[i] \in Range(SubSeq(fs, m, n))
    <2>1. i - m + 1 \in 1..(n - m + 1) /\ m + (i - m + 1) - 1 = i
      BY <1>1
    <2>2. SubSeq(fs, m, n)[i - m + 1] = fs[i]
      BY <1>2, <2>1
    <2> QED  BY <1>3, <2>1, <2>2 DEF Range
  <1> QED  BY <1>2, <1>4, <1>5

\* Removing a file takes that file and no other.
LEMMA RemovedFiles ==
    ASSUME NEW fs \in Seq(File), NEW id
    PROVE  /\ Removed(fs, id) \in Seq(File)
           /\ Range(Removed(fs, id)) \subseteq Range(fs)
           /\ \A f \in Range(fs) : f.id # id => f \in Range(Removed(fs, id))
  <1>1. DOMAIN fs = 1..Len(fs) /\ Len(fs) \in Nat
    BY LenProperties
  <1>2. CASE Named(fs, id) = {}
    BY <1>2 DEF Removed
  <1>3. CASE Named(fs, id) # {}
    <2>1. PICK i \in 1..Len(fs) : fs[i].id = id /\ Removed(fs, id) = RemoveAt(fs, i)
      BY <1>1, <1>3 DEF Named, Removed
    <2> DEFINE a == SubSeq(fs, 1, i - 1)
               b == SubSeq(fs, i + 1, Len(fs))
    <2>2. a \in Seq(File) /\ Range(a) = {fs[k] : k \in 1..(i - 1)}
      BY <1>1, Segment
    <2>3. b \in Seq(File) /\ Range(b) = {fs[k] : k \in (i + 1)..Len(fs)}
      BY <1>1, Segment
    <2> HIDE DEF a, b
    <2>4. a \o b \in Seq(File) /\ Range(a \o b) = Range(a) \cup Range(b)
      <3>1. /\ a \o b \in Seq(File) /\ Len(a \o b) = Len(a) + Len(b)
            /\ \A k \in 1..(Len(a) + Len(b)) :
                 (a \o b)[k] = IF k <= Len(a) THEN a[k] ELSE b[k - Len(a)]
        BY <2>2, <2>3, ConcatProperties
      <3>2. /\ Len(a) \in Nat /\ Len(b) \in Nat
            /\ DOMAIN a = 1..Len(a) /\ DOMAIN b = 1..Len(b)
            /\ DOMAIN (a \o b) = 1..(Len(a) + Len(b))
        BY <2>2, <2>3, <3>1, LenProperties
      <3>3. ASSUME NEW y \in Range(a \o b) PROVE y \in Range(a) \cup Range(b)
        BY <3>1, <3>2 DEF Range
      <3>4. ASSUME NEW y \in Range(a) PROVE y \in Range(a \o b)
        BY <3>1, <3>2 DEF Range
      <3>5. ASSUME NEW y \in Range(b) PROVE y \in Range(a \o b)
        <4>1. PICK k \in 1..Len(b) : y = b[k]
          BY <3>2 DEF Range
        <4>2. /\ k + Len(a) \in 1..(Len(a) + Len(b)) /\ ~(k + Len(a) <= Len(a))
              /\ k + Len(a) - Len(a) = k
          BY <3>2
        <4>3. (a \o b)[k + Len(a)] = b[k]
          BY <3>1, <4>2
        <4> QED  BY <3>2, <4>1, <4>2, <4>3 DEF Range
      <3> QED  BY <3>1, <3>3, <3>4, <3>5
    <2>5. Removed(fs, id) = a \o b
      BY <2>1 DEF RemoveAt, a, b
    <2>6. \A k \in 1..(i - 1) \cup (i + 1)..Len(fs) : fs[k] \in Range(fs)
      BY <1>1 DEF Range
    <2>7. ASSUME NEW f \in Range(fs), f.id # id PROVE f \in Range(a) \cup Range(b)
      <3>1. PICK k \in 1..Len(fs) : f = fs[k]
        BY <1>1 DEF Range
      <3>2. k \in 1..(i - 1) \/ k \in (i + 1)..Len(fs)
        BY <1>1, <2>1, <2>7, <3>1
      <3> QED  BY <2>2, <2>3, <3>1, <3>2
    <2> QED  BY <2>2, <2>3, <2>4, <2>5, <2>6, <2>7
  <1> QED  BY <1>2, <1>3

\* prune() keeps the newest file, and adds none.
LEMMA PrunedFiles ==
    ASSUME NEW fs \in Seq(File), NEW x \in File
    PROVE  LET all == Append(fs, x) IN
           /\ Pruned(all) \in Seq(File)
           /\ Range(Pruned(all)) \subseteq Range(all)
           /\ x \in Range(Pruned(all))
  <1> DEFINE all == Append(fs, x)
  <1>1. all \in Seq(File) /\ Len(all) = Len(fs) + 1 /\ all[Len(all)] = x
    BY AppendProperties
  <1>2. DOMAIN all = 1..Len(all) /\ Len(all) \in Nat /\ Len(all) > 0
    BY <1>1, LenProperties
  <1> HIDE DEF all
  <1>3. PICK m : m = IF Len(all) > Keep THEN Len(all) - Keep + 1 ELSE 1
    OBVIOUS
  <1>4. m \in 1..(Len(all) + 1) /\ m <= Len(all) /\ Pruned(all) = SubSeq(all, m, Len(all))
    BY <1>2, <1>3, LimitsAssumption DEF Pruned
  <1>5. /\ Pruned(all) \in Seq(File)
        /\ Range(Pruned(all)) = {all[i] : i \in m..Len(all)}
    <2>1. all \in Seq(File) /\ Len(all) \in (m - 1)..Len(all)
      BY <1>1, <1>2, <1>4
    <2>2. /\ SubSeq(all, m, Len(all)) \in Seq(File)
          /\ Range(SubSeq(all, m, Len(all))) = {all[i] : i \in m..Len(all)}
      BY <1>4, <2>1, Segment
    <2> QED  BY <1>4, <2>2
  <1>6. Len(all) \in m..Len(all) /\ \A i \in m..Len(all) : all[i] \in Range(all)
    BY <1>2, <1>4 DEF Range
  <1> QED  BY <1>1, <1>5, <1>6 DEF all

\* Only this file is rewritten, and it is the newest then.
LEMMA WrittenFiles ==
    ASSUME files \in Seq(File), NEW id \in Nat,
           NEW content \in {"partial", "unclaimed", "whole"}
    PROVE  /\ FilesWith(id, content) \in Seq(File)
           /\ \A f \in Range(FilesWith(id, content)) :
                 f \in Range(files) \/ f = [id |-> id, content |-> content]
           /\ \A f \in Range(files) : f.id # id => f \in Range(FilesWith(id, content))
           /\ \/ FilesWith(id, content) = files /\ \A f \in Range(files) : f.id # id
              \/ \E fs \in Seq(File) : FilesWith(id, content) = Append(fs, [id |-> id, content |-> content])
  <1>1. PICK x \in File : x = [id |-> id, content |-> content]
    BY DEF File
  <1>2. CASE Named(files, id) = {}
    BY <1>2 DEF FilesWith, Named, Range
  <1>3. CASE Named(files, id) # {}
    <2>1. FilesWith(id, content) = Append(Removed(files, id), x)
      BY <1>1, <1>3 DEF FilesWith
    <2>2. /\ Removed(files, id) \in Seq(File)
          /\ Range(Removed(files, id)) \subseteq Range(files)
          /\ \A f \in Range(files) : f.id # id => f \in Range(Removed(files, id))
      BY RemovedFiles
    <2>3. /\ Append(Removed(files, id), x) \in Seq(File)
          /\ Range(Append(Removed(files, id), x)) = Range(Removed(files, id)) \cup {x}
      BY <2>2, AppendRange
    <2> QED  BY <1>1, <2>1, <2>2, <2>3
  <1> QED  BY <1>2, <1>3

-----------------------------------------------------------------------------
(* Instance: backup runs and the theorem. *)

LEMMA InitIInv == InstanceInit => IInv
  <1> SUFFICES ASSUME InstanceInit PROVE IInv
    OBVIOUS
  <1>1. files = <<>> /\ Range(files) = {} /\ files \in Seq(File)
    BY DEF InstanceInit, Range
  <1>2. Typed
    BY <1>1 DEF InstanceInit, Typed
  <1> QED  BY <1>1, <1>2 DEF InstanceInit, IInv, Writing, WholeBackupIsKept

\* Steps that leave the backups alone, or forget the runs.
LEMMA BackupsKept ==
    ASSUME IInv, files' = files, Typed',
           count'.backups = count.backups, count'.taken = count.taken,
           \/ backup' = backup
           \/ \A s \in Slots : backup'[s] = 0
    PROVE  IInv'
  <1>1. Writing'
    <2>1. \A f \in Range(files) : f.id # 0
      BY DEF IInv, Writing, Typed
    <2> QED  BY <2>1 DEF IInv, Writing, Typed
  <1> QED  BY <1>1 DEF IInv, WholeBackupIsKept

LEMMA StartKeeps ==
    ASSUME IInv, NEW s \in Slots, BackupStarts(s) PROVE IInv'
  <1>1. PICK n \in Nat : n = count.backups + 1
    BY DEF IInv, Typed
  <1>2. PICK x \in File : x = [id |-> n, content |-> "partial"]
    BY DEF File
  <1>3. /\ files' = Append(files, x) /\ backup' = [backup EXCEPT ![s] = n]
        /\ count' = [count EXCEPT !.backups = n] /\ token' = token
    BY <1>1, <1>2 DEF BackupStarts
  <1>4. files' \in Seq(File) /\ Range(files') = Range(files) \cup {x}
    BY <1>3, AppendRange DEF IInv, Typed
  <1>5. Typed' /\ count'.backups = n /\ count'.taken = count.taken
    BY <1>1, <1>3, <1>4 DEF IInv, Typed
  <1>6. /\ \A f \in Range(files) : f.id \in 1..count.backups
        /\ \A t \in Slots : backup[t] <= count.backups /\ backup[t] \in Nat
        /\ count.backups \in Nat /\ backup \in [Slots -> Nat]
    BY DEF IInv, Writing, Typed
  <1>7. Writing'
    <2>1. \A f \in Range(files') : f.id \in 1..count'.backups
      BY <1>1, <1>2, <1>4, <1>5, <1>6
    <2>2. \A t \in Slots : backup'[t] = IF t = s THEN n ELSE backup[t]
      BY <1>3, <1>6
    <2>3. \A t \in Slots : backup'[t] <= count'.backups
      BY <1>1, <1>5, <1>6, <2>2
    <2>4. \A t \in Slots : backup[t] # n
      BY <1>1, <1>6
    <2>5. \A t, u \in Slots : t # u /\ backup'[t] # 0 => backup'[t] # backup'[u]
      BY <2>2, <2>4 DEF IInv, Writing
    <2>6. ASSUME NEW t \in Slots, NEW f \in Range(files'), f.id = backup'[t]
          PROVE  f.content = "partial"
      <3>1. CASE f = x
        BY <1>2, <3>1
      <3>2. CASE f \in Range(files)
        <4>1. f.id # n
          BY <1>1, <1>6, <3>2
        <4> QED  BY <2>2, <2>6, <3>2, <4>1 DEF IInv, Writing
      <3> QED  BY <1>4, <3>1, <3>2
    <2> QED  BY <2>1, <2>3, <2>5, <2>6 DEF Writing
  <1>8. WholeBackupIsKept'
    BY <1>4, <1>5 DEF IInv, WholeBackupIsKept
  <1> QED  BY <1>5, <1>7, <1>8 DEF IInv

LEMMA CopyKeeps ==
    ASSUME IInv, NEW s \in Slots, BackupCopies(s) PROVE IInv'
  <1>1. /\ files' = FilesWith(backup[s], "partial") /\ backup' = backup /\ count' = count
        /\ token' = token /\ backup[s] # 0
    BY DEF BackupCopies
  <1>2. /\ backup[s] \in Nat /\ files \in Seq(File)
        /\ backup[s] <= count.backups /\ count.backups \in Nat
    BY DEF IInv, Typed, Writing
  <1>3. PICK x : x = [id |-> backup[s], content |-> "partial"]
    OBVIOUS
  <1>4. /\ files' \in Seq(File)
        /\ \A f \in Range(files') : f \in Range(files) \/ f = x
        /\ \A f \in Range(files) : f.id # backup[s] => f \in Range(files')
    BY <1>1, <1>2, <1>3, WrittenFiles
  <1>5. Typed'
    BY <1>1, <1>4 DEF IInv, Typed
  <1>6. Writing'
    BY <1>1, <1>2, <1>3, <1>4 DEF IInv, Writing
  <1>7. WholeBackupIsKept'
    <2>1. \A f \in Range(files) : f.content = "whole" => f.id # backup[s]
      BY DEF IInv, Writing
    <2> QED  BY <1>1, <1>4, <2>1 DEF IInv, WholeBackupIsKept
  <1> QED  BY <1>5, <1>6, <1>7 DEF IInv

\* A run that is over leaves the other runs their files.
LEMMA EndKeeps ==
    ASSUME IInv, NEW s \in Slots, BackupEnds(s) PROVE IInv'
  <1>1. PICK id, content, fs :
           /\ id = backup[s] /\ fs = FilesWith(id, content)
           /\ content = IF setupRequired THEN "unclaimed" ELSE "whole"
    OBVIOUS
  <1>2. /\ backup' = [backup EXCEPT ![s] = 0] /\ token' = token /\ id # 0
        /\ IF Verifies(fs, id)
           THEN files' = Pruned(fs) /\ count' = [count EXCEPT !.taken = TRUE]
           ELSE files' = Removed(fs, id) /\ count' = count
    BY <1>1 DEF BackupEnds
  <1>3. /\ id \in Nat /\ files \in Seq(File) /\ content \in {"unclaimed", "whole"}
        /\ id <= count.backups /\ count.backups \in Nat /\ backup \in [Slots -> Nat]
    BY <1>1 DEF IInv, Typed, Writing
  <1>4. PICK x \in File : x = [id |-> id, content |-> content]
    BY <1>3 DEF File
  <1>5. /\ fs \in Seq(File)
        /\ \A f \in Range(fs) : f \in Range(files) \/ f = x
        /\ \A f \in Range(files) : f.id # id => f \in Range(fs)
        /\ \/ fs = files /\ \A f \in Range(files) : f.id # id
           \/ \E gs \in Seq(File) : fs = Append(gs, x)
    BY <1>1, <1>3, <1>4, WrittenFiles
  <1>6. \A t \in Slots : backup'[t] = IF t = s THEN 0 ELSE backup[t]
    BY <1>2, <1>3
  <1>7. Typed' /\ Range(files') \subseteq Range(fs) /\ count'.backups = count.backups /\ WholeBackupIsKept'
    <2>1. CASE Verifies(fs, id)
      <3>1. PICK gs \in Seq(File) : fs = Append(gs, x)
        BY <1>5, <2>1 DEF Verifies
      <3>2. /\ files' \in Seq(File) /\ Range(files') \subseteq Range(fs) /\ x \in Range(files')
        BY <1>2, <1>4, <2>1, <3>1, PrunedFiles
      <3>3. x.content = "whole"
        <4>1. PICK f \in Range(fs) : f.id = id /\ f.content = "whole"
          BY <2>1 DEF Verifies
        <4> QED  BY <1>1, <1>5, <4>1 DEF IInv, Writing
      <3>4. count' = [count EXCEPT !.taken = TRUE]
        BY <1>2, <2>1
      <3> QED  BY <1>2, <1>6, <3>2, <3>3, <3>4 DEF IInv, Typed, WholeBackupIsKept
    <2>2. CASE ~Verifies(fs, id)
      <3>1. files' = Removed(fs, id) /\ count' = count
        BY <1>2, <2>2
      <3>2. /\ files' \in Seq(File) /\ Range(files') \subseteq Range(fs)
            /\ \A f \in Range(fs) : f.id # id => f \in Range(files')
        BY <1>5, <3>1, RemovedFiles
      <3>3. \A f \in Range(files) : f.content = "whole" => f.id # id
        BY <1>1 DEF IInv, Writing
      <3>4. WholeBackupIsKept'
        BY <1>5, <3>1, <3>2, <3>3 DEF IInv, WholeBackupIsKept
      <3> QED  BY <1>2, <1>6, <3>1, <3>2, <3>4 DEF IInv, Typed
    <2> QED  BY <2>1, <2>2
  <1>8. \A f \in Range(files') : f \in Range(files) \/ f = x
    BY <1>5, <1>7
  <1>9. Writing'
    <2>1. \A f \in Range(files') : f.id \in 1..count'.backups /\ f.id # 0
      BY <1>2, <1>3, <1>4, <1>7, <1>8 DEF IInv, Writing
    <2>2. \A t \in Slots : backup'[t] <= count'.backups
      BY <1>3, <1>6, <1>7 DEF IInv, Writing
    <2>3. \A t, u \in Slots : t # u /\ backup'[t] # 0 => backup'[t] # backup'[u]
      BY <1>6 DEF IInv, Writing
    <2>4. ASSUME NEW t \in Slots, NEW f \in Range(files'), f.id = backup'[t]
          PROVE  f.content = "partial"
      <3>1. t # s /\ f.id = backup[t]
        BY <1>6, <2>1, <2>4
      <3>2. f # x
        BY <1>1, <1>2, <1>4, <3>1 DEF IInv, Writing
      <3> QED  BY <1>8, <3>1, <3>2 DEF IInv, Writing
    <2> QED  BY <2>1, <2>2, <2>3, <2>4 DEF Writing
  <1> QED  BY <1>7, <1>9 DEF IInv

LEMMA NextKeeps ==
    ASSUME IInv, [InstanceNext]_instanceVars PROVE IInv'
  <1>0. Typed
    BY DEF IInv
  <1>1. ASSUME UNCHANGED <<token, count, files, backup>> PROVE IInv'
    BY <1>0, <1>1, BackupsKept DEF Typed
  <1>2. ASSUME NEW t, Stored(t), t \in Nat, UNCHANGED <<files, backup>> PROVE IInv'
    BY <1>0, <1>2, BackupsKept DEF Typed, Stored
  <1>3. SetupToken \in Nat
    BY <1>0 DEF Typed, SetupToken
  <1>4. ASSUME NEW c \in Clients, NEW e \in Emails, NEW pw \in Passwords, Setup(c, e, pw) PROVE IInv'
    BY <1>2, <1>3, <1>4 DEF Setup
  <1>5. ASSUME NEW c \in Clients, SetupHashed(c) PROVE IInv'
    <2>1. CASE UNCHANGED <<token, count>>
      BY <1>1, <1>5, <2>1 DEF SetupHashed
    <2>2. CASE token' = 0 /\ count' = [count EXCEPT !.claims = @ + 1]
      BY <1>0, <1>5, <2>2, BackupsKept DEF Typed, SetupHashed
    <2> QED  BY <1>5, <2>1, <2>2 DEF SetupHashed
  <1>6. CASE ResetToken
    BY <1>0, <1>6, BackupsKept DEF Typed, ResetToken
  <1>7. ASSUME NEW s \in Slots, BackupFails(s) PROVE IInv'
    <2>1. /\ files' = files /\ count' = count /\ token' = token
          /\ backup' = [backup EXCEPT ![s] = 0]
      BY <1>7 DEF BackupFails
    <2>2. Typed' /\ \A t \in Slots : backup'[t] = IF t = s THEN 0 ELSE backup[t]
      BY <1>0, <2>1 DEF Typed
    <2>3. \A f \in Range(files) : f.id # 0
      BY DEF IInv, Writing, Typed
    <2> QED  BY <2>1, <2>2, <2>3 DEF IInv, Typed, Writing, WholeBackupIsKept
  <1>8. CASE Ends
    <2>1. /\ files' = files /\ count' = count /\ token' = token
          /\ backup' = [s \in Slots |-> 0]
      BY <1>8 DEF Ends
    <2> QED  BY <1>0, <2>1, BackupsKept DEF Typed
  <1>9. CASE Boots
    <2>1. CASE setupRequired
      BY <1>2, <1>3, <1>9, <2>1 DEF Boots
    <2>2. CASE ~setupRequired
      BY <1>1, <1>9, <2>2 DEF Boots
    <2> QED  BY <2>1, <2>2
  <1>10. ASSUME NEW c \in Clients, NEW e \in Emails, NEW pw \in Passwords, Login(c, e, pw) PROVE IInv'
    BY <1>1, <1>10 DEF Login
  <1>11. ASSUME NEW c \in Clients, NEW p \in Passwords, NEW q \in Passwords, ChangePassword(c, p, q)
         PROVE  IInv'
    BY <1>1, <1>11 DEF ChangePassword
  <1>12. ASSUME NEW c \in Clients,
                Verified(c) \/ Checked(c) \/ Changed(c) \/ Request(c) \/ Logout(c) PROVE IInv'
    BY <1>1, <1>12 DEF Verified, Checked, Changed, Request, Logout
  <1>13. CASE LockoutEnds \/ (\E s \in sessions : Expires(s)) \/ ResetAccounts
    BY <1>1, <1>13 DEF LockoutEnds, Expires, ResetAccounts
  <1>14. CASE UNCHANGED instanceVars
    BY <1>1, <1>14 DEF instanceVars
  <1> QED
    BY <1>4, <1>5, <1>6, <1>7, <1>8, <1>9, <1>10, <1>11, <1>12, <1>13, <1>14,
       StartKeeps, CopyKeeps, EndKeeps DEF InstanceNext

\* Once one was taken, there is a whole backup of the control server, whatever runs overlap,
\* fail, are pruned or are cut off, and however few are kept (cp-backup.ts).
THEOREM BackupIsKept == InstanceSpec => []WholeBackupIsKept
  <1>1. IInv => WholeBackupIsKept
    BY DEF IInv
  <1>2. IInv /\ [InstanceNext]_instanceVars => IInv'
    BY NextKeeps
  <1> QED  BY <1>1, <1>2, InitIInv, PTL DEF InstanceSpec

-----------------------------------------------------------------------------
(* Studio: the inductive invariant. *)

Marked == [by : {"none", "initial", "insert", "update", "delete", "script", "explain"}, v : Nat]
Statement == [do : {"set", "begin", "commit", "rollback", "write", "error", "page", "count"},
              key : Nat, row : Marked]
Writes == UNION {[ks -> Marked] : ks \in SUBSET Nat}
Client == [port : 0..2, user : {0} \cup Requests, txn : {"none", "open", "aborted"}, writes : Writes,
           ending : BOOLEAN, leaky : BOOLEAN]
Asked == [kind : {"none", "edit", "browse", "script", "explain"}, conn : {0} \cup Conns,
          todo : Seq(Statement), committed : BOOLEAN, ok : BOOLEAN]

StudioTypes ==
    /\ table \in [Keys -> Marked] /\ conn \in [Conns -> Client] /\ asks \in [Requests -> Asked]
    /\ port \in 1..2

\* Nothing that a client wrote is an explained statement's; no transaction is open on it but a script's.
Clean(c) == \A k \in DOMAIN conn[c].writes : conn[c].writes[k].by # "explain"
Closed(c) == conn[c].txn # "none" => conn[c].leaky

\* A client and the request that uses it know each other.
Paired ==
    /\ \A c \in Conns : conn[c].user # 0 => asks[conn[c].user].conn = c
    /\ \A r \in Requests : asks[r].conn # 0 => conn[asks[r].conn].user = r /\ asks[r].kind # "none"

StudioFresh(c) == conn[c].user = 0 => Closed(c) /\ Clean(c)

\* What a request has left to do, by its kind, and the client it does it on.
PlainPlan(r) ==
    /\ \A i \in 1..Len(asks[r].todo) : asks[r].todo[i].do = "write" => asks[r].todo[i].row.by # "explain"
    /\ asks[r].conn # 0 => Clean(asks[r].conn)
EditPlan(r) ==
    /\ \A i \in 1..Len(asks[r].todo) : asks[r].todo[i].do = IF i = Len(asks[r].todo) THEN "write" ELSE "set"
    /\ asks[r].conn # 0 => Closed(asks[r].conn)
    /\ asks[r].todo = <<>> /\ asks[r].ok => asks[r].conn # 0 /\ (asks[r].committed \/ conn[asks[r].conn].leaky)
BrowsePlan(r) ==
    /\ \A i \in 1..Len(asks[r].todo) : asks[r].todo[i].do \in {"set", "page", "count"}
    /\ asks[r].conn # 0 => Closed(asks[r].conn)

\* EXPLAIN ANALYZE, counted from its end: the rollback, the statement twice, and the begin.
Explained(s, e) ==
    /\ e = 0 => s.do = "rollback"
    /\ e \in 1..2 => s.do = "write"
    /\ e = 3 => s.do = "begin"
    /\ e > 3 => s.do = "set"
ExplainPlan(r) ==
    LET n == Len(asks[r].todo)
        c == asks[r].conn
    IN /\ \A i \in 1..n : Explained(asks[r].todo[i], n - i)
       /\ c = 0 => n \notin 1..3
       /\ c # 0 /\ n \notin 1..3 => Closed(c) /\ Clean(c)
       /\ c # 0 /\ n \in 1..3 => conn[c].txn # "none"
       /\ c # 0 /\ n \in 2..3 => conn[c].txn = "open"
Plan(r) ==
    /\ asks[r].kind # "explain" => PlainPlan(r)
    /\ asks[r].kind = "edit" => EditPlan(r)
    /\ asks[r].kind = "browse" => BrowsePlan(r)
    /\ asks[r].kind = "explain" => ExplainPlan(r)

Unexplained == \A k \in Keys : table[k].by # "explain"

StudioInv ==
    /\ StudioTypes /\ Paired /\ Unexplained
    /\ \A c \in Conns : StudioFresh(c)
    /\ \A r \in Requests : Plan(r)

-----------------------------------------------------------------------------
(* Studio: data. *)

LEMMA NoWrites == <<>> \in Writes /\ DOMAIN <<>> = {}
  <1>1. <<>> \in [{} -> Marked] /\ DOMAIN <<>> = {}
    OBVIOUS
  <1>2. [{} -> Marked] \in {[ks -> Marked] : ks \in SUBSET Nat}
    OBVIOUS
  <1> QED  BY <1>1, <1>2 DEF Writes

LEMMA WritesOf ==
    ASSUME NEW w \in Writes
    PROVE  DOMAIN w \subseteq Nat /\ \A k \in DOMAIN w : w[k] \in Marked
  <1>1. PICK ks \in SUBSET Nat : w \in [ks -> Marked]
    BY DEF Writes
  <1> QED  BY <1>1

\* A client's writes with one more.
LEMMA WritesWith ==
    ASSUME NEW w \in Writes, NEW k \in Nat, NEW x \in Marked
    PROVE  LET more == [l \in DOMAIN w \cup {k} |-> IF l = k THEN x ELSE w[l]] IN
           /\ more \in Writes
           /\ \A l \in DOMAIN more : more[l] = x \/ (l \in DOMAIN w /\ more[l] = w[l])
  <1> DEFINE ks == DOMAIN w \cup {k}
             more == [l \in ks |-> IF l = k THEN x ELSE w[l]]
  <1>1. ks \in SUBSET Nat
    BY WritesOf
  <1>2. more \in [ks -> Marked]
    BY WritesOf
  <1>3. [ks -> Marked] \in {[d -> Marked] : d \in SUBSET Nat}
    BY <1>1
  <1>4. more \in Writes
    BY <1>2, <1>3 DEF Writes
  <1> QED  BY <1>4

LEMMA NoConnTyped == NoConn \in Client /\ NoConn.user = 0 /\ NoConn.txn = "none" /\ DOMAIN NoConn.writes = {}
  BY NoWrites DEF NoConn, Client

LEMMA NoRequestTyped == NoRequest \in Asked /\ NoRequest.kind = "none" /\ NoRequest.conn = 0 /\ NoRequest.todo = <<>>
                        /\ NoRequest.ok = TRUE
  BY EmptySeq DEF NoRequest, Asked

LEMMA StudioTyped ==
    /\ \A what \in {"set", "begin", "commit", "rollback", "error", "page", "count"} :
          Do(what) \in Statement /\ Do(what).do = what
    /\ Absent \in Marked /\ Absent.by = "none"
  BY DEF Do, Statement, Marked, Absent

LEMMA WriteTyped ==
     \A k \in Keys, by \in {"insert", "update", "delete", "script", "explain"}, v \in Nat :
              /\ Write(k, by, v) \in Statement
              /\ Write(k, by, v).do = "write" /\ Write(k, by, v).row.by = by
  <1>1. Keys \subseteq Nat
    BY KeysAssumption
  <1> QED  BY <1>1 DEF Write, Statement, Marked

\* The first statement and those after it.
LEMMA First ==
    ASSUME NEW S, NEW s \in Seq(S), s # <<>>
    PROVE  /\ Len(s) \in Nat /\ Len(s) >= 1 /\ Head(s) = s[1] /\ Head(s) \in S
           /\ Tail(s) \in Seq(S) /\ Len(Tail(s)) = Len(s) - 1
           /\ \A i \in 1..(Len(s) - 1) : Tail(s)[i] = s[i + 1]
           /\ Len(s) = 1 <=> Tail(s) = <<>>
  <1>1. Len(s) \in Nat /\ Len(s) >= 1
    BY EmptySeq
  <1>2. Head(s) = s[1] /\ Head(s) \in S
    BY HeadTailProperties
  <1>3. Tail(s) \in Seq(S) /\ Len(Tail(s)) = Len(s) - 1 /\ \A i \in 1..(Len(s) - 1) : Tail(s)[i] = s[i + 1]
    BY <1>1, HeadTailProperties
  <1>4. Len(Tail(s)) = 0 <=> Tail(s) = <<>>
    BY <1>3, EmptySeq
  <1> QED  BY <1>1, <1>2, <1>3, <1>4

LEMMA Prefixed ==
    ASSUME NEW S, NEW x \in S, NEW t \in Seq(S)
    PROVE  LET s == <<x>> \o t IN
           /\ s \in Seq(S) /\ Len(s) = Len(t) + 1 /\ s[1] = x /\ Len(t) \in Nat
           /\ \A i \in 2..Len(s) : s[i] = t[i - 1]
  <1>1. <<x>> \in Seq(S) /\ Len(<<x>>) = 1 /\ <<x>>[1] = x /\ Len(t) \in Nat
    BY LenProperties
  <1>2. /\ <<x>> \o t \in Seq(S) /\ Len(<<x>> \o t) = 1 + Len(t)
        /\ \A i \in 1..(1 + Len(t)) : (<<x>> \o t)[i] = IF i <= 1 THEN <<x>>[i] ELSE t[i - 1]
    BY <1>1, ConcatProperties
  <1> QED  BY <1>1, <1>2
-----------------------------------------------------------------------------
(* Studio: steps. *)

\* What a step does to a client that neither the request that acts nor an idle client's end concerns.
SameClient(c) ==
    /\ conn'[c].user = conn[c].user /\ conn'[c].txn = conn[c].txn
    /\ conn'[c].writes = conn[c].writes /\ conn'[c].leaky = conn[c].leaky
Steady(c, r) ==
    \/ SameClient(c)
    \/ conn[c].user \in {0, r} /\ conn'[c].user \in {0, r} /\ StudioFresh(c)'

LEMMA SameKept ==
    ASSUME NEW c, SameClient(c)
    PROVE  (Clean(c)' <=> Clean(c)) /\ (Closed(c)' <=> Closed(c)) /\ (StudioFresh(c)' <=> StudioFresh(c))
  BY DEF SameClient, Clean, Closed, StudioFresh

LEMMA PlanKept ==
    ASSUME NEW q, asks'[q] = asks[q], Plan(q), asks[q].conn # 0 => SameClient(asks[q].conn)
    PROVE  Plan(q)'
  <1>1. PICK c : c = asks[q].conn
    OBVIOUS
  <1>2. c # 0 => /\ Clean(c)' <=> Clean(c)
                 /\ Closed(c)' <=> Closed(c)
                 /\ conn'[c].txn = conn[c].txn /\ conn'[c].leaky = conn[c].leaky
    BY <1>1, SameKept DEF SameClient
  <1>3. PlainPlan(q) => PlainPlan(q)'
    BY <1>1, <1>2 DEF PlainPlan
  <1>4. EditPlan(q) => EditPlan(q)'
    BY <1>1, <1>2 DEF EditPlan
  <1>5. BrowsePlan(q) => BrowsePlan(q)'
    BY <1>1, <1>2 DEF BrowsePlan
  <1>6. ExplainPlan(q) => ExplainPlan(q)'
    BY <1>1, <1>2 DEF ExplainPlan
  <1> QED  BY <1>3, <1>4, <1>5, <1>6 DEF Plan

\* One request acts, on a client of its own, or none does.
LEMMA OneActs ==
    ASSUME StudioInv, StudioTypes', Unexplained', NEW r \in Requests \cup {0},
           \A q \in Requests : q # r => asks'[q] = asks[q],
           \A c \in Conns : Steady(c, r),
           r # 0 => Plan(r)',
           r # 0 /\ asks'[r].conn # 0 => conn'[asks'[r].conn].user = r /\ asks'[r].kind # "none",
           r # 0 => \A c \in Conns : conn'[c].user = r => asks'[r].conn = c
    PROVE  StudioInv'
  <1>1. StudioTypes /\ Paired /\ 0 \notin Requests
    BY NamesAssumption DEF StudioInv
  <1>2. ASSUME NEW q \in Requests, q # r, asks[q].conn # 0
        PROVE  asks[q].conn \in Conns /\ SameClient(asks[q].conn) /\ conn[asks[q].conn].user = q
    <2>1. asks[q].conn \in Conns /\ conn[asks[q].conn].user = q
      BY <1>1, <1>2 DEF Paired, StudioTypes, Asked
    <2> QED  BY <1>1, <1>2, <2>1 DEF Steady
  <1>3. ASSUME NEW q \in Requests PROVE Plan(q)'
    <2>1. CASE q = r
      BY <1>1, <2>1
    <2>2. CASE q # r
      BY <1>2, <2>2, PlanKept DEF StudioInv
    <2> QED  BY <2>1, <2>2
  <1>4. ASSUME NEW c \in Conns PROVE StudioFresh(c)'
    BY SameKept DEF StudioInv, Steady
  <1>5. ASSUME NEW c \in Conns, conn'[c].user # 0 PROVE asks'[conn'[c].user].conn = c
    <2>1. CASE conn'[c].user = r
      BY <1>5, <2>1
    <2>2. CASE conn'[c].user # r
      <3>1. conn'[c].user = conn[c].user /\ conn[c].user \in Requests
        BY <1>1, <1>5, <2>2 DEF Steady, SameClient, StudioTypes, Client
      <3> QED  BY <1>1, <1>5, <2>2, <3>1 DEF Paired
    <2> QED  BY <2>1, <2>2
  <1>6. ASSUME NEW q \in Requests, asks'[q].conn # 0
        PROVE  conn'[asks'[q].conn].user = q /\ asks'[q].kind # "none"
    <2>1. CASE q = r
      BY <1>1, <1>6, <2>1
    <2>2. CASE q # r
      BY <1>1, <1>2, <1>6, <2>2 DEF Paired, SameClient
    <2> QED  BY <2>1, <2>2
  <1>7. Paired'
    BY <1>5, <1>6 DEF Paired
  <1> QED  BY <1>3, <1>4, <1>7 DEF StudioInv

\* The client after a statement that succeeded.
StudioAfter(x, c, s) ==
    /\ x \in Client /\ x.user = conn[c].user
    /\ s.do = "begin" => x.txn = "open"
    /\ s.do \in {"commit", "rollback"} => x.txn = "none"
    /\ s.do \notin {"begin", "commit", "rollback"} => x.txn = conn[c].txn
    /\ s.do \notin {"commit", "rollback"} => x.leaky = conn[c].leaky
    /\ (Clean(c) /\ (s.do = "write" => s.row.by # "explain")) \/ s.do \in {"commit", "rollback"}
          => \A k \in DOMAIN x.writes : x.writes[k].by # "explain"

LEMMA Succeeded ==
    ASSUME StudioTypes, NEW c \in Conns, NEW s \in Statement
    PROVE  StudioAfter(ConnAfter(c, s), c, s)
  <1>1. PICK h \in Client : h = conn[c]
    BY DEF StudioTypes
  <1>2. PICK x : x = ConnAfter(c, s)
    OBVIOUS
  <1>3. CASE s.do = "begin"
    <2>1. x = [h EXCEPT !.txn = "open"]
      BY <1>1, <1>2, <1>3 DEF ConnAfter, Changes
    <2> QED  BY <1>1, <1>2, <1>3, <2>1 DEF StudioAfter, Client, Clean
  <1>4. CASE s.do \in {"commit", "rollback"}
    <2>1. x = Ended(c)
      BY <1>2, <1>4 DEF ConnAfter, Changes
    <2>2. PICK y : y = [h EXCEPT !.txn = "none"]
      OBVIOUS
    <2>3. y \in Client /\ y.txn = "none" /\ y.user = h.user
      BY <2>2 DEF Client
    <2>4. PICK w \in Writes : w = <<>> /\ DOMAIN w = {}
      BY NoWrites
    <2>5. PICK z : z = [y EXCEPT !.writes = w]
      OBVIOUS
    <2>6. z \in Client /\ z.txn = "none" /\ z.user = h.user /\ z.writes = w
      BY <2>3, <2>5 DEF Client
    <2>7. x = [z EXCEPT !.leaky = FALSE]
      BY <1>1, <2>1, <2>2, <2>4, <2>5 DEF Ended
    <2>8. x \in Client /\ x.txn = "none" /\ x.user = h.user /\ x.writes = w
      BY <2>6, <2>7 DEF Client
    <2> QED  BY <1>1, <1>2, <1>4, <2>4, <2>8 DEF StudioAfter
  <1>5. CASE s.do \notin {"begin", "commit", "rollback"}
    <2>1. CASE Changes(c, s) /\ h.txn = "open"
      <3>1. s.key \in Nat /\ RowOf(s) \in Marked /\ (RowOf(s).by = "explain" => s.row.by = "explain")
        BY StudioTyped DEF RowOf, Statement
      <3>2. PICK w \in Writes, y \in Marked, n \in Nat : w = h.writes /\ y = RowOf(s) /\ n = s.key
        BY <3>1 DEF Client
      <3>3. PICK more : more = [k \in DOMAIN w \cup {n} |-> IF k = n THEN y ELSE w[k]]
        OBVIOUS
      <3>4. /\ more \in Writes
            /\ \A k \in DOMAIN more : more[k] = y \/ (k \in DOMAIN w /\ more[k] = w[k])
        BY <3>3, WritesWith
      <3>5. x = [h EXCEPT !.writes = more]
        BY <1>1, <1>2, <1>5, <2>1, <3>2, <3>3 DEF ConnAfter, Written, Changes
      <3>6. x \in Client /\ x.user = h.user /\ x.txn = h.txn /\ x.leaky = h.leaky /\ x.writes = more
        BY <3>4, <3>5 DEF Client
      <3>7. s.do = "write"
        BY <2>1 DEF Changes
      <3>8. Clean(c) /\ s.row.by # "explain" => \A k \in DOMAIN more : more[k].by # "explain"
        BY <1>1, <3>1, <3>2, <3>4 DEF Clean
      <3> QED  BY <1>1, <1>2, <1>5, <3>6, <3>7, <3>8 DEF StudioAfter
    <2>2. CASE ~(Changes(c, s) /\ h.txn = "open")
      <3>1. x = h
        BY <1>1, <1>2, <1>5, <2>2 DEF ConnAfter
      <3> QED  BY <1>1, <1>2, <1>5, <3>1 DEF StudioAfter, Clean
    <2> QED  BY <2>1, <2>2
  <1> QED  BY <1>2, <1>3, <1>4, <1>5

\* And after one that failed.
LEMMA Failed ==
    ASSUME StudioTypes, NEW c \in Conns
    PROVE  /\ ConnFailed(c) \in Client /\ ConnFailed(c).user = conn[c].user
           /\ ConnFailed(c).leaky = conn[c].leaky
           /\ conn[c].txn = "none" <=> ConnFailed(c).txn = "none"
           /\ Clean(c) \/ conn[c].txn # "none" =>
                \A k \in DOMAIN ConnFailed(c).writes : ConnFailed(c).writes[k].by # "explain"
  <1>1. PICK h \in Client : h = conn[c]
    BY DEF StudioTypes
  <1>2. CASE h.txn = "none"
    BY <1>1, <1>2 DEF ConnFailed, Clean
  <1>3. CASE h.txn # "none"
    <2>1. PICK y : y = [h EXCEPT !.txn = "aborted"]
      OBVIOUS
    <2>2. y \in Client /\ y.txn = "aborted" /\ y.user = h.user /\ y.leaky = h.leaky
      BY <2>1 DEF Client
    <2>3. PICK w \in Writes : w = <<>> /\ DOMAIN w = {}
      BY NoWrites
    <2>4. PICK z : z = [y EXCEPT !.writes = w]
      OBVIOUS
    <2>5. z \in Client /\ z.txn = "aborted" /\ z.user = h.user /\ z.leaky = h.leaky /\ z.writes = w
      BY <2>2, <2>4 DEF Client
    <2>6. ConnFailed(c) = z
      BY <1>1, <1>3, <2>1, <2>3, <2>4 DEF ConnFailed
    <2> QED  BY <1>1, <1>3, <2>3, <2>5, <2>6
  <1> QED  BY <1>1, <1>2, <1>3

\* The committed rows after a statement.
LEMMA Committed ==
    ASSUME StudioTypes, Unexplained, NEW c \in Conns, NEW s \in Statement,
           \/ Clean(c) /\ (s.do = "write" => s.row.by # "explain")
           \/ s.do # "commit" /\ (s.do = "write" => conn[c].txn # "none")
    PROVE  TableAfter(c, s) \in [Keys -> Marked] /\ \A k \in Keys : TableAfter(c, s)[k].by # "explain"
  <1>1. PICK w \in Writes : w = conn[c].writes
    BY DEF StudioTypes, Client
  <1>2. CASE s.do = "commit" /\ conn[c].txn = "open"
    <2>1. TableAfter(c, s) = [k \in Keys |-> Visible(c, k)]
      BY <1>2 DEF TableAfter
    <2>2. \A k \in Keys : Visible(c, k) \in Marked /\ Visible(c, k).by # "explain"
      BY <1>1, <1>2, WritesOf DEF Visible, Written, Clean, Unexplained, StudioTypes
    <2> QED  BY <2>1, <2>2
  <1>3. CASE Changes(c, s) /\ conn[c].txn = "none"
    <2>1. s.do = "write"
      BY <1>3 DEF Changes
    <2>2. TableAfter(c, s) = [table EXCEPT ![s.key] = RowOf(s)]
      BY <1>3, <2>1 DEF TableAfter
    <2>3. RowOf(s) \in Marked /\ RowOf(s).by # "explain"
      BY <1>3, <2>1, StudioTyped DEF RowOf, Statement
    <2> QED  BY <2>2, <2>3 DEF StudioTypes, Unexplained
  <1>4. CASE ~(s.do = "commit" /\ conn[c].txn = "open") /\ ~(Changes(c, s) /\ conn[c].txn = "none")
    <2>1. TableAfter(c, s) = table
      BY <1>4 DEF TableAfter
    <2> QED  BY <2>1 DEF StudioTypes, Unexplained
  <1> QED  BY <1>2, <1>3, <1>4
-----------------------------------------------------------------------------
(* Studio: the actions. *)

LEMMA StudioInitHolds == ASSUME StudioInit PROVE StudioInv
  <1>1. StudioTypes
    <2>1. ASSUME NEW k \in Keys PROVE table[k] \in Marked /\ table[k].by \in {"none", "initial"}
      <3>1. table[k] \in {Absent} \cup [by : {"initial"}, v : SortValues]
        BY DEF StudioInit
      <3>2. SortValues \subseteq Nat
        BY KeysAssumption
      <3> QED  BY <3>1, <3>2, StudioTyped DEF Marked
    <2>2. table \in [Keys -> Marked]
      BY <2>1 DEF StudioInit
    <2> QED  BY <2>2, NoConnTyped, NoRequestTyped DEF StudioInit, StudioTypes
  <1>2. Unexplained
    <2> SUFFICES ASSUME NEW k \in Keys PROVE table[k].by # "explain"
      BY DEF Unexplained
    <2>1. table[k] \in {Absent} \cup [by : {"initial"}, v : SortValues]
      BY DEF StudioInit
    <2> QED  BY <2>1, StudioTyped
  <1>3. /\ \A c \in Conns : conn[c] = NoConn
        /\ \A r \in Requests : asks[r] = NoRequest
    BY DEF StudioInit
  <1>4. \A c \in Conns : StudioFresh(c) /\ conn[c].user = 0
    BY <1>3, NoConnTyped DEF StudioFresh, Closed, Clean
  <1>5. \A r \in Requests : Plan(r) /\ asks[r].conn = 0
    <2>1. ASSUME NEW r \in Requests PROVE Plan(r) /\ asks[r].conn = 0
      <3>1. asks[r].kind = "none" /\ asks[r].conn = 0 /\ asks[r].todo = <<>> /\ Len(asks[r].todo) = 0
        BY <1>3, NoRequestTyped, EmptySeq
      <3> QED  BY <3>1 DEF Plan, PlainPlan
    <2> QED  BY <2>1
  <1> QED  BY <1>1, <1>2, <1>4, <1>5 DEF StudioInv, Paired

\* The statements of a request, when it starts.
PlanFits(kind, todo) ==
    /\ kind # "explain" => \A i \in 1..Len(todo) : todo[i].do = "write" => todo[i].row.by # "explain"
    /\ kind = "edit" => Len(todo) = 1 /\ todo[1].do = "write"
    /\ kind = "browse" => \A i \in 1..Len(todo) : todo[i].do \in {"page", "count"}
    /\ kind = "explain" => Len(todo) = 4 /\ \A i \in 1..4 : Explained(todo[i], 4 - i)

LEMMA StartsKeeps ==
    ASSUME StudioInv, NEW r \in Requests,
           NEW kind \in {"edit", "browse", "script", "explain"}, NEW todo \in Seq(Statement),
           Starts(r, kind, todo), PlanFits(kind, todo), UNCHANGED <<table, conn, port>>
    PROVE  StudioInv'
  <1>1. PICK first \in Statement : first = Do("set") /\ first.do = "set"
    BY StudioTyped
  <1>2. PICK s : s = <<first>> \o todo
    OBVIOUS
  <1>3. /\ s \in Seq(Statement) /\ Len(s) = Len(todo) + 1 /\ s[1] = first /\ Len(todo) \in Nat
        /\ \A i \in 2..Len(s) : s[i] = todo[i - 1]
    BY <1>2, Prefixed
  <1>4. PICK x : x = [NoRequest EXCEPT !.kind = kind, !.todo = s]
    OBVIOUS
  <1>5. x \in Asked /\ x.kind = kind /\ x.todo = s /\ x.conn = 0
    BY <1>3, <1>4 DEF NoRequest, Asked
  <1>6. asks' = [asks EXCEPT ![r] = x] /\ asks[r].kind = "none"
    BY <1>1, <1>2, <1>4 DEF Starts
  <1>7. StudioTypes /\ asks'[r] = x /\ (\A q \in Requests : q # r => asks'[q] = asks[q]) /\ asks' \in [Requests -> Asked]
    BY <1>5, <1>6 DEF StudioInv, StudioTypes
  <1>8. StudioTypes' /\ Unexplained' /\ \A c \in Conns : SameClient(c)
    BY <1>7 DEF StudioTypes, StudioInv, Unexplained, SameClient
  <1>9. \A c \in Conns : conn[c].user # r
    BY <1>6, NamesAssumption DEF StudioInv, Paired
  <1>10. Plan(r)'
    <2>1. kind # "explain" => PlainPlan(r)'
      BY <1>1, <1>3, <1>5, <1>7 DEF PlainPlan, PlanFits
    <2>2. kind = "edit" => EditPlan(r)'
      <3> SUFFICES ASSUME kind = "edit" PROVE EditPlan(r)'
        OBVIOUS
      <3>1. s # <<>>
        BY <1>3, EmptySeq
      <3>2. Len(todo) = 1 /\ todo[1].do = "write"
        BY DEF PlanFits
      <3>3. Len(s) = 2 /\ s[1].do = "set" /\ s[2].do = "write"
        BY <1>1, <1>3, <3>2
      <3>4. asks'[r].todo = s /\ asks'[r].conn = 0
        BY <1>5, <1>7
      <3>5. \A i \in 1..Len(s) : s[i].do = IF i = Len(s) THEN "write" ELSE "set"
        BY <3>3
      <3> QED  BY <3>1, <3>4, <3>5 DEF EditPlan
    <2>3. kind = "browse" => BrowsePlan(r)'
      <3> SUFFICES ASSUME kind = "browse" PROVE BrowsePlan(r)'
        OBVIOUS
      <3>1. \A i \in 1..Len(todo) : todo[i].do \in {"page", "count"}
        BY DEF PlanFits
      <3>2. \A i \in 1..Len(s) : s[i].do \in {"set", "page", "count"}
        <4> TAKE i \in 1..Len(s)
        <4>1. CASE i = 1
          BY <1>1, <1>3, <4>1
        <4>2. CASE i # 1
          <5>1. i \in 2..Len(s) /\ i - 1 \in 1..Len(todo)
            BY <1>3, <4>2
          <5> QED  BY <1>3, <3>1, <5>1
        <4> QED  BY <4>1, <4>2
      <3>3. asks'[r].todo = s /\ asks'[r].conn = 0
        BY <1>5, <1>7
      <3> QED  BY <3>2, <3>3 DEF BrowsePlan
    <2>4. kind = "explain" => ExplainPlan(r)'
      <3>1. ASSUME kind = "explain", NEW i \in 1..5 PROVE Explained(s[i], 5 - i) /\ Len(s) = 5
        <4>0. Len(todo) = 4 /\ \A k \in 1..4 : Explained(todo[k], 4 - k)
          BY <3>1 DEF PlanFits
        <4>1. Len(s) = 5 /\ s[1].do = "set"
          BY <1>1, <1>3, <4>0
        <4>2. CASE i = 1
          <5>1. Explained(s[1], 4)
            BY <4>1 DEF Explained
          <5> QED  BY <4>1, <4>2, <5>1
        <4>3. CASE i # 1
          <5>1. PICK k \in 1..4 : k = i - 1 /\ 4 - k = 5 - i /\ i \in 2..5
            BY <4>3
          <5>2. s[i] = todo[k] /\ Explained(todo[k], 4 - k)
            BY <1>3, <4>0, <4>1, <5>1
          <5> QED  BY <4>1, <5>1, <5>2
        <4> QED  BY <4>2, <4>3
      <3>2. asks'[r].todo = s /\ asks'[r].conn = 0
        BY <1>5, <1>7
      <3>3. ASSUME kind = "explain" PROVE Len(s) = 5 /\ \A i \in 1..5 : Explained(s[i], 5 - i)
        BY <3>1, <3>3
      <3>4. ASSUME kind = "explain" PROVE ExplainPlan(r)'
        <4>1. PICK n : n = 5 /\ Len(s) = n /\ \A i \in 1..n : Explained(s[i], n - i)
          BY <3>3, <3>4
        <4> QED  BY <3>2, <4>1 DEF ExplainPlan
      <3> QED  BY <3>4
    <2> QED  BY <1>5, <1>7, <2>1, <2>2, <2>3, <2>4 DEF Plan
  <1> QED  BY <1>5, <1>7, <1>8, <1>9, <1>10, OneActs DEF Steady

\* The clients of a pool that fits no more are closed, at once or when they are released.
LEMMA PooledClients ==
    ASSUME StudioTypes, NEW c \in Conns
    PROVE  /\ Pooled[c] \in Client
           /\ \/ /\ Pooled[c].user = conn[c].user /\ Pooled[c].txn = conn[c].txn
                 /\ Pooled[c].writes = conn[c].writes /\ Pooled[c].leaky = conn[c].leaky
              \/ conn[c].user = 0 /\ Pooled[c] = NoConn
  <1>1. PICK h \in Client : h = conn[c]
    BY DEF StudioTypes
  <1>2. PICK x : x = [h EXCEPT !.ending = TRUE]
    OBVIOUS
  <1>3. x \in Client /\ x.user = h.user /\ x.txn = h.txn /\ x.writes = h.writes /\ x.leaky = h.leaky
    BY <1>2 DEF Client
  <1>4. Pooled[c] = IF Fits \/ h.port = 0 THEN h ELSE IF h.user = 0 THEN NoConn ELSE x
    BY <1>1, <1>2 DEF Pooled
  <1> QED  BY <1>1, <1>3, <1>4, NoConnTyped

LEMMA ConnectKeeps ==
    ASSUME StudioInv, NEW r \in Requests, Connect(r) PROVE StudioInv'
  <1>1. PICK c \in Conns : /\ Usable(c)
                           /\ conn' = [Pooled EXCEPT ![c].port = port, ![c].user = r]
                           /\ asks' = [asks EXCEPT ![r].conn = c]
    BY DEF Connect
  <1>2. /\ asks[r].kind # "none" /\ asks[r].conn = 0 /\ asks[r].todo # <<>> /\ table' = table /\ port' = port
        /\ StudioTypes /\ r # 0 /\ c # 0
    BY NamesAssumption DEF Connect, StudioInv
  <1>3. PICK h \in Client : h = Pooled[c] /\ h.user = 0
    BY <1>1, <1>2, PooledClients DEF Usable
  <1>4. PICK y : y = [h EXCEPT !.port = port]
    OBVIOUS
  <1>5. y \in Client /\ y.user = 0 /\ y.txn = h.txn /\ y.writes = h.writes /\ y.leaky = h.leaky
    BY <1>2, <1>3, <1>4 DEF Client, StudioTypes
  <1>6. PICK x : x = [y EXCEPT !.user = r]
    OBVIOUS
  <1>7. x \in Client /\ x.user = r /\ x.txn = h.txn /\ x.writes = h.writes /\ x.leaky = h.leaky
    BY <1>5, <1>6 DEF Client
  <1>8. conn' = [Pooled EXCEPT ![c] = x]
    BY <1>1, <1>3, <1>4, <1>6
  <1>9. /\ conn'[c] = x /\ \A d \in Conns : d # c => conn'[d] = Pooled[d]
        /\ DOMAIN Pooled = Conns
    BY <1>8 DEF Pooled
  <1>10. conn' \in [Conns -> Client]
    BY <1>2, <1>7, <1>8, <1>9, PooledClients
  <1>11. PICK a \in Asked : a = asks[r]
    BY <1>2 DEF StudioTypes
  <1>12. PICK b : b = [a EXCEPT !.conn = c]
    OBVIOUS
  <1>13. b \in Asked /\ b.conn = c /\ b.kind = a.kind /\ b.todo = a.todo /\ b.ok = a.ok
         /\ b.committed = a.committed
    BY <1>12 DEF Asked
  <1>14. asks' = [asks EXCEPT ![r] = b]
    BY <1>1, <1>11, <1>12
  <1>15. asks'[r] = b /\ (\A q \in Requests : q # r => asks'[q] = asks[q]) /\ asks' \in [Requests -> Asked]
    BY <1>2, <1>13, <1>14 DEF StudioTypes
  <1>16. StudioTypes' /\ Unexplained'
    BY <1>2, <1>10, <1>15 DEF StudioTypes, StudioInv, Unexplained
  <1>17. conn[c].user = 0 /\ Clean(c)' /\ Closed(c)'
    <2>1. CASE h = NoConn /\ conn[c].user = 0
      BY <1>7, <1>9, <2>1, NoConnTyped DEF Clean, Closed
    <2>2. CASE /\ h.user = conn[c].user /\ h.txn = conn[c].txn
               /\ h.writes = conn[c].writes /\ h.leaky = conn[c].leaky
      <3>1. Clean(c) /\ Closed(c)
        BY <1>3, <2>2 DEF StudioInv, StudioFresh
      <3> QED  BY <1>3, <1>7, <1>9, <2>2, <3>1 DEF Clean, Closed
    <2> QED  BY <1>2, <1>3, <2>1, <2>2, PooledClients
  <1>18. ASSUME NEW d \in Conns, d # c
         PROVE  Steady(d, r) /\ conn'[d].user # r
    <2>1. conn[d].user # r
      BY <1>2, NamesAssumption DEF StudioInv, Paired
    <2>2. conn'[d] = Pooled[d]
      BY <1>9, <1>18
    <2>3. CASE conn[d].user = 0 /\ Pooled[d] = NoConn
      BY <1>2, <2>2, <2>3, NoConnTyped DEF Steady, StudioFresh, Closed, Clean
    <2>4. CASE /\ Pooled[d].user = conn[d].user /\ Pooled[d].txn = conn[d].txn
               /\ Pooled[d].writes = conn[d].writes /\ Pooled[d].leaky = conn[d].leaky
      BY <2>1, <2>2, <2>4 DEF Steady, SameClient
    <2> QED  BY <1>2, <2>3, <2>4, PooledClients
  <1>19. Steady(c, r)
    BY <1>2, <1>7, <1>9, <1>17 DEF Steady, StudioFresh
  <1>20. Plan(r)'
    <2>1. Plan(r) /\ asks'[r].kind = asks[r].kind /\ asks'[r].todo = asks[r].todo /\ asks'[r].conn = c
          /\ asks'[r].todo # <<>>
      BY <1>2, <1>11, <1>13, <1>15 DEF StudioInv
    <2>2. PlainPlan(r) => PlainPlan(r)'
      BY <1>17, <2>1 DEF PlainPlan
    <2>3. EditPlan(r) => EditPlan(r)'
      BY <1>17, <2>1 DEF EditPlan
    <2>4. BrowsePlan(r) => BrowsePlan(r)'
      BY <1>17, <2>1 DEF BrowsePlan
    <2>5. ExplainPlan(r) => ExplainPlan(r)'
      BY <1>2, <1>17, <2>1 DEF ExplainPlan
    <2> QED  BY <2>1, <2>2, <2>3, <2>4, <2>5 DEF Plan
  <1> QED  BY <1>2, <1>7, <1>9, <1>11, <1>13, <1>15, <1>16, <1>18, <1>19, <1>20, OneActs

LEMMA ConnectFailsKeeps ==
    ASSUME StudioInv, NEW r \in Requests, ConnectFails(r) PROVE StudioInv'
  <1>1. /\ asks[r].kind # "none" /\ asks[r].conn = 0 /\ table' = table /\ port' = port /\ conn' = Pooled
        /\ asks' = [asks EXCEPT ![r].todo = <<>>, ![r].ok = FALSE]
        /\ StudioTypes /\ r # 0
    BY NamesAssumption DEF ConnectFails, StudioInv
  <1>2. PICK a \in Asked : a = asks[r]
    BY <1>1 DEF StudioTypes
  <1>3. PICK y : y = [a EXCEPT !.todo = <<>>]
    OBVIOUS
  <1>4. y \in Asked /\ y.conn = 0 /\ y.kind = a.kind /\ y.todo = <<>>
    BY <1>1, <1>2, <1>3, EmptySeq DEF Asked
  <1>5. PICK b : b = [y EXCEPT !.ok = FALSE]
    OBVIOUS
  <1>6. b \in Asked /\ b.conn = 0 /\ b.kind = a.kind /\ b.todo = <<>> /\ b.ok = FALSE /\ Len(b.todo) = 0
    BY <1>4, <1>5, EmptySeq DEF Asked
  <1>7. asks' = [asks EXCEPT ![r] = b]
    BY <1>1, <1>2, <1>3, <1>5
  <1>8. asks'[r] = b /\ (\A q \in Requests : q # r => asks'[q] = asks[q]) /\ asks' \in [Requests -> Asked]
    BY <1>1, <1>6, <1>7 DEF StudioTypes
  <1>9. conn' \in [Conns -> Client]
    BY <1>1, PooledClients DEF Pooled
  <1>10. StudioTypes' /\ Unexplained'
    BY <1>1, <1>8, <1>9 DEF StudioTypes, StudioInv, Unexplained
  <1>11. ASSUME NEW d \in Conns PROVE Steady(d, r) /\ conn'[d].user # r
    <2>1. conn[d].user # r
      BY <1>1, NamesAssumption DEF StudioInv, Paired
    <2>2. CASE conn[d].user = 0 /\ Pooled[d] = NoConn
      BY <1>1, <2>2, NoConnTyped DEF Steady, StudioFresh, Closed, Clean
    <2>3. CASE /\ Pooled[d].user = conn[d].user /\ Pooled[d].txn = conn[d].txn
               /\ Pooled[d].writes = conn[d].writes /\ Pooled[d].leaky = conn[d].leaky
      BY <1>1, <2>1, <2>3 DEF Steady, SameClient
    <2> QED  BY <1>1, <2>2, <2>3, PooledClients
  <1>12. Plan(r)'
    BY <1>6, <1>8 DEF Plan, PlainPlan, EditPlan, BrowsePlan, ExplainPlan
  <1> QED  BY <1>1, <1>6, <1>8, <1>10, <1>11, <1>12, OneActs
\* The statement a request is at, and the client it is on.
LEMMA AtStatement ==
    ASSUME StudioInv, NEW r \in Requests, Running(r)
    PROVE  /\ StudioTypes /\ r # 0 /\ asks[r].conn # 0 /\ asks[r].conn \in Conns /\ conn[asks[r].conn].user = r
           /\ Head(asks[r].todo) \in Statement /\ Head(asks[r].todo) = asks[r].todo[1]
           /\ Len(asks[r].todo) \in Nat /\ Len(asks[r].todo) >= 1
           /\ Plan(r) /\ asks[r].kind # "none"
           /\ \A d \in Conns : d # asks[r].conn => conn[d].user # r
  <1>1. StudioTypes /\ Paired /\ Plan(r) /\ r # 0 /\ asks[r].conn # 0 /\ asks[r].todo # <<>>
    BY NamesAssumption DEF StudioInv, Running
  <1>2. asks[r].todo \in Seq(Statement) /\ asks[r].conn \in Conns
    BY <1>1 DEF StudioTypes, Asked
  <1>3. /\ Len(asks[r].todo) \in Nat /\ Len(asks[r].todo) >= 1
        /\ Head(asks[r].todo) = asks[r].todo[1] /\ Head(asks[r].todo) \in Statement
    BY <1>1, <1>2, First
  <1>4. /\ conn[asks[r].conn].user = r /\ asks[r].kind # "none"
        /\ \A d \in Conns : d # asks[r].conn => conn[d].user # r
    BY <1>1, <1>2 DEF Paired
  <1> QED  BY <1>1, <1>2, <1>3, <1>4

\* A request does something to its own client.
LEMMA OwnClient ==
    ASSUME StudioInv, NEW r \in Requests, NEW c \in Conns, NEW x \in Client, NEW b \in Asked,
           c # 0, asks[r].conn = c, conn[c].user = r, conn' = [conn EXCEPT ![c] = x], asks' = [asks EXCEPT ![r] = b],
           table' \in [Keys -> Marked], Unexplained', port' = port,
           Plan(r)', asks[r].kind # "none",
           \/ x.user = r /\ b.conn = c /\ b.kind = asks[r].kind
           \/ x.user = 0 /\ b.conn = 0 /\ StudioFresh(c)'
    PROVE  StudioInv'
  <1>1. StudioTypes /\ Paired /\ r # 0
    BY NamesAssumption DEF StudioInv
  <1>2. /\ conn'[c] = x /\ (\A d \in Conns : d # c => conn'[d] = conn[d]) /\ conn' \in [Conns -> Client]
        /\ asks'[r] = b /\ (\A q \in Requests : q # r => asks'[q] = asks[q]) /\ asks' \in [Requests -> Asked]
    BY <1>1 DEF StudioTypes
  <1>3. StudioTypes'
    BY <1>1, <1>2 DEF StudioTypes
  <1>4. \A d \in Conns : d # c => SameClient(d) /\ conn'[d].user # r
    BY <1>1, <1>2 DEF SameClient, Paired
  <1>5. Steady(c, r)
    BY <1>1, <1>2 DEF Steady, StudioFresh
  <1>6. \A d \in Conns : Steady(d, r)
    BY <1>4, <1>5 DEF Steady
  <1>7. b.conn # 0 => conn'[b.conn].user = r /\ b.kind # "none"
    BY <1>1, <1>2
  <1>8. \A d \in Conns : conn'[d].user = r => b.conn = d
    BY <1>1, <1>2, <1>4
  <1> QED  BY <1>1, <1>2, <1>3, <1>6, <1>7, <1>8, OneActs

LEMMA SucceedsKeeps ==
    ASSUME StudioInv, NEW r \in Requests, StatementSucceeds(r) PROVE StudioInv'
  <1>1. Running(r)
    BY DEF StatementSucceeds
  <1>2. PICK c, s, n : c = asks[r].conn /\ s = Head(asks[r].todo) /\ n = Len(asks[r].todo)
    OBVIOUS
  <1>3. /\ StudioTypes /\ r # 0 /\ c # 0 /\ c \in Conns /\ conn[c].user = r
        /\ s \in Statement /\ s = asks[r].todo[1] /\ n \in Nat /\ n >= 1 /\ Plan(r) /\ asks[r].kind # "none"
    BY <1>1, <1>2, AtStatement
  <1>4. PICK changed \in BOOLEAN : changed = (asks[r].kind = "edit" /\ s.do = "write" => Changes(c, s))
    OBVIOUS
  <1>5. PICK done \in BOOLEAN : done = (s.do = "write" /\ conn[c].txn = "none")
    OBVIOUS
  <1>6. PICK x : x = ConnAfter(c, s)
    OBVIOUS
  <1>7. StudioAfter(x, c, s)
    BY <1>3, <1>6, Succeeded
  <1>8. /\ Possible(c, s) /\ table' = TableAfter(c, s) /\ conn' = [conn EXCEPT ![c] = x] /\ port' = port
    BY <1>2, <1>6 DEF StatementSucceeds
  <1>9. asks' = [asks EXCEPT ![r].todo = Tail(asks[r].todo), ![r].ok = asks[r].ok /\ changed, ![r].committed = done]
    BY <1>2, <1>3, <1>4, <1>5 DEF StatementSucceeds, StudioTypes
  <1>10. PICK a \in Asked : a = asks[r]
    BY <1>3 DEF StudioTypes
  <1>11. PICK rest \in Seq(Statement) :
            /\ rest = Tail(a.todo) /\ Len(rest) = n - 1 /\ (rest = <<>> => n = 1)
            /\ \A i \in 1..(n - 1) : rest[i] = a.todo[i + 1]
    <2>1. a.todo \in Seq(Statement) /\ a.todo # <<>>
      BY <1>1, <1>10 DEF Asked, Running
    <2>2. /\ Tail(a.todo) \in Seq(Statement) /\ Len(Tail(a.todo)) = n - 1
          /\ Tail(a.todo) = <<>> => n = 1
          /\ \A i \in 1..(n - 1) : Tail(a.todo)[i] = a.todo[i + 1]
      BY <1>2, <1>10, <2>1, First
    <2> QED  BY <2>2
  <1>12. PICK y : y = [a EXCEPT !.todo = rest]
    OBVIOUS
  <1>13. y \in Asked /\ y.conn = a.conn /\ y.kind = a.kind /\ y.todo = rest /\ y.ok = a.ok
    BY <1>12 DEF Asked
  <1>14. PICK ok \in BOOLEAN : ok = (a.ok /\ changed)
    OBVIOUS
  <1>15. PICK z : z = [y EXCEPT !.ok = ok]
    OBVIOUS
  <1>16. z \in Asked /\ z.conn = a.conn /\ z.kind = a.kind /\ z.todo = rest /\ z.ok = ok
    BY <1>13, <1>15 DEF Asked
  <1>17. PICK b : b = [z EXCEPT !.committed = done]
    OBVIOUS
  <1>18. b \in Asked /\ b.conn = a.conn /\ b.kind = a.kind /\ b.todo = rest /\ b.ok = ok /\ b.committed = done
    BY <1>16, <1>17 DEF Asked
  <1>19. asks' = [asks EXCEPT ![r] = b]
    BY <1>9, <1>10, <1>11, <1>12, <1>14, <1>15, <1>17
  <1>20. conn'[c] = x /\ asks'[r] = b
    BY <1>3, <1>8, <1>19 DEF StudioTypes
  <1>21. a.kind # "explain" => Clean(c) /\ (s.do = "write" => s.row.by # "explain")
    BY <1>2, <1>3, <1>10 DEF Plan, PlainPlan
  <1>22. a.kind = "explain" => /\ Explained(s, n - 1) /\ n - 1 \in Nat
                               /\ n \notin 1..3 => Closed(c) /\ Clean(c)
                               /\ n \in 2..3 => conn[c].txn = "open"
    <2> SUFFICES ASSUME a.kind = "explain" PROVE /\ Explained(s, n - 1) /\ n - 1 \in Nat
                                                 /\ n \notin 1..3 => Closed(c) /\ Clean(c)
                                                 /\ n \in 2..3 => conn[c].txn = "open"
      OBVIOUS
    <2>1. ExplainPlan(r)
      BY <1>3, <1>10 DEF Plan
    <2>2. /\ \A i \in 1..n : Explained(asks[r].todo[i], n - i)
          /\ n \notin 1..3 => Closed(c) /\ Clean(c)
          /\ n \in 2..3 => conn[c].txn = "open"
      BY <1>2, <1>3, <2>1 DEF ExplainPlan
    <2> QED  BY <1>3, <2>2
  <1>23. a.kind = "explain" => s.do # "commit" /\ (s.do = "write" => conn[c].txn # "none")
    <2> SUFFICES ASSUME a.kind = "explain" PROVE s.do # "commit" /\ (s.do = "write" => conn[c].txn # "none")
      OBVIOUS
    <2>1. CASE n = 1
      BY <1>22, <2>1 DEF Explained
    <2>2. CASE n \in 2..3
      BY <1>22, <2>2 DEF Explained
    <2>3. CASE n > 3
      BY <1>3, <1>22, <2>3 DEF Explained
    <2> QED  BY <1>3, <2>1, <2>2, <2>3
  <1>24. table' \in [Keys -> Marked] /\ Unexplained'
    BY <1>3, <1>8, <1>21, <1>23, Committed DEF StudioInv, Unexplained
  <1>25. a.kind # "explain" => Clean(c)'
    BY <1>7, <1>20, <1>21 DEF StudioAfter, Clean
  <1>26. s.do \notin {"begin", "commit", "rollback"} /\ Closed(c) => Closed(c)'
    BY <1>7, <1>20 DEF StudioAfter, Closed
  <1>27. Plan(r)'
    <2>1. a.kind # "explain" => PlainPlan(r)'
      <3> SUFFICES ASSUME a.kind # "explain" PROVE PlainPlan(r)'
        OBVIOUS
      <3>1. \A i \in 1..n : a.todo[i].do = "write" => a.todo[i].row.by # "explain"
        BY <1>2, <1>3, <1>10 DEF Plan, PlainPlan
      <3>2. \A i \in 1..(n - 1) : rest[i].do = "write" => rest[i].row.by # "explain"
        <4> TAKE i \in 1..(n - 1)
        <4>1. i + 1 \in 1..n /\ rest[i] = a.todo[i + 1]
          BY <1>3, <1>11
        <4> QED  BY <3>1, <4>1
      <3>3. asks'[r].todo = rest /\ Len(rest) = n - 1 /\ asks'[r].conn = c
        BY <1>2, <1>10, <1>11, <1>18, <1>20
      <3> QED  BY <1>25, <3>2, <3>3 DEF PlainPlan
    <2>2. a.kind = "edit" => EditPlan(r)'
      <3> SUFFICES ASSUME a.kind = "edit" PROVE EditPlan(r)'
        OBVIOUS
      <3>1. /\ \A i \in 1..n : a.todo[i].do = IF i = n THEN "write" ELSE "set"
            /\ Closed(c)
        BY <1>2, <1>3, <1>10 DEF Plan, EditPlan
      <3>2. s.do \in {"set", "write"} /\ (n = 1 => s.do = "write")
        BY <1>3, <1>10, <3>1
      <3>3. Closed(c)'
        BY <1>26, <3>1, <3>2
      <3>4. \A i \in 1..(n - 1) : rest[i].do = IF i = n - 1 THEN "write" ELSE "set"
        <4> TAKE i \in 1..(n - 1)
        <4>1. i + 1 \in 1..n /\ rest[i] = a.todo[i + 1] /\ (i = n - 1 <=> i + 1 = n)
          BY <1>3, <1>11
        <4> QED  BY <3>1, <4>1
      <3>5. rest = <<>> => done \/ conn'[c].leaky
        <4>1. conn'[c].leaky = conn[c].leaky
          BY <1>7, <1>20, <3>2 DEF StudioAfter
        <4> QED  BY <1>5, <1>11, <3>1, <3>2, <4>1 DEF Closed
      <3>6. asks'[r].todo = rest /\ Len(rest) = n - 1 /\ asks'[r].conn = c /\ asks'[r].committed = done
        BY <1>2, <1>10, <1>11, <1>18, <1>20
      <3> QED  BY <1>3, <3>3, <3>4, <3>5, <3>6 DEF EditPlan
    <2>3. a.kind = "browse" => BrowsePlan(r)'
      <3> SUFFICES ASSUME a.kind = "browse" PROVE BrowsePlan(r)'
        OBVIOUS
      <3>1. /\ \A i \in 1..n : a.todo[i].do \in {"set", "page", "count"}
            /\ Closed(c)
        BY <1>2, <1>3, <1>10 DEF Plan, BrowsePlan
      <3>2. Closed(c)'
        BY <1>3, <1>10, <1>26, <3>1
      <3>3. \A i \in 1..(n - 1) : rest[i].do \in {"set", "page", "count"}
        <4> TAKE i \in 1..(n - 1)
        <4>1. i + 1 \in 1..n /\ rest[i] = a.todo[i + 1]
          BY <1>3, <1>11
        <4> QED  BY <3>1, <4>1
      <3>4. asks'[r].todo = rest /\ Len(rest) = n - 1 /\ asks'[r].conn = c
        BY <1>2, <1>10, <1>11, <1>18, <1>20
      <3> QED  BY <3>2, <3>3, <3>4 DEF BrowsePlan
    <2>4. a.kind = "explain" => ExplainPlan(r)'
      <3> SUFFICES ASSUME a.kind = "explain" PROVE ExplainPlan(r)'
        OBVIOUS
      <3>1. \A i \in 1..n : Explained(a.todo[i], n - i)
        BY <1>2, <1>3, <1>10 DEF Plan, ExplainPlan
      <3>2. PICK m : m = n - 1
        OBVIOUS
      <3>3. \A i \in 1..m : Explained(rest[i], m - i)
        <4> TAKE i \in 1..m
        <4>1. i + 1 \in 1..n /\ rest[i] = a.todo[i + 1] /\ m - i = n - (i + 1)
          BY <1>3, <1>11, <3>2
        <4> QED  BY <3>1, <4>1
      <3>4. asks'[r].todo = rest /\ Len(rest) = m /\ asks'[r].conn = c /\ m \in Nat
        BY <1>2, <1>3, <1>10, <1>11, <1>18, <1>20, <3>2
      <3>5. /\ m \notin 1..3 => Closed(c)' /\ Clean(c)'
            /\ m \in 1..3 => x.txn # "none"
            /\ m \in 2..3 => x.txn = "open"
        <4>1. CASE n = 1
          <5>1. s.do = "rollback"
            BY <1>22, <4>1 DEF Explained
          <5> QED  BY <1>7, <1>20, <3>2, <4>1, <5>1 DEF StudioAfter, Closed, Clean
        <4>2. CASE n = 2 \/ n = 3
          <5>1. s.do = "write" /\ conn[c].txn = "open"
            BY <1>22, <4>2 DEF Explained
          <5> QED  BY <1>7, <3>2, <4>2, <5>1 DEF StudioAfter
        <4>3. CASE n = 4
          <5>1. s.do = "begin"
            BY <1>22, <4>3 DEF Explained
          <5> QED  BY <1>7, <3>2, <4>3, <5>1 DEF StudioAfter
        <4>4. CASE n > 4
          <5>1. s.do = "set" /\ Closed(c) /\ Clean(c)
            BY <1>3, <1>22, <4>4 DEF Explained
          <5>2. Clean(c)' /\ Closed(c)'
            BY <1>7, <1>20, <1>26, <5>1 DEF StudioAfter, Clean
          <5> QED  BY <3>2, <4>4, <5>2
        <4> QED  BY <1>3, <4>1, <4>2, <4>3, <4>4
      <3> QED  BY <1>3, <1>20, <3>3, <3>4, <3>5 DEF ExplainPlan
    <2> QED  BY <1>18, <1>20, <2>1, <2>2, <2>3, <2>4 DEF Plan
  <1>28. x \in Client /\ x.user = r /\ b.conn = c /\ b.kind = asks[r].kind
    BY <1>2, <1>3, <1>7, <1>10, <1>18 DEF StudioAfter
  <1> QED  BY <1>2, <1>3, <1>8, <1>18, <1>19, <1>24, <1>27, <1>28, OwnClient
LEMMA FailsKeeps ==
    ASSUME StudioInv, NEW r \in Requests, StatementFails(r) PROVE StudioInv'
  <1>1. Running(r)
    BY DEF StatementFails
  <1>2. PICK c, s, n : c = asks[r].conn /\ s = Head(asks[r].todo) /\ n = Len(asks[r].todo)
    OBVIOUS
  <1>3. /\ StudioTypes /\ r # 0 /\ c # 0 /\ c \in Conns /\ conn[c].user = r
        /\ s \in Statement /\ s = asks[r].todo[1] /\ n \in Nat /\ n >= 1 /\ Plan(r) /\ asks[r].kind # "none"
    BY <1>1, <1>2, AtStatement
  <1>4. PICK x : x = ConnFailed(c)
    OBVIOUS
  <1>5. /\ x \in Client /\ x.user = conn[c].user /\ x.leaky = conn[c].leaky
        /\ conn[c].txn = "none" <=> x.txn = "none"
        /\ Clean(c) \/ conn[c].txn # "none" => \A k \in DOMAIN x.writes : x.writes[k].by # "explain"
    BY <1>3, <1>4, Failed
  <1>6. /\ ~Possible(c, s) \/ s.do \in {"write", "page", "count"}
        /\ table' = table /\ conn' = [conn EXCEPT ![c] = x] /\ port' = port
    BY <1>2, <1>4 DEF StatementFails
  <1>7. PICK a \in Asked : a = asks[r]
    BY <1>3 DEF StudioTypes
  <1>8. PICK rest : rest = IF a.kind = "explain" /\ s.do = "write" THEN <<Do("rollback")>> ELSE <<>>
    OBVIOUS
  <1>9. /\ rest \in Seq(Statement)
        /\ a.kind = "explain" /\ s.do = "write" => Len(rest) = 1 /\ rest[1].do = "rollback"
        /\ ~(a.kind = "explain" /\ s.do = "write") => rest = <<>> /\ Len(rest) = 0
    <2>1. PICK w \in Statement : w = Do("rollback") /\ w.do = "rollback"
      BY StudioTyped
    <2>2. <<w>> \in Seq(Statement) /\ Len(<<w>>) = 1 /\ <<w>>[1] = w
      OBVIOUS
    <2>3. <<>> \in Seq(Statement) /\ Len(<<>>) = 0
      BY EmptySeq
    <2> QED  BY <1>8, <2>1, <2>2, <2>3
  <1>10. asks' = [asks EXCEPT ![r].todo = rest, ![r].ok = FALSE]
    BY <1>2, <1>7, <1>8 DEF StatementFails, Recovery
  <1>11. PICK y : y = [a EXCEPT !.todo = rest]
    OBVIOUS
  <1>12. y \in Asked /\ y.conn = a.conn /\ y.kind = a.kind /\ y.todo = rest
    BY <1>9, <1>11 DEF Asked
  <1>13. PICK b : b = [y EXCEPT !.ok = FALSE]
    OBVIOUS
  <1>14. b \in Asked /\ b.conn = a.conn /\ b.kind = a.kind /\ b.todo = rest /\ b.ok = FALSE
    BY <1>12, <1>13 DEF Asked
  <1>15. asks' = [asks EXCEPT ![r] = b]
    BY <1>7, <1>10, <1>11, <1>13
  <1>16. conn'[c] = x /\ asks'[r] = b
    BY <1>3, <1>6, <1>15 DEF StudioTypes
  <1>17. table' \in [Keys -> Marked] /\ Unexplained'
    BY <1>3, <1>6 DEF StudioInv, StudioTypes, Unexplained
  <1>18. Closed(c) => Closed(c)'
    BY <1>5, <1>16 DEF Closed
  <1>19. Clean(c) => Clean(c)'
    BY <1>5, <1>16 DEF Clean
  <1>20. Plan(r)'
    <2>1. a.kind # "explain" => PlainPlan(r)'
      BY <1>2, <1>3, <1>7, <1>9, <1>14, <1>16, <1>19 DEF Plan, PlainPlan
    <2>2. a.kind = "edit" => EditPlan(r)'
      BY <1>2, <1>3, <1>7, <1>9, <1>14, <1>16, <1>18 DEF Plan, EditPlan
    <2>3. a.kind = "browse" => BrowsePlan(r)'
      BY <1>2, <1>3, <1>7, <1>9, <1>14, <1>16, <1>18 DEF Plan, BrowsePlan
    <2>4. a.kind = "explain" => ExplainPlan(r)'
      <3> SUFFICES ASSUME a.kind = "explain" PROVE ExplainPlan(r)'
        OBVIOUS
      <3>1. ExplainPlan(r)
        BY <1>3, <1>7 DEF Plan
      <3>2. /\ Explained(s, n - 1)
            /\ n \notin 1..3 => Closed(c) /\ Clean(c)
            /\ n \in 2..3 => conn[c].txn = "open"
        <4>1. /\ \A i \in 1..n : Explained(asks[r].todo[i], n - i)
              /\ n \notin 1..3 => Closed(c) /\ Clean(c)
              /\ n \in 2..3 => conn[c].txn = "open"
          BY <1>2, <1>3, <3>1 DEF ExplainPlan
        <4> QED  BY <1>3, <4>1
      <3>3. s.do = "write" => n \in 2..3
        <4>1. CASE n = 1
          BY <3>2, <4>1 DEF Explained
        <4>2. CASE n > 3
          BY <1>3, <3>2, <4>2 DEF Explained
        <4> QED  BY <1>3, <4>1, <4>2
      <3>4. s.do # "write" => n \notin 1..3
        <4>1. CASE n \in 2..3
          BY <3>2, <4>1 DEF Explained
        <4>2. CASE n = 1
          <5>1. s.do = "rollback"
            BY <3>2, <4>2 DEF Explained
          <5> QED  BY <1>6, <5>1 DEF Possible
        <4> QED  BY <1>3, <4>1, <4>2
      <3>5. asks'[r].todo = rest /\ asks'[r].conn = c
        BY <1>2, <1>7, <1>14, <1>16
      <3>6. CASE s.do = "write"
        <4>1. Len(rest) = 1 /\ rest[1].do = "rollback" /\ x.txn # "none"
          BY <1>5, <1>9, <3>2, <3>3, <3>6
        <4>2. Explained(rest[1], 0)
          BY <4>1 DEF Explained
        <4> QED  BY <1>3, <1>16, <3>5, <4>1, <4>2 DEF ExplainPlan
      <3>7. CASE s.do # "write"
        <4>1. Len(rest) = 0 /\ Closed(c)' /\ Clean(c)'
          BY <1>9, <1>18, <1>19, <3>2, <3>4, <3>7
        <4> QED  BY <1>3, <3>5, <4>1 DEF ExplainPlan
      <3> QED  BY <3>6, <3>7
    <2> QED  BY <1>14, <1>16, <2>1, <2>2, <2>3, <2>4 DEF Plan
  <1> QED  BY <1>2, <1>3, <1>5, <1>6, <1>7, <1>14, <1>15, <1>17, <1>20, OwnClient

LEMMA ReleaseKeeps ==
    ASSUME StudioInv, NEW r \in Requests, Release(r) PROVE StudioInv'
  <1>1. /\ asks[r].kind # "none" /\ asks[r].todo = <<>> /\ table' = table /\ port' = port
        /\ conn' = IF asks[r].conn = 0 THEN conn
                   ELSE [conn EXCEPT ![asks[r].conn] = Released(asks[r].conn, asks[r].kind)]
        /\ asks' = [asks EXCEPT ![r] = NoRequest]
        /\ StudioTypes /\ Paired /\ Plan(r) /\ r # 0
    BY NamesAssumption DEF Release, StudioInv
  <1>2. /\ asks'[r] = NoRequest /\ (\A q \in Requests : q # r => asks'[q] = asks[q]) /\ asks' \in [Requests -> Asked]
        /\ Len(NoRequest.todo) = 0 /\ NoRequest.kind = "none" /\ NoRequest.conn = 0
    BY <1>1, NoRequestTyped, EmptySeq DEF StudioTypes
  <1>3. Plan(r)'
    BY <1>2 DEF Plan, PlainPlan
  <1>4. table' \in [Keys -> Marked] /\ Unexplained'
    BY <1>1 DEF StudioInv, StudioTypes, Unexplained
  <1>5. CASE asks[r].conn = 0
    <2>1. conn' = conn
      BY <1>1, <1>5
    <2>2. \A d \in Conns : Steady(d, r) /\ conn'[d].user # r
      BY <1>1, <1>5, <2>1, NamesAssumption DEF Steady, SameClient, Paired
    <2>3. StudioTypes'
      BY <1>1, <1>2, <1>4, <2>1 DEF StudioTypes
    <2> QED  BY <1>1, <1>2, <1>3, <1>4, <2>2, <2>3, OneActs
  <1>6. CASE asks[r].conn # 0
    <2>1. PICK c \in Conns : c = asks[r].conn /\ c # 0 /\ conn[c].user = r
      BY <1>1, <1>6 DEF StudioTypes, Asked, Paired
    <2>2. PICK h \in Client : h = conn[c]
      BY <1>1 DEF StudioTypes
    <2>3. PICK leaky \in BOOLEAN : leaky = (h.leaky \/ (asks[r].kind = "script" /\ h.txn # "none"))
      OBVIOUS
    <2>4. PICK y : y = [h EXCEPT !.user = 0]
      OBVIOUS
    <2>5. y \in Client /\ y.user = 0 /\ y.txn = h.txn /\ y.writes = h.writes
      BY <2>4 DEF Client
    <2>6. PICK z : z = [y EXCEPT !.leaky = leaky]
      OBVIOUS
    <2>7. z \in Client /\ z.user = 0 /\ z.txn = h.txn /\ z.writes = h.writes /\ z.leaky = leaky
      BY <2>5, <2>6 DEF Client
    <2>8. PICK x : x = IF h.ending THEN NoConn ELSE z
      OBVIOUS
    <2>9. conn' = [conn EXCEPT ![c] = x]
      <3>1. x = Released(c, asks[r].kind)
        BY <2>2, <2>3, <2>4, <2>6, <2>8 DEF Released
      <3> QED  BY <1>1, <1>6, <2>1, <3>1
    <2>10. x \in Client /\ x.user = 0 /\ conn'[c] = x
      BY <1>1, <2>7, <2>8, <2>9, NoConnTyped DEF StudioTypes
    <2>11. PICK b \in Asked : b = NoRequest /\ b.conn = 0
      BY NoRequestTyped
    <2>12. StudioFresh(c)' => StudioInv'
      <3>1. ASSUME StudioFresh(c)' PROVE StudioInv'
        <4>1. asks' = [asks EXCEPT ![r] = b] /\ asks[r].conn = c /\ port' = port /\ asks[r].kind # "none"
          BY <1>1, <2>1, <2>11
        <4> QED  BY <1>3, <1>4, <2>1, <2>9, <2>10, <2>11, <3>1, <4>1, OwnClient
      <3> QED  BY <3>1
    <2>13. CASE h.ending
      <3>1. StudioFresh(c)'
        BY <2>8, <2>10, <2>13, NoConnTyped DEF StudioFresh, Closed, Clean
      <3> QED  BY <2>12, <3>1
    <2>14. CASE ~h.ending
      <3>1. Clean(c) /\ (asks[r].kind = "script" \/ Closed(c))
        <4>1. CASE asks[r].kind = "explain"
          <5>1. ExplainPlan(r) /\ Len(asks[r].todo) = 0
            BY <1>1, <4>1, EmptySeq DEF Plan
          <5> QED  BY <2>1, <5>1 DEF ExplainPlan
        <4>2. CASE asks[r].kind # "explain"
          <5>1. asks[r].kind \in {"edit", "browse", "script"}
            BY <1>1, <4>2 DEF StudioTypes, Asked
          <5> QED  BY <1>1, <2>1, <4>2, <5>1 DEF Plan, PlainPlan, EditPlan, BrowsePlan
        <4> QED  BY <4>1, <4>2
      <3>2. conn'[c].writes = h.writes /\ conn'[c].txn = h.txn /\ conn'[c].leaky = leaky
        BY <2>7, <2>8, <2>10, <2>14
      <3>3. Clean(c)'
        BY <2>2, <3>1, <3>2 DEF Clean
      <3>4. Closed(c)'
        BY <2>2, <2>3, <3>1, <3>2 DEF Closed
      <3>5. StudioFresh(c)'
        BY <3>3, <3>4 DEF StudioFresh
      <3> QED  BY <2>12, <3>5
    <2> QED  BY <2>13, <2>14
  <1> QED  BY <1>5, <1>6

\* Idle clients are closed, or clients are told to end.
LEMMA IdleClose ==
    ASSUME StudioInv, asks' = asks, table' = table, port' = port,
           conn' \in [Conns -> Client],
           \A c \in Conns : SameClient(c) \/ (conn[c].user = 0 /\ conn'[c] = NoConn)
    PROVE  StudioInv'
  <1>1. StudioTypes' /\ Unexplained'
    BY DEF StudioInv, StudioTypes, Unexplained
  <1>2. ASSUME NEW c \in Conns PROVE Steady(c, 0)
    BY <1>2, NoConnTyped DEF Steady, StudioFresh, Closed, Clean
  <1> QED  BY <1>1, <1>2, OneActs

LEMMA ClosesKeeps ==
    ASSUME StudioInv, NEW k \in Conns, ClientCloses(k) PROVE StudioInv'
  <1>1. conn[k].user = 0 /\ conn' = [conn EXCEPT ![k] = NoConn] /\ asks' = asks /\ table' = table /\ port' = port
    BY DEF ClientCloses
  <1>2. conn \in [Conns -> Client]
    BY DEF StudioInv, StudioTypes
  <1>3. conn' \in [Conns -> Client] /\ \A c \in Conns : SameClient(c) \/ (conn[c].user = 0 /\ conn'[c] = NoConn)
    BY <1>1, <1>2, NoConnTyped DEF SameClient
  <1> QED  BY <1>1, <1>3, IdleClose

LEMMA EvictKeeps ==
    ASSUME StudioInv, Evict PROVE StudioInv'
  <1>1. /\ conn' = [c \in Conns |-> IF conn[c].user = 0 THEN NoConn ELSE [conn[c] EXCEPT !.ending = TRUE]]
        /\ asks' = asks /\ table' = table /\ port' = port
    BY DEF Evict, DropPool
  <1>2. ASSUME NEW c \in Conns
        PROVE  /\ conn'[c] \in Client
               /\ SameClient(c) \/ (conn[c].user = 0 /\ conn'[c] = NoConn)
    <2>1. PICK h \in Client : h = conn[c]
      BY DEF StudioInv, StudioTypes
    <2>2. PICK x : x = [h EXCEPT !.ending = TRUE]
      OBVIOUS
    <2>3. x \in Client /\ x.user = h.user /\ x.txn = h.txn /\ x.writes = h.writes /\ x.leaky = h.leaky
      BY <2>2 DEF Client
    <2>4. conn'[c] = IF h.user = 0 THEN NoConn ELSE x
      BY <1>1, <2>1, <2>2
    <2> QED  BY <2>1, <2>3, <2>4, NoConnTyped DEF SameClient
  <1>3. conn' \in [Conns -> Client]
    BY <1>1, <1>2
  <1> QED  BY <1>1, <1>2, <1>3, IdleClose

LEMMA MovesKeeps ==
    ASSUME StudioInv, Moves PROVE StudioInv'
  <1>1. /\ port' \in {port, 3 - port} /\ table' = table /\ conn' = [c \in Conns |-> NoConn]
        /\ asks' = [r \in Requests |-> IF asks[r].conn = 0 THEN asks[r]
                                      ELSE IF asks[r].todo = <<>> THEN NoRequest
                                      ELSE [asks[r] EXCEPT !.conn = 0, !.todo = <<>>, !.ok = FALSE]]
        /\ StudioTypes /\ 0 \notin Conns
    BY NamesAssumption DEF Moves, StudioInv
  <1>2. \A c \in Conns : conn'[c] \in Client /\ conn'[c].user = 0 /\ StudioFresh(c)'
    BY <1>1, NoConnTyped DEF StudioFresh, Closed, Clean
  <1>3. ASSUME NEW r \in Requests PROVE asks'[r] \in Asked /\ asks'[r].conn = 0 /\ Plan(r)'
    <2>1. PICK a \in Asked : a = asks[r]
      BY <1>1 DEF StudioTypes
    <2>2. CASE a.conn = 0
      <3>1. asks'[r] = asks[r] /\ Plan(r)
        BY <1>1, <2>1, <2>2 DEF StudioInv
      <3> QED  BY <2>1, <2>2, <3>1, PlanKept
    <2>3. CASE a.conn # 0 /\ a.todo = <<>>
      <3>1. asks'[r] = NoRequest /\ Len(NoRequest.todo) = 0
        BY <1>1, <2>1, <2>3, NoRequestTyped, EmptySeq
      <3> QED  BY <3>1, NoRequestTyped DEF Plan, PlainPlan
    <2>4. CASE a.conn # 0 /\ a.todo # <<>>
      <3>1. PICK x : x = [a EXCEPT !.conn = 0]
        OBVIOUS
      <3>2. x \in Asked /\ x.conn = 0 /\ x.kind = a.kind
        BY <3>1 DEF Asked
      <3>3. PICK y : y = [x EXCEPT !.todo = <<>>]
        OBVIOUS
      <3>4. y \in Asked /\ y.conn = 0 /\ y.kind = a.kind /\ y.todo = <<>>
        BY <3>2, <3>3, EmptySeq DEF Asked
      <3>5. PICK z : z = [y EXCEPT !.ok = FALSE]
        OBVIOUS
      <3>6. z \in Asked /\ z.conn = 0 /\ z.todo = <<>> /\ z.ok = FALSE /\ Len(z.todo) = 0
        BY <3>4, <3>5, EmptySeq DEF Asked
      <3>7. asks'[r] = z
        BY <1>1, <2>1, <2>4, <3>1, <3>3, <3>5
      <3>8. asks'[r].conn = 0 /\ Len(asks'[r].todo) = 0 /\ asks'[r].ok = FALSE
        BY <3>6, <3>7
      <3>9. PlainPlan(r)' /\ EditPlan(r)' /\ BrowsePlan(r)'
        BY <3>8 DEF PlainPlan, EditPlan, BrowsePlan
      <3>10. ExplainPlan(r)'
        BY <3>8 DEF ExplainPlan
      <3> QED  BY <3>6, <3>7, <3>9, <3>10 DEF Plan
    <2> QED  BY <2>2, <2>3, <2>4
  <1>4. StudioTypes' /\ Unexplained'
    <2>1. conn' \in [Conns -> Client] /\ asks' \in [Requests -> Asked]
      BY <1>1, <1>2, <1>3
    <2>2. table' = table /\ port' \in 1..2 /\ table \in [Keys -> Marked]
      <3>1. port' \in {port, 3 - port} /\ table' = table
        BY <1>1
      <3>2. port \in 1..2 /\ table \in [Keys -> Marked]
        BY DEF StudioInv, StudioTypes
      <3> QED  BY <3>1, <3>2
    <2> QED  BY <2>1, <2>2 DEF StudioTypes, StudioInv, Unexplained
  <1>5. Paired'
    BY <1>2, <1>3 DEF Paired
  <1> QED  BY <1>2, <1>3, <1>4, <1>5 DEF StudioInv
-----------------------------------------------------------------------------
(* Studio: the theorem. *)

\* The statements of an edit, of an EXPLAIN and of a page.
LEMMA Plans ==
    ASSUME NEW k \in Keys, NEW v \in Nat, NEW by \in {"insert", "update", "delete"}
    PROVE  /\ <<Write(k, by, v)>> \in Seq(Statement) /\ PlanFits("edit", <<Write(k, by, v)>>)
           /\ <<Do("begin"), Write(k, "explain", v), Write(k, "explain", v), Do("rollback")>> \in Seq(Statement)
           /\ PlanFits("explain", <<Do("begin"), Write(k, "explain", v), Write(k, "explain", v), Do("rollback")>>)
           /\ <<Do("page"), Do("count")>> \in Seq(Statement) /\ PlanFits("browse", <<Do("page"), Do("count")>>)
  <1>1. PICK w \in Statement : w = Write(k, by, v) /\ w.do = "write" /\ w.row.by = by
    BY WriteTyped
  <1>2. PICK x \in Statement : x = Write(k, "explain", v) /\ x.do = "write"
    BY WriteTyped
  <1>3. PICK b \in Statement, z \in Statement, p \in Statement, n \in Statement :
           /\ b = Do("begin") /\ z = Do("rollback") /\ p = Do("page") /\ n = Do("count")
           /\ b.do = "begin" /\ z.do = "rollback" /\ p.do = "page" /\ n.do = "count"
    BY StudioTyped
  <1>4. <<w>> \in Seq(Statement) /\ PlanFits("edit", <<w>>)
    BY <1>1 DEF PlanFits
  <1>5. <<p, n>> \in Seq(Statement) /\ PlanFits("browse", <<p, n>>)
    BY <1>3 DEF PlanFits
  <1>6. PICK s : s = <<b, x, x, z>>
    OBVIOUS
  <1>7. s \in Seq(Statement) /\ Len(s) = 4 /\ s[1] = b /\ s[2] = x /\ s[3] = x /\ s[4] = z
    BY <1>6
  <1>8. Explained(b, 3) /\ Explained(x, 2) /\ Explained(x, 1) /\ Explained(z, 0)
    BY <1>2, <1>3 DEF Explained
  <1>9. \A i \in 1..4 : Explained(s[i], 4 - i)
    <2> SUFFICES ASSUME NEW i \in 1..4 PROVE Explained(s[i], 4 - i)
      OBVIOUS
    <2>1. (i = 1 /\ 4 - i = 3) \/ (i = 2 /\ 4 - i = 2) \/ (i = 3 /\ 4 - i = 1) \/ (i = 4 /\ 4 - i = 0)
      OBVIOUS
    <2> QED  BY <1>7, <1>8, <2>1
  <1>10. PlanFits("explain", s)
    BY <1>7, <1>9 DEF PlanFits
  <1> QED  BY <1>1, <1>2, <1>3, <1>4, <1>5, <1>6, <1>7, <1>10

\* A script is what a user may write: statements of a transaction, and rows of its own.
LEMMA ScriptFits ==
    ASSUME NEW script \in Scripts
    PROVE  script \in Seq(Statement) /\ PlanFits("script", script)
  <1>1. script \in Seq(ScriptStatement)
    BY ScriptsAssumption
  <1>2. \A s \in ScriptStatement : s \in Statement /\ (s.do = "write" => s.row.by # "explain")
    BY StudioTyped, WriteTyped, KeysAssumption DEF ScriptStatement
  <1>3. Len(script) \in Nat /\ script \in [1..Len(script) -> ScriptStatement]
    BY <1>1, LenProperties
  <1>4. \A i \in 1..Len(script) : script[i] \in Statement /\ (script[i].do = "write" => script[i].row.by # "explain")
    BY <1>2, <1>3
  <1>5. script \in Seq(Statement)
    BY <1>1, <1>2, <1>3, <1>4
  <1> QED  BY <1>4, <1>5 DEF PlanFits

LEMMA StudioStep ==
    ASSUME StudioInv, [StudioNext]_studioVars
    PROVE  StudioInv'
  <1>0. \A v \in SortValues : v \in Nat
    BY KeysAssumption
  <1>1. ASSUME NEW r \in Requests, NEW k \in Keys, NEW v \in Nat, NEW by \in {"insert", "update", "delete"},
               Edit(r, Write(k, by, v))
        PROVE  StudioInv'
    BY <1>1, Plans, StartsKeeps DEF Edit
  <1>2. ASSUME NEW r \in Requests, NEW k \in Keys, NEW v \in SortValues,
               InsertRow(r, k, v) \/ UpdateRow(r, k, v)
        PROVE  StudioInv'
    BY <1>0, <1>1, <1>2 DEF InsertRow, UpdateRow
  <1>3. ASSUME NEW r \in Requests, NEW k \in Keys, DeleteRow(r, k) PROVE StudioInv'
    BY <1>1, <1>3 DEF DeleteRow
  <1>4. ASSUME NEW r \in Requests, NEW script \in Scripts, RunQuery(r, script) PROVE StudioInv'
    BY <1>4, ScriptFits, StartsKeeps DEF RunQuery
  <1>5. ASSUME NEW r \in Requests, NEW k \in Keys, NEW v \in SortValues, ExplainQuery(r, k, v)
        PROVE  StudioInv'
    <2>1. PICK todo : todo = <<Do("begin"), Write(k, "explain", v), Write(k, "explain", v), Do("rollback")>>
      OBVIOUS
    <2>2. todo \in Seq(Statement) /\ PlanFits("explain", todo)
      BY <1>0, <2>1, Plans
    <2>3. Starts(r, "explain", todo) /\ UNCHANGED <<table, conn, port>>
      BY <1>5, <2>1 DEF ExplainQuery
    <2> QED  BY <2>2, <2>3, StartsKeeps
  <1>6. ASSUME NEW r \in Requests, BrowseTable(r) PROVE StudioInv'
    <2>1. PICK todo : todo = <<Do("page"), Do("count")>>
      OBVIOUS
    <2>2. todo \in Seq(Statement) /\ PlanFits("browse", todo)
      <3>1. PICK p \in Statement, n \in Statement : p = Do("page") /\ n = Do("count") /\ p.do = "page" /\ n.do = "count"
        BY StudioTyped
      <3> QED  BY <2>1, <3>1 DEF PlanFits
    <2>3. Starts(r, "browse", todo) /\ UNCHANGED <<table, conn, port>>
      BY <1>6, <2>1 DEF BrowseTable
    <2> QED  BY <2>2, <2>3, StartsKeeps
  <1>7. ASSUME UNCHANGED <<table, conn, port, asks>> PROVE StudioInv'
    <2>1. conn' \in [Conns -> Client] /\ \A c \in Conns : SameClient(c)
      BY <1>7 DEF StudioInv, StudioTypes, SameClient
    <2> QED  BY <1>7, <2>1, IdleClose
  <1>8. ASSUME NEW o \in BOOLEAN, NEW d \in BOOLEAN, NEW f, OpenView(o, d, f) PROVE StudioInv'
    BY <1>7, <1>8 DEF OpenView
  <1>9. CASE UNCHANGED studioVars
    BY <1>7, <1>9 DEF studioVars
  <1> QED  BY <1>2, <1>3, <1>4, <1>5, <1>6, <1>8, <1>9, ConnectKeeps, ConnectFailsKeeps, SucceedsKeeps,
              FailsKeeps, ReleaseKeeps, ClosesKeeps, EvictKeeps, MovesKeeps DEF StudioNext

\* A client goes back to the pool outside any transaction, unless a user's script left one open on
\* it; an edit that is reported done is committed, unless it ran inside such a transaction; and what
\* EXPLAIN ANALYZE ran is in no committed row, for any number of requests and clients (data/pool.ts,
\* data/query.ts, data/mutate.ts).
THEOREM EditsAreCommitted == StudioSpec => []EditsAreReal
  <1>1. StudioInit => StudioInv
    BY StudioInitHolds
  <1>2. StudioInv /\ [StudioNext]_studioVars => StudioInv'
    BY StudioStep
  <1>3. StudioInv => EditsAreReal
    <2> SUFFICES ASSUME StudioInv PROVE EditsAreReal
      OBVIOUS
    <2>1. \A c \in Conns : conn[c].user = 0 => conn[c].txn = "none" \/ conn[c].leaky
      BY DEF StudioInv, StudioFresh, Closed
    <2>2. \A r \in Requests : asks[r].kind = "edit" /\ asks[r].todo = <<>> /\ asks[r].ok =>
                                asks[r].committed \/ conn[asks[r].conn].leaky
      BY DEF StudioInv, Plan, EditPlan
    <2> QED  BY <2>1, <2>2 DEF EditsAreReal, StudioInv, Unexplained
  <1> QED  BY <1>1, <1>2, <1>3, PTL DEF StudioSpec
-----------------------------------------------------------------------------
(* Studio: sorted rows. *)

\* Row k comes before row l.
Before(rows, desc, k, l) == Precedes(desc, Position(rows, k), Position(rows, l))

\* A place in the order: a sort value and a key.
Place(p) == p[1] \in Nat /\ p[2] \in Nat

LEMMA PrecedesOrders ==
    ASSUME NEW desc \in BOOLEAN, NEW p, NEW q, NEW t, Place(p), Place(q), Place(t)
    PROVE  /\ ~Precedes(desc, p, p)
           /\ Precedes(desc, p, q) => ~Precedes(desc, q, p)
           /\ Precedes(desc, p, q) /\ Precedes(desc, q, t) => Precedes(desc, p, t)
           /\ (p[1] = q[1] /\ p[2] = q[2]) \/ Precedes(desc, p, q) \/ Precedes(desc, q, p)
  BY DEF Precedes, Less, Place

LEMMA PlacesOfRows ==
    ASSUME NEW rows \in [Keys -> Marked], NEW k \in Keys
    PROVE  Place(Position(rows, k)) /\ Position(rows, k)[2] = k
  <1>1. rows[k] \in Marked /\ k \in Nat
    BY KeysAssumption
  <1> QED  BY <1>1 DEF Place, Position, Marked

LEMMA RowsAreOrdered ==
    ASSUME NEW rows \in [Keys -> Marked], NEW desc \in BOOLEAN, NEW k \in Keys, NEW l \in Keys, NEW m \in Keys
    PROVE  /\ ~Before(rows, desc, k, k)
           /\ Before(rows, desc, k, l) => ~Before(rows, desc, l, k)
           /\ Before(rows, desc, k, l) /\ Before(rows, desc, l, m) => Before(rows, desc, k, m)
           /\ k = l \/ Before(rows, desc, k, l) \/ Before(rows, desc, l, k)
  <1>1. /\ Place(Position(rows, k)) /\ Position(rows, k)[2] = k
        /\ Place(Position(rows, l)) /\ Position(rows, l)[2] = l
        /\ Place(Position(rows, m))
    BY PlacesOfRows
  <1> QED  BY <1>1, PrecedesOrders DEF Before

\* A function that takes no value twice takes every value, if there are as many.
OneToOne(f, S) == \A x, y \in S : f[x] = f[y] => x = y

LEMMA OneToOneIsOnto ==
    ASSUME NEW S, NEW T, IsFiniteSet(S), IsFiniteSet(T), Cardinality(S) = Cardinality(T),
           NEW f \in [S -> T], OneToOne(f, S), NEW t \in T
    PROVE  \E x \in S : f[x] = t
  <1>1. SUFFICES ASSUME \A x \in S : f[x] # t PROVE FALSE
    OBVIOUS
  <1>2. IsFiniteSet(T \ {t}) /\ Cardinality(T \ {t}) = Cardinality(T) - 1
    BY FS_RemoveElement
  <1>3. Cardinality(T) \in Nat /\ Cardinality(T \ {t}) < Cardinality(S)
    BY <1>2, FS_CardinalityType
  <1>4. f \in [S -> T \ {t}]
    BY <1>1
  <1> QED  BY <1>2, <1>3, <1>4, FS_PigeonHole DEF OneToOne

LEMMA KeysFinite == ASSUME NEW S \in SUBSET Keys PROVE IsFiniteSet(S) /\ Cardinality(S) \in Nat
  BY KeysAssumption, FS_Subset, FS_CardinalityType

\* The rows of S that come before k.
Below(rows, desc, S, k) == {l \in S : Before(rows, desc, l, k)}

LEMMA Ranks ==
    ASSUME NEW rows \in [Keys -> Marked], NEW desc \in BOOLEAN, NEW S \in SUBSET Keys, NEW k \in S
    PROVE  /\ Cardinality(Below(rows, desc, S, k)) + 1 \in 1..Cardinality(S)
           /\ \A l \in S : Before(rows, desc, k, l) =>
                  Cardinality(Below(rows, desc, S, k)) < Cardinality(Below(rows, desc, S, l))
  <1>1. \A l \in S : /\ Below(rows, desc, S, l) \in SUBSET S /\ IsFiniteSet(Below(rows, desc, S, l))
                     /\ Cardinality(Below(rows, desc, S, l)) \in Nat
    <2> SUFFICES ASSUME NEW l \in S
                 PROVE  /\ Below(rows, desc, S, l) \in SUBSET S /\ IsFiniteSet(Below(rows, desc, S, l))
                        /\ Cardinality(Below(rows, desc, S, l)) \in Nat
      OBVIOUS
    <2>1. Below(rows, desc, S, l) \in SUBSET S
      BY DEF Below
    <2> QED  BY <2>1, KeysFinite
  <1>2. Cardinality(Below(rows, desc, S, k)) < Cardinality(S)
    <2>1. k \notin Below(rows, desc, S, k)
      BY RowsAreOrdered DEF Below
    <2>2. Below(rows, desc, S, k) # S
      BY <2>1
    <2>3. IsFiniteSet(S) /\ Cardinality(S) \in Nat
      BY KeysFinite
    <2>4. Cardinality(Below(rows, desc, S, k)) <= Cardinality(S)
          /\ (Cardinality(S) = Cardinality(Below(rows, desc, S, k)) => S = Below(rows, desc, S, k))
      BY <1>1, <2>3, FS_Subset
    <2> QED  BY <1>1, <2>2, <2>3, <2>4
  <1>3. ASSUME NEW l \in S, Before(rows, desc, k, l)
        PROVE  Cardinality(Below(rows, desc, S, k)) < Cardinality(Below(rows, desc, S, l))
    <2>1. \A m \in Below(rows, desc, S, k) : m \in Below(rows, desc, S, l)
      BY <1>3, RowsAreOrdered DEF Below
    <2>2. k \in Below(rows, desc, S, l) /\ k \notin Below(rows, desc, S, k)
      BY <1>3, RowsAreOrdered DEF Below
    <2>3. Below(rows, desc, S, k) \in SUBSET Below(rows, desc, S, l) /\ Below(rows, desc, S, k) # Below(rows, desc, S, l)
      BY <2>1, <2>2
    <2>4. Cardinality(Below(rows, desc, S, k)) <= Cardinality(Below(rows, desc, S, l))
          /\ (Cardinality(Below(rows, desc, S, l)) = Cardinality(Below(rows, desc, S, k))
                => Below(rows, desc, S, l) = Below(rows, desc, S, k))
      BY <1>1, <2>3, FS_Subset
    <2> QED  BY <1>1, <2>3, <2>4
  <1> QED  BY <1>1, <1>2, <1>3, KeysFinite

\* What Sorted() is to return.
SortedBy(s, rows, desc, S) ==
    /\ s \in [1..Cardinality(S) -> S]
    /\ \A i, j \in 1..Cardinality(S) : i < j => Before(rows, desc, s[i], s[j])

LEMMA SomeSorted ==
    ASSUME NEW rows \in [Keys -> Marked], NEW desc \in BOOLEAN, NEW S \in SUBSET Keys
    PROVE  \E s : SortedBy(s, rows, desc, S)
  <1> DEFINE n == Cardinality(S)
             Rank(k) == Cardinality(Below(rows, desc, S, k)) + 1
  <1>1. PICK rank : rank = [k \in S |-> Rank(k)]
    OBVIOUS
  <1>2. IsFiniteSet(S) /\ n \in Nat /\ IsFiniteSet(1..n) /\ Cardinality(1..n) = n
    <2>1. IsFiniteSet(S) /\ n \in Nat
      BY KeysFinite
    <2> QED  BY <2>1, FS_Interval
  <1>3. /\ \A k \in S : rank[k] = Rank(k) /\ rank[k] \in 1..n
        /\ \A k, l \in S : Before(rows, desc, k, l) => rank[k] < rank[l]
    <2>1. \A k \in S : rank[k] = Rank(k)
      BY <1>1
    <2>2. ASSUME NEW k \in S PROVE Rank(k) \in 1..n
      BY <2>2, Ranks
    <2>3. ASSUME NEW k \in S, NEW l \in S, Before(rows, desc, k, l) PROVE Rank(k) < Rank(l)
      <3>1. Cardinality(Below(rows, desc, S, k)) < Cardinality(Below(rows, desc, S, l))
        BY <2>3, Ranks
      <3>2. Cardinality(Below(rows, desc, S, k)) + 1 \in Int /\ Cardinality(Below(rows, desc, S, l)) + 1 \in Int
        BY <1>2, Ranks
      <3> QED  BY <3>1, <3>2, KeysFinite DEF Below
    <2> QED  BY <2>1, <2>2, <2>3
  <1>4. rank \in [S -> 1..n]
    BY <1>1, <1>3
  <1>5. \A k, l \in S : rank[k] = rank[l] => k = l
    <2> SUFFICES ASSUME NEW k \in S, NEW l \in S, rank[k] = rank[l], k # l PROVE FALSE
      OBVIOUS
    <2>1. Before(rows, desc, k, l) \/ Before(rows, desc, l, k)
      BY RowsAreOrdered
    <2> QED  BY <1>2, <1>3, <2>1
  <1>6. \A i \in 1..n : \E k \in S : rank[k] = i
    <2>1. OneToOne(rank, S)
      BY <1>5 DEF OneToOne
    <2>2. PICK T : T = 1..n
      OBVIOUS
    <2>3. IsFiniteSet(S) /\ IsFiniteSet(T) /\ Cardinality(S) = Cardinality(T) /\ rank \in [S -> T]
      BY <1>2, <1>4, <2>2
    <2>4. \A i \in T : \E k \in S : rank[k] = i
      BY <2>1, <2>3, OneToOneIsOnto
    <2> QED  BY <2>2, <2>4
  <1>7. PICK s : s = [i \in 1..n |-> CHOOSE k \in S : rank[k] = i]
    OBVIOUS
  <1>8. \A i \in 1..n : s[i] \in S /\ rank[s[i]] = i
    BY <1>6, <1>7
  <1>9. s \in [1..n -> S]
    BY <1>7, <1>8
  <1>10. ASSUME NEW i \in 1..n, NEW j \in 1..n, i < j PROVE Before(rows, desc, s[i], s[j])
    <2>1. s[i] # s[j] /\ ~(rank[s[j]] < rank[s[i]]) /\ s[i] \in S /\ s[j] \in S
      BY <1>2, <1>8, <1>10
    <2>2. ~Before(rows, desc, s[j], s[i])
      BY <1>3, <2>1
    <2> QED  BY <2>1, <2>2, RowsAreOrdered
  <1> QED  BY <1>9, <1>10 DEF SortedBy

\* Every row of S once, in order.
Listed(s, rows, desc, S) ==
    /\ s \in Seq(Keys) /\ Len(s) = Cardinality(S) /\ Len(s) \in Nat
    /\ \A i \in 1..Len(s) : s[i] \in S
    /\ \A i, j \in 1..Len(s) : i < j => Before(rows, desc, s[i], s[j])
    /\ \A i, j \in 1..Len(s) : s[i] = s[j] => i = j
    /\ \A k \in S : \E i \in 1..Len(s) : s[i] = k

LEMMA SortedRows ==
    ASSUME NEW rows \in [Keys -> Marked], NEW desc \in BOOLEAN, NEW S \in SUBSET Keys
    PROVE  Listed(Sorted(rows, desc, S), rows, desc, S)
  <1>0. PICK s : s = Sorted(rows, desc, S)
    OBVIOUS
  <1> DEFINE n == Cardinality(S)
  <1>1. IsFiniteSet(S) /\ n \in Nat /\ IsFiniteSet(1..n) /\ Cardinality(1..n) = n
    <2>1. IsFiniteSet(S) /\ n \in Nat
      BY KeysFinite
    <2> QED  BY <2>1, FS_Interval
  <1>2. SortedBy(s, rows, desc, S)
    <2> DEFINE Ordered(x) == \A i, j \in DOMAIN x : i < j => Precedes(desc, Position(rows, x[i]), Position(rows, x[j]))
    <2>1. s = CHOOSE x \in [1..n -> S] : Ordered(x)
      BY <1>0 DEF Sorted
    <2>2. PICK x : SortedBy(x, rows, desc, S)
      BY SomeSorted
    <2>3. x \in [1..n -> S] /\ Ordered(x)
      BY <2>2 DEF SortedBy, Before
    <2> HIDE DEF Ordered
    <2>4. s \in [1..n -> S] /\ Ordered(s)
      BY <2>1, <2>3
    <2> USE DEF Ordered
    <2> QED  BY <2>4 DEF SortedBy, Before
  <1>3. s \in [1..n -> S] /\ \A i, j \in 1..n : i < j => Before(rows, desc, s[i], s[j])
    BY <1>2 DEF SortedBy
  <1>4. s \in Seq(S) /\ Len(s) = n
    BY <1>1, <1>3
  <1>5. \A i, j \in 1..n : s[i] = s[j] => i = j
    <2> SUFFICES ASSUME NEW i \in 1..n, NEW j \in 1..n, s[i] = s[j], i < j PROVE FALSE
      BY <1>1
    <2>1. Before(rows, desc, s[i], s[j]) /\ s[i] \in Keys
      BY <1>3
    <2> QED  BY <2>1, RowsAreOrdered
  <1>6. \A k \in S : \E i \in 1..n : s[i] = k
    <2>1. OneToOne(s, 1..n)
      BY <1>5 DEF OneToOne
    <2>2. Cardinality(1..n) = Cardinality(S)
      BY <1>1
    <2> HIDE DEF n
    <2> QED  BY <1>1, <1>3, <2>1, <2>2, OneToOneIsOnto
  <1>7. s \in Seq(Keys)
    BY <1>4, SeqMonotonic
  <1> QED  BY <1>0, <1>1, <1>3, <1>4, <1>5, <1>6, <1>7 DEF Listed
-----------------------------------------------------------------------------
(* Studio: the view of a user who pages through the table. *)

View == [on : BOOLEAN, offset : BOOLEAN, desc : BOOLEAN, filter : SUBSET SortValues, cursor : Seq(Nat),
         more : BOOLEAN, shown : Seq(Keys), steady : SUBSET Keys, still : BOOLEAN, total : Nat]

\* The rows that fit the filters of v, when the table is t.
Fitting(v, t) == {k \in Keys : t[k] # Absent /\ t[k].v \in v.filter}

\* Row k is behind the cursor; it is shown once, or not at all.
Covered(v, t, k) == v.more => v.cursor # <<>> /\ ~Precedes(v.desc, v.cursor, Position(t, k))
Once(s, k) == \E i \in 1..Len(s) : s[i] = k /\ \A j \in 1..Len(s) : s[j] = k => j = i
Never(s, k) == \A i \in 1..Len(s) : s[i] # k

OffsetAt(v) == IF v.cursor = <<>> THEN 0 ELSE v.cursor[1]

\* The steady rows fit, and are all that fit while nothing changes.
SteadyOk(v, t) ==
    /\ \A k \in v.steady : t[k] # Absent /\ t[k].v \in v.filter
    /\ v.still => v.steady = Fitting(v, t)

\* The cursor is a place in the order, or a number of rows.
CursorOk(v) == v.cursor # <<>> => v.cursor[1] \in Nat /\ (v.offset \/ v.cursor[2] \in Nat)

\* By key: a steady row is shown exactly once if it is behind the cursor, else not yet; while
\* nothing changes no other row is shown.
KeyOk(v, t) ==
    ~v.offset =>
        /\ \A k \in v.steady : IF Covered(v, t, k) THEN Once(v.shown, k) ELSE Never(v.shown, k)
        /\ v.still => \A i \in 1..Len(v.shown) : v.shown[i] \in v.steady

\* By offset, while nothing changes: what is shown are the first rows, as many as the offset says.
OffsetOk(v, t) ==
    v.offset /\ v.still =>
        /\ Len(v.shown) = IF v.more THEN OffsetAt(v) ELSE Cardinality(v.steady)
        /\ Len(v.shown) <= Cardinality(v.steady)
        /\ \A i \in 1..Len(v.shown) : v.shown[i] = Sorted(t, v.desc, v.steady)[i]

TotalOk(v) == v.still /\ v.total # 0 => v.total = Cardinality(v.steady)

ViewOk(v, t) == v \in View /\ SteadyOk(v, t) /\ CursorOk(v) /\ KeyOk(v, t) /\ OffsetOk(v, t) /\ TotalOk(v)

LEMMA TuplesAreNotEmpty == (\A a : <<a>> # <<>>) /\ (\A a, b : <<a, b>> # <<>>)
  <1>1. \A a : Len(<<a>>) = 1 /\ Len(<<>>) = 0
    OBVIOUS
  <1>2. \A a, b : Len(<<a, b>>) = 2
    OBVIOUS
  <1> QED  BY <1>1, <1>2

\* The table changes, and fewer rows are steady.
LEMMA ViewShrinks ==
    ASSUME NEW v, NEW t, ViewOk(v, t), NEW w \in View, NEW u,
           w.offset = v.offset, w.desc = v.desc, w.filter = v.filter, w.cursor = v.cursor, w.more = v.more,
           w.shown = v.shown, w.total = v.total,
           \A k \in w.steady : k \in v.steady /\ u[k] = t[k],
           w.still => v.still /\ u = t /\ w.steady = v.steady
    PROVE  ViewOk(w, u)
  <1>1. SteadyOk(w, u)
    BY DEF ViewOk, SteadyOk, Fitting
  <1>2. CursorOk(w) /\ TotalOk(w)
    BY DEF ViewOk, CursorOk, TotalOk
  <1>3. KeyOk(w, u)
    <2>1. \A k \in w.steady : Covered(w, u, k) <=> Covered(v, t, k)
      BY DEF Covered, Position
    <2> QED  BY <2>1 DEF ViewOk, KeyOk
  <1>4. OffsetOk(w, u)
    BY DEF ViewOk, OffsetOk, OffsetAt
  <1> QED  BY <1>1, <1>2, <1>3, <1>4 DEF ViewOk

\* The rows of the next page, when the client reads the table as rows.
AheadOf(v, rows) ==
    IF v.offset
    THEN SubSeq(Sorted(rows, v.desc, Fitting(v, rows)), OffsetAt(v) + 1, Len(Sorted(rows, v.desc, Fitting(v, rows))))
    ELSE Sorted(rows, v.desc, {k \in Fitting(v, rows) : v.cursor = <<>> \/ Precedes(v.desc, v.cursor, Position(rows, k))})

\* A page by key.
LEMMA KeyPage ==
    ASSUME NEW v, NEW t \in [Keys -> Marked], ViewOk(v, t), v.more, ~v.offset,
           NEW rows \in [Keys -> Marked], NEW w \in View, NEW ahead, NEW m,
           ahead = AheadOf(v, rows), m = IF Len(ahead) > Limit THEN Limit ELSE Len(ahead),
           w.offset = v.offset, w.desc = v.desc, w.filter = v.filter, w.total = v.total,
           w.shown = v.shown \o SubSeq(ahead, 1, m), w.more <=> Len(ahead) > Limit,
           w.more => w.cursor = Position(rows, ahead[m]),
           \A k \in w.steady : k \in v.steady /\ rows[k] = t[k],
           w.still => v.still /\ rows = t /\ w.steady = v.steady
    PROVE  /\ KeyOk(w, t)
           /\ w.more => w.cursor # <<>> /\ Place(w.cursor)
  <1> DEFINE beyond == {k \in Fitting(v, rows) : v.cursor = <<>> \/ Precedes(v.desc, v.cursor, Position(rows, k))}
             n == Len(ahead)
             page == SubSeq(ahead, 1, m)
             l == Len(v.shown)
  <1>1. /\ v \in View /\ v.desc \in BOOLEAN /\ v.shown \in Seq(Keys) /\ l \in Nat
        /\ \A i \in 1..l : v.shown[i] \in Keys
    BY DEF ViewOk, View
  <1>2. beyond \in SUBSET Keys /\ ahead = Sorted(rows, v.desc, beyond)
    BY DEF AheadOf, Fitting
  <1>3. /\ ahead \in Seq(Keys) /\ n \in Nat
        /\ \A i \in 1..n : ahead[i] \in beyond
        /\ \A i, j \in 1..n : i < j => Before(rows, v.desc, ahead[i], ahead[j])
        /\ \A i, j \in 1..n : ahead[i] = ahead[j] => i = j
        /\ \A k \in beyond : \E i \in 1..n : ahead[i] = k
    <2>1. Listed(ahead, rows, v.desc, beyond)
      BY <1>1, <1>2, SortedRows
    <2> QED  BY <2>1 DEF Listed
  <1>4. m \in Nat /\ m <= n /\ (w.more => m = Limit /\ m < n /\ m >= 1) /\ (~w.more => m = n)
    BY <1>3, LimitAssumption
  <1>5. page \in Seq(Keys) /\ Len(page) = m /\ \A i \in 1..m : page[i] = ahead[i]
    <2>1. \A i \in 1..m : ahead[i] \in Keys
      BY <1>2, <1>3, <1>4
    <2> QED  BY <1>4, <2>1, SubSeqProperties
  <1>6. /\ Len(w.shown) = l + m
        /\ \A i \in 1..l : w.shown[i] = v.shown[i]
        /\ \A i \in 1..m : w.shown[l + i] = ahead[i]
        /\ \A i \in 1..(l + m) : i \notin 1..l => i - l \in 1..m /\ w.shown[i] = ahead[i - l]
    <2>1. /\ Len(v.shown \o page) = l + m
          /\ \A i \in 1..(l + m) : (v.shown \o page)[i] = IF i <= l THEN v.shown[i] ELSE page[i - l]
      BY <1>1, <1>5, ConcatProperties
    <2>2. w.shown = v.shown \o page
      OBVIOUS
    <2> HIDE DEF page
    <2>3. Len(w.shown) = l + m /\ \A i \in 1..(l + m) : w.shown[i] = IF i <= l THEN v.shown[i] ELSE page[i - l]
      BY <2>1, <2>2
    <2>4. ASSUME NEW i \in 1..l PROVE w.shown[i] = v.shown[i]
      <3>1. i \in 1..(l + m) /\ i <= l
        <4>1. l \in Nat /\ m \in Nat
          BY <1>1, <1>4
        <4> HIDE DEF l
        <4> QED  BY <2>4, <4>1
      <3> QED  BY <2>3, <3>1
    <2>5. ASSUME NEW i \in 1..m PROVE w.shown[l + i] = ahead[i]
      <3>1. l + i \in 1..(l + m) /\ ~(l + i <= l) /\ (l + i) - l = i
        <4>1. l \in Nat /\ m \in Nat
          BY <1>1, <1>4
        <4> HIDE DEF l
        <4> QED  BY <2>5, <4>1
      <3> QED  BY <1>5, <2>3, <3>1
    <2>6. ASSUME NEW i \in 1..(l + m), i \notin 1..l PROVE i - l \in 1..m /\ w.shown[i] = ahead[i - l]
      <3>1. ~(i <= l) /\ i - l \in 1..m
        BY <1>1, <1>4, <2>6
      <3> QED  BY <1>5, <2>3, <3>1
    <2> QED  BY <2>3, <2>4, <2>5, <2>6
  <1> HIDE DEF beyond, page
  <1>7. w.more => /\ ahead[m] \in beyond /\ ahead[m] \in Keys /\ m \in 1..n
                  /\ w.cursor = Position(rows, ahead[m]) /\ w.cursor # <<>> /\ Place(w.cursor)
    <2> SUFFICES ASSUME w.more
                 PROVE  /\ ahead[m] \in beyond /\ ahead[m] \in Keys /\ m \in 1..n
                        /\ w.cursor = Position(rows, ahead[m]) /\ w.cursor # <<>> /\ Place(w.cursor)
      OBVIOUS
    <2>1. m \in 1..n /\ ahead[m] \in beyond /\ ahead[m] \in Keys
      BY <1>2, <1>3, <1>4
    <2>2. Position(rows, ahead[m]) # <<>>
      BY TuplesAreNotEmpty DEF Position
    <2> QED  BY <2>1, <2>2, PlacesOfRows
  <1>8. ASSUME NEW k \in w.steady PROVE IF Covered(w, t, k) THEN Once(w.shown, k) ELSE Never(w.shown, k)
    <2>1. /\ k \in v.steady /\ k \in Keys /\ rows[k] = t[k] /\ Position(rows, k) = Position(t, k)
          /\ Place(Position(t, k))
      BY <1>1, PlacesOfRows DEF View, Position
    <2>2. k \in Fitting(v, rows)
      BY <2>1 DEF ViewOk, SteadyOk, Fitting
    <2>3. CASE Covered(v, t, k)
      <3>1. v.cursor # <<>> /\ ~Precedes(v.desc, v.cursor, Position(t, k)) /\ Once(v.shown, k) /\ Place(v.cursor)
        BY <2>1, <2>3 DEF Covered, ViewOk, KeyOk, CursorOk, Place
      <3>2. k \notin beyond
        BY <2>1, <3>1 DEF beyond
      <3>3. \A i \in 1..n : ahead[i] # k
        BY <1>3, <3>2
      <3>4. Once(w.shown, k)
        <4>1. PICK i \in 1..l : v.shown[i] = k /\ \A j \in 1..l : v.shown[j] = k => j = i
          BY <3>1 DEF Once
        <4>2. i \in 1..(l + m) /\ w.shown[i] = k
          <5>1. i \in 1..l /\ i \in 1..(l + m)
            BY <1>1, <1>4, <4>1
          <5> QED  BY <1>6, <4>1, <5>1
        <4>3. ASSUME NEW j \in 1..(l + m), w.shown[j] = k PROVE j = i
          <5>1. CASE j \in 1..l
            BY <1>6, <4>1, <4>3, <5>1
          <5>2. CASE j \notin 1..l
            <6>1. j - l \in 1..m /\ w.shown[j] = ahead[j - l]
              BY <1>6, <5>2
            <6> QED  BY <1>4, <3>3, <4>3, <6>1
          <5> QED  BY <5>1, <5>2
        <4> QED  BY <1>6, <4>2, <4>3 DEF Once
      <3>5. Covered(w, t, k)
        <4> SUFFICES ASSUME w.more, Precedes(v.desc, w.cursor, Position(t, k)) PROVE FALSE
          BY <1>7 DEF Covered
        <4>1. Precedes(v.desc, v.cursor, w.cursor)
          BY <1>7, <3>1 DEF beyond
        <4> QED  BY <1>1, <1>7, <2>1, <3>1, <4>1, PrecedesOrders
      <3> QED  BY <3>4, <3>5
    <2>4. CASE ~Covered(v, t, k)
      <3>1. k \in beyond /\ Never(v.shown, k)
        BY <2>1, <2>2, <2>4 DEF Covered, ViewOk, KeyOk, beyond
      <3>2. PICK i \in 1..n : ahead[i] = k
        BY <1>3, <3>1
      <3>3. CASE i <= m
        <4>1. l + i \in 1..(l + m) /\ w.shown[l + i] = k /\ i \in 1..m
          BY <1>1, <1>4, <1>6, <3>2, <3>3
        <4>2. ASSUME NEW j \in 1..(l + m), w.shown[j] = k PROVE j = l + i
          <5>1. j \notin 1..l
            BY <1>6, <3>1, <4>2 DEF Never
          <5>2. j - l \in 1..m /\ ahead[j - l] = k
            BY <1>6, <4>2, <5>1
          <5>3. j - l \in 1..n
            BY <1>3, <1>4, <5>2
          <5>4. PICK x \in 1..n : x = j - l /\ ahead[x] = ahead[i]
            BY <3>2, <5>2, <5>3
          <5>5. x = i
            BY <1>3, <5>4
          <5> QED  BY <1>1, <5>4, <5>5
        <4>3. Once(w.shown, k)
          BY <1>6, <4>1, <4>2 DEF Once
        <4>4. Covered(w, t, k)
          <5> SUFFICES ASSUME w.more PROVE ~Precedes(v.desc, w.cursor, Position(t, k))
            BY <1>7 DEF Covered
          <5>1. i = m \/ Before(rows, v.desc, ahead[i], ahead[m])
            BY <1>3, <1>4, <1>7, <3>2, <3>3
          <5>2. PICK e \in Keys, desc \in BOOLEAN : e = ahead[m] /\ desc = v.desc /\ (k = e \/ Before(rows, desc, k, e))
            BY <1>1, <1>7, <3>2, <5>1
          <5>3. ~Before(rows, desc, e, k)
            <6>1. k \in Keys
              BY <2>1
            <6>2. ~Before(rows, desc, e, e) /\ (Before(rows, desc, k, e) => ~Before(rows, desc, e, k))
              BY <6>1, RowsAreOrdered
            <6> QED  BY <5>2, <6>2
          <5> QED  BY <1>7, <2>1, <5>2, <5>3 DEF Before
        <4> QED  BY <4>3, <4>4
      <3>4. CASE ~(i <= m)
        <4>1. w.more /\ m < i
          BY <1>3, <1>4, <3>2, <3>4
        <4>2. Before(rows, v.desc, ahead[m], k)
          BY <1>3, <1>7, <3>2, <4>1
        <4>3. ~Covered(w, t, k)
          BY <1>7, <2>1, <4>1, <4>2 DEF Covered, Before
        <4>4. Never(w.shown, k)
          <5> SUFFICES ASSUME NEW j \in 1..(l + m), w.shown[j] = k PROVE FALSE
            BY <1>6 DEF Never
          <5>1. j \notin 1..l
            BY <1>6, <3>1 DEF Never
          <5>2. j - l \in 1..m /\ ahead[j - l] = k
            BY <1>6, <5>1
          <5>3. j - l \in 1..n
            BY <1>3, <1>4, <5>2
          <5>4. PICK x \in 1..n : x = j - l /\ ahead[x] = ahead[i]
            BY <3>2, <5>2, <5>3
          <5>5. x = i
            BY <1>3, <5>4
          <5> QED  BY <1>4, <3>4, <5>2, <5>4, <5>5
        <4> QED  BY <4>3, <4>4
      <3> QED  BY <3>3, <3>4
    <2> QED  BY <2>3, <2>4
  <1>9. ASSUME w.still, NEW i \in 1..Len(w.shown) PROVE w.shown[i] \in w.steady
    <2>1. v.still /\ rows = t /\ w.steady = v.steady /\ v.steady = Fitting(v, rows)
      BY <1>9 DEF ViewOk, SteadyOk
    <2>2. CASE i \in 1..l
      BY <1>6, <2>1, <2>2 DEF ViewOk, KeyOk
    <2>3. CASE i \notin 1..l
      <3>1. i - l \in 1..m /\ w.shown[i] = ahead[i - l]
        BY <1>6, <1>9, <2>3
      <3>2. ahead[i - l] \in beyond
        BY <1>3, <1>4, <3>1
      <3> QED  BY <2>1, <3>1, <3>2 DEF beyond
    <2> QED  BY <2>2, <2>3
  <1>10. KeyOk(w, t)
    BY <1>8, <1>9 DEF KeyOk
  <1> QED  BY <1>7, <1>10

\* A page by offset: a sequence of keys, and while nothing changes the next rows.
LEMMA OffsetPage ==
    ASSUME NEW v, NEW t \in [Keys -> Marked], ViewOk(v, t), v.more, v.offset,
           NEW rows \in [Keys -> Marked], NEW w \in View, NEW ahead, NEW m,
           ahead = AheadOf(v, rows), m = IF Len(ahead) > Limit THEN Limit ELSE Len(ahead),
           w.offset = v.offset, w.desc = v.desc, w.filter = v.filter,
           w.shown = v.shown \o SubSeq(ahead, 1, m), w.more <=> Len(ahead) > Limit,
           w.more => w.cursor = <<OffsetAt(v) + Limit>>,
           w.still => v.still /\ rows = t /\ w.steady = v.steady
    PROVE  OffsetOk(w, t)
  <1> DEFINE all == Sorted(rows, v.desc, Fitting(v, rows))
             n == Len(all)
             s == OffsetAt(v)
             page == SubSeq(ahead, 1, m)
  <1> SUFFICES ASSUME w.still PROVE OffsetOk(w, t)
    BY DEF OffsetOk
  <1>1. /\ v \in View /\ v.desc \in BOOLEAN /\ v.shown \in Seq(Keys) /\ v.still /\ rows = t
        /\ w.steady = v.steady /\ v.steady = Fitting(v, rows) /\ Fitting(v, rows) \in SUBSET Keys
    BY DEF ViewOk, View, SteadyOk, Fitting
  <1>2. all \in Seq(Keys) /\ n \in Nat /\ n = Cardinality(v.steady) /\ \A i \in 1..n : all[i] \in Keys
    <2>1. all \in Seq(Keys) /\ n \in Nat /\ n = Cardinality(Fitting(v, rows))
      BY <1>1, SortedRows DEF Listed
    <2> QED  BY <1>1, <2>1
  <1>3. ahead = SubSeq(all, s + 1, n) /\ all = Sorted(t, v.desc, v.steady)
    BY <1>1 DEF AheadOf
  <1> HIDE DEF all
  <1>4. /\ s \in Nat /\ Len(v.shown) = s /\ s <= n
        /\ \A i \in 1..s : v.shown[i] = all[i]
    <2>1. s \in Nat
      BY DEF ViewOk, CursorOk, OffsetAt
    <2> QED  BY <1>1, <1>2, <1>3, <2>1 DEF ViewOk, OffsetOk
  <1>5. ahead \in Seq(Keys) /\ Len(ahead) = n - s /\ \A i \in 1..(n - s) : ahead[i] = all[s + i]
    <2>1. \A i \in (s + 1)..n : all[i] \in Keys
      BY <1>2, <1>4
    <2>2. /\ SubSeq(all, s + 1, n) \in Seq(Keys)
          /\ Len(SubSeq(all, s + 1, n)) = IF s + 1 <= n THEN n - (s + 1) + 1 ELSE 0
          /\ \A i \in 1..(n - (s + 1) + 1) : SubSeq(all, s + 1, n)[i] = all[(s + 1) + i - 1]
      BY <1>2, <1>4, <2>1, SubSeqProperties
    <2>3. \A i \in 1..(n - s) : i \in 1..(n - (s + 1) + 1) /\ (s + 1) + i - 1 = s + i
      BY <1>2, <1>4
    <2> QED  BY <1>2, <1>3, <1>4, <2>2, <2>3
  <1>6. /\ m \in Nat /\ m <= n - s /\ s + m <= n
        /\ (w.more => m = Limit /\ m < n - s) /\ (~w.more => m = n - s /\ s + m = n)
    BY <1>2, <1>4, <1>5, LimitAssumption
  <1>7. page \in Seq(Keys) /\ Len(page) = m /\ \A i \in 1..m : page[i] = all[s + i]
    <2>1. \A i \in 1..m : ahead[i] \in Keys /\ i \in 1..(n - s)
      <3> SUFFICES ASSUME NEW i \in 1..m PROVE ahead[i] \in Keys /\ i \in 1..(n - s)
        OBVIOUS
      <3>1. i \in 1..(n - s)
        BY <1>2, <1>4, <1>6
      <3> QED  BY <1>5, <3>1, ElementOfSeq
    <2>2. /\ page \in Seq(Keys) /\ Len(page) = m /\ \A i \in 1..m : page[i] = ahead[i]
      BY <1>6, <2>1, SubSeqProperties
    <2> QED  BY <1>5, <2>1, <2>2
  <1>8. /\ Len(w.shown) = s + m
        /\ \A i \in 1..(s + m) : w.shown[i] = all[i]
    <2>1. /\ Len(v.shown \o page) = s + m
          /\ \A i \in 1..(s + m) : (v.shown \o page)[i] = IF i <= s THEN v.shown[i] ELSE page[i - s]
      <3> HIDE DEF s, page
      <3>1. PICK a \in Seq(Keys), b \in Seq(Keys) : a = v.shown /\ b = page
        BY <1>1, <1>7
      <3>2. /\ Len(a \o b) = Len(a) + Len(b)
            /\ \A i \in 1..(Len(a) + Len(b)) : (a \o b)[i] = IF i <= Len(a) THEN a[i] ELSE b[i - Len(a)]
        BY ConcatProperties
      <3> QED  BY <1>4, <1>7, <3>1, <3>2
    <2>2. w.shown = v.shown \o page
      OBVIOUS
    <2> HIDE DEF page
    <2>3. ASSUME NEW i \in 1..(s + m) PROVE w.shown[i] = all[i]
      <3>1. CASE i <= s
        <4>1. i \in 1..s
          BY <1>4, <1>6, <3>1
        <4> QED  BY <1>4, <2>1, <2>2, <3>1, <4>1
      <3>2. CASE ~(i <= s)
        <4>1. i - s \in 1..m /\ s + (i - s) = i
          BY <1>4, <1>6, <3>2
        <4> QED  BY <1>7, <2>1, <2>2, <3>2, <4>1
      <3> QED  BY <3>1, <3>2
    <2> QED  BY <2>1, <2>2, <2>3
  <1> HIDE DEF s, n, page
  <1>9. Len(w.shown) = IF w.more THEN OffsetAt(w) ELSE Cardinality(w.steady)
    <2>1. CASE w.more
      <3>1. w.cursor = <<s + Limit>>
        BY <2>1 DEF s
      <3>2. OffsetAt(w) = s + Limit
        BY <3>1, TuplesAreNotEmpty DEF OffsetAt
      <3> QED  BY <1>6, <1>8, <2>1, <3>2
    <2>2. CASE ~w.more
      <3>1. Cardinality(w.steady) = n /\ Len(w.shown) = s + m /\ m = n - s
        BY <1>1, <1>2, <1>6, <1>8, <2>2
      <3>2. s + m = n
        BY <1>6, <2>2
      <3>3. Len(w.shown) = Cardinality(w.steady)
        BY <3>1, <3>2
      <3> QED  BY <2>2, <3>3
    <2> QED  BY <2>1, <2>2
  <1>10. Len(w.shown) <= Cardinality(w.steady)
    <2>1. Cardinality(w.steady) = n /\ Len(w.shown) = s + m
      BY <1>1, <1>2, <1>8
    <2>2. s + m <= n
      BY <1>6
    <2> QED  BY <2>1, <2>2
  <1>11. \A i \in 1..Len(w.shown) : w.shown[i] = Sorted(t, w.desc, w.steady)[i]
    BY <1>1, <1>3, <1>8
  <1> QED  BY <1>9, <1>10, <1>11 DEF OffsetOk

\* A page keeps everything.
LEMMA PageKeeps ==
    ASSUME NEW v, NEW t \in [Keys -> Marked], ViewOk(v, t), v.more,
           NEW rows \in [Keys -> Marked], NEW w \in View, NEW ahead, NEW m,
           ahead = AheadOf(v, rows), m = IF Len(ahead) > Limit THEN Limit ELSE Len(ahead),
           w.offset = v.offset, w.desc = v.desc, w.filter = v.filter, w.total = v.total,
           w.shown = v.shown \o SubSeq(ahead, 1, m), w.more <=> Len(ahead) > Limit,
           w.cursor = IF ~w.more THEN <<>> ELSE IF v.offset THEN <<OffsetAt(v) + Limit>> ELSE Position(rows, ahead[m]),
           \A k \in w.steady : k \in v.steady /\ rows[k] = t[k],
           w.still => v.still /\ rows = t /\ w.steady = v.steady
    PROVE  ViewOk(w, t)
  <1>1. SteadyOk(w, t)
    BY DEF ViewOk, SteadyOk, Fitting
  <1>2. TotalOk(w)
    BY DEF ViewOk, TotalOk
  <1>3. w.more \in BOOLEAN /\ v.offset \in BOOLEAN /\ w.offset \in BOOLEAN
    BY DEF ViewOk, View
  <1>4. CASE v.offset
    <2>1. OffsetOk(w, t)
      BY <1>4, OffsetPage
    <2>2. OffsetAt(v) + Limit \in Nat
      BY <1>4, LimitAssumption DEF ViewOk, CursorOk, OffsetAt
    <2>3. CursorOk(w)
      BY <1>4, <2>2 DEF CursorOk
    <2> QED  BY <1>1, <1>2, <1>4, <2>1, <2>3 DEF ViewOk, KeyOk
  <1>5. CASE ~v.offset
    <2>1. KeyOk(w, t) /\ (w.more => w.cursor # <<>> /\ Place(w.cursor))
      BY <1>5, KeyPage
    <2>2. CursorOk(w)
      BY <1>5, <2>1 DEF CursorOk, Place
    <2> QED  BY <1>1, <1>2, <1>5, <2>1, <2>2 DEF ViewOk, OffsetOk
  <1> QED  BY <1>4, <1>5

\* A count keeps everything.
LEMMA CountKeeps ==
    ASSUME NEW v, NEW t, ViewOk(v, t), NEW rows, NEW w \in View,
           w.offset = v.offset, w.desc = v.desc, w.filter = v.filter, w.cursor = v.cursor, w.more = v.more,
           w.shown = v.shown, w.steady = v.steady, w.total = Cardinality(Fitting(v, rows)),
           w.still => v.still /\ rows = t
    PROVE  ViewOk(w, t)
  <1>1. SteadyOk(w, t)
    BY DEF ViewOk, SteadyOk, Fitting
  <1>2. CursorOk(w)
    BY DEF ViewOk, CursorOk
  <1>3. TotalOk(w)
    BY DEF ViewOk, SteadyOk, TotalOk
  <1>4. KeyOk(w, t)
    BY DEF ViewOk, KeyOk, Covered
  <1>5. OffsetOk(w, t)
    BY DEF ViewOk, OffsetOk, OffsetAt
  <1> QED  BY <1>1, <1>2, <1>3, <1>4, <1>5 DEF ViewOk
-----------------------------------------------------------------------------
(* Studio: what a statement does to the view. *)

SameView(w, v) == w.offset = v.offset /\ w.desc = v.desc /\ w.filter = v.filter /\ w.total = v.total
ShownIs(w, v, a, b) ==
    w \in View /\ SameView(w, v) /\ w.shown = a /\ (w.more <=> b) /\ w.cursor = v.cursor /\ w.steady = v.steady
CursorIs(w, v, a, b) ==
    w \in View /\ SameView(w, v) /\ w.cursor = a /\ w.steady = b /\ w.shown = v.shown /\ (w.more <=> v.more)

LEMMA SetShown ==
    ASSUME NEW v \in View, NEW a \in Seq(Keys), NEW b \in BOOLEAN
    PROVE  ShownIs([v EXCEPT !.shown = a, !.more = b], v, a, b)
  <1>1. PICK x : x = [v EXCEPT !.shown = a]
    OBVIOUS
  <1>2. x \in View /\ SameView(x, v) /\ x.shown = a /\ x.cursor = v.cursor /\ x.steady = v.steady
    BY <1>1 DEF View, SameView
  <1>3. PICK w : w = [x EXCEPT !.more = b]
    OBVIOUS
  <1>4. w \in View /\ SameView(w, x) /\ w.shown = a /\ (w.more <=> b) /\ w.cursor = x.cursor /\ w.steady = x.steady
    BY <1>2, <1>3 DEF View, SameView
  <1>5. ShownIs(w, v, a, b)
    BY <1>2, <1>4 DEF ShownIs, SameView
  <1> QED  BY <1>1, <1>3, <1>5

LEMMA SetCursor ==
    ASSUME NEW v \in View, NEW a \in Seq(Nat), NEW b \in SUBSET Keys
    PROVE  CursorIs([v EXCEPT !.cursor = a, !.steady = b], v, a, b)
  <1>1. PICK x : x = [v EXCEPT !.cursor = a]
    OBVIOUS
  <1>2. x \in View /\ SameView(x, v) /\ x.cursor = a /\ x.shown = v.shown /\ (x.more <=> v.more)
    BY <1>1 DEF View, SameView
  <1>3. PICK w : w = [x EXCEPT !.steady = b]
    OBVIOUS
  <1>4. w \in View /\ SameView(w, x) /\ w.cursor = a /\ w.steady = b /\ w.shown = x.shown /\ (w.more <=> x.more)
    BY <1>2, <1>3 DEF View, SameView
  <1>5. CursorIs(w, v, a, b)
    BY <1>2, <1>4 DEF CursorIs, SameView
  <1> QED  BY <1>1, <1>3, <1>5

LEMMA SetStill ==
    ASSUME NEW v \in View, NEW b \in BOOLEAN, NEW w, w = [v EXCEPT !.still = b]
    PROVE  /\ w \in View /\ (w.still <=> b) /\ w.offset = v.offset /\ w.desc = v.desc
           /\ w.filter = v.filter /\ w.cursor = v.cursor /\ w.shown = v.shown /\ w.total = v.total
           /\ w.steady = v.steady /\ (w.more <=> v.more)
  BY DEF View

LEMMA SetTotal ==
    ASSUME NEW v \in View, NEW a \in Nat, NEW w, w = [v EXCEPT !.total = a]
    PROVE  /\ w \in View /\ w.total = a /\ w.offset = v.offset /\ w.desc = v.desc
           /\ w.filter = v.filter /\ w.cursor = v.cursor /\ w.shown = v.shown
           /\ w.steady = v.steady /\ (w.more <=> v.more) /\ (w.still <=> v.still)
  BY DEF View

\* The rows as a client reads them are rows; only where it has written do they differ from the table.
LEMMA SeenRows ==
    ASSUME StudioTypes, NEW c \in Conns, NEW rows, rows = Seen(c)
    PROVE  /\ rows \in [Keys -> Marked]
           /\ \A k \in Keys : k \notin Written(c) => rows[k] = table[k]
           /\ Written(c) = {} => rows = table
  <1>1. PICK w \in Writes : w = conn[c].writes
    BY DEF StudioTypes, Client
  <1>2. \A k \in Keys : rows[k] = (IF k \in DOMAIN w THEN w[k] ELSE table[k])
    BY <1>1 DEF Seen, Visible, Written
  <1>3. \A k \in Keys : rows[k] \in Marked
    BY <1>2, WritesOf DEF StudioTypes
  <1>4. rows \in [Keys -> Marked]
    BY <1>3 DEF Seen
  <1>5. Written(c) = {} => \A k \in Keys : rows[k] = table[k]
    BY <1>1, <1>2 DEF Written
  <1>6. Written(c) = {} => rows = table
    BY <1>4, <1>5 DEF StudioTypes
  <1> QED  BY <1>1, <1>2, <1>4, <1>6 DEF Written

\* What lies ahead, in the words of the lemmas above.
LEMMA AheadIs == \A rows : Ahead(rows) = AheadOf(view, rows)
  <1> TAKE rows
  <1>1. Matching(rows) = Fitting(view, rows) /\ SkippedRows = OffsetAt(view)
    BY DEF Matching, Fitting, SkippedRows, OffsetAt
  <1>2. Beyond(rows) = {k \in Fitting(view, rows) :
                           view.cursor = <<>> \/ Precedes(view.desc, view.cursor, Position(rows, k))}
    BY <1>1 DEF Beyond
  <1> QED  BY <1>1, <1>2 DEF Ahead, AheadOf

LEMMA AheadTyped ==
    ASSUME NEW v \in View, CursorOk(v), NEW rows \in [Keys -> Marked]
    PROVE  AheadOf(v, rows) \in Seq(Keys)
  <1> DEFINE fit == Fitting(v, rows)
             beyond == {k \in fit : v.cursor = <<>> \/ Precedes(v.desc, v.cursor, Position(rows, k))}
  <1>1. v.desc \in BOOLEAN /\ fit \in SUBSET Keys /\ beyond \in SUBSET Keys
    BY DEF View, Fitting
  <1>2. CASE v.offset
    <2>1. PICK all : all = Sorted(rows, v.desc, fit)
      OBVIOUS
    <2>2. all \in Seq(Keys) /\ Len(all) \in Nat
      <3> HIDE DEF fit
      <3> QED  BY <1>1, <2>1, SortedRows DEF Listed
    <2>3. PICK s \in Nat : s = OffsetAt(v)
      BY <1>2 DEF CursorOk, OffsetAt
    <2>4. \A i \in (s + 1)..Len(all) : all[i] \in Keys
      BY <2>2, <2>3
    <2>5. SubSeq(all, s + 1, Len(all)) \in Seq(Keys)
      BY <2>2, <2>4, SubSeqProperties
    <2> QED  BY <1>2, <2>1, <2>3, <2>5 DEF AheadOf
  <1>3. CASE ~v.offset
    <2>1. AheadOf(v, rows) = Sorted(rows, v.desc, beyond)
      BY <1>3 DEF AheadOf
    <2> HIDE DEF beyond
    <2> QED  BY <1>1, <2>1, SortedRows DEF Listed
  <1> QED  BY <1>2, <1>3

LEMMA PagedOk ==
    ASSUME StudioTypes, ViewOk(view, table), view.more, NEW c \in Conns
    PROVE  ViewOk(Paged(c), table)
  <1>1. PICK v, rows : v = view /\ rows = Seen(c)
    OBVIOUS
  <1>2. v \in View /\ ViewOk(v, table) /\ v.more /\ CursorOk(v) /\ table \in [Keys -> Marked]
    BY <1>1 DEF ViewOk, StudioTypes
  <1>3. /\ rows \in [Keys -> Marked]
        /\ \A k \in Keys : k \notin Written(c) => rows[k] = table[k]
        /\ Written(c) = {} => rows = table
    BY <1>1, SeenRows
  <1>4. PICK ahead \in Seq(Keys) : ahead = AheadOf(v, rows) /\ ahead = Ahead(Seen(c))
    BY <1>1, <1>2, <1>3, AheadIs, AheadTyped
  <1>5. PICK m : m = IF Len(ahead) > Limit THEN Limit ELSE Len(ahead)
    OBVIOUS
  <1>6. PICK more \in BOOLEAN : more <=> Len(ahead) > Limit
    OBVIOUS
  <1>7. m \in Nat /\ m <= Len(ahead) /\ (more => m >= 1)
    BY <1>4, <1>5, <1>6, LimitAssumption
  <1>8. PICK page \in Seq(Keys) : page = SubSeq(ahead, 1, m) /\ Len(page) = m /\ \A i \in 1..m : page[i] = ahead[i]
    <2>1. \A i \in 1..m : ahead[i] \in Keys
      BY <1>4, <1>7
    <2>2. /\ SubSeq(ahead, 1, m) \in Seq(Keys) /\ Len(SubSeq(ahead, 1, m)) = IF 1 <= m THEN m - 1 + 1 ELSE 0
          /\ \A i \in 1..(m - 1 + 1) : SubSeq(ahead, 1, m)[i] = ahead[1 + i - 1]
      BY <1>7, <2>1, SubSeqProperties
    <2>3. Len(SubSeq(ahead, 1, m)) = m /\ \A i \in 1..m : SubSeq(ahead, 1, m)[i] = ahead[i]
      BY <1>7, <2>2
    <2> QED  BY <2>2, <2>3
  <1>9. PICK cursor \in Seq(Nat) :
           cursor = IF ~more THEN <<>> ELSE IF v.offset THEN <<OffsetAt(v) + Limit>> ELSE Position(rows, ahead[m])
    <2>1. <<>> \in Seq(Nat)
      BY EmptySeq
    <2>2. v.offset => <<OffsetAt(v) + Limit>> \in Seq(Nat)
      BY <1>2, LimitAssumption DEF CursorOk, OffsetAt
    <2>3. more => Position(rows, ahead[m]) \in Seq(Nat)
      <3> SUFFICES ASSUME more PROVE Position(rows, ahead[m]) \in Seq(Nat)
        OBVIOUS
      <3>1. PICK k \in Keys : k = ahead[m]
        BY <1>4, <1>7
      <3>2. rows[k] \in Marked /\ k \in Nat
        BY <1>3, KeysAssumption
      <3>3. rows[k].v \in Nat
        BY <3>2 DEF Marked
      <3> QED  BY <3>1, <3>2, <3>3 DEF Position
    <2> QED  BY <2>1, <2>2, <2>3
  <1>10. PICK shown \in Seq(Keys) : shown = v.shown \o page
    BY <1>2, <1>8, ConcatProperties DEF View
  <1>11. PICK steady \in SUBSET Keys : steady = v.steady \ Written(c)
    BY <1>2 DEF View
  <1>12. PICK still \in BOOLEAN : still <=> v.still /\ Written(c) = {}
    OBVIOUS
  <1>13. PICK x : x = [v EXCEPT !.shown = shown, !.more = more]
    OBVIOUS
  <1>14. PICK y : y = [x EXCEPT !.cursor = cursor, !.steady = steady]
    OBVIOUS
  <1>15. PICK w : w = [y EXCEPT !.still = still]
    OBVIOUS
  <1>16. w = Paged(c)
    <2>1. SkippedRows = OffsetAt(v)
      BY <1>1 DEF SkippedRows, OffsetAt
    <2>2. more => page[Len(page)] = ahead[m]
      BY <1>7, <1>8
    <2>3. more = (Len(ahead) > Limit) /\ still = (v.still /\ Written(c) = {})
      BY <1>2, <1>4, <1>6, <1>12, LimitAssumption DEF View
    <2>4. w = [v EXCEPT !.shown = shown, !.more = more, !.cursor = cursor, !.steady = steady, !.still = still]
      BY <1>13, <1>14, <1>15
    <2>5. cursor = IF ~more THEN <<>> ELSE IF v.offset THEN <<SkippedRows + Limit>>
                   ELSE Position(rows, page[Len(page)])
      BY <1>9, <2>1, <2>2
    <2>6. Paged(c) = [v EXCEPT !.shown = v.shown \o page, !.more = (Len(ahead) > Limit),
                               !.cursor = IF ~(Len(ahead) > Limit) THEN <<>>
                                          ELSE IF v.offset THEN <<SkippedRows + Limit>>
                                          ELSE Position(rows, page[Len(page)]),
                               !.steady = v.steady \ Written(c), !.still = v.still /\ Written(c) = {}]
      BY <1>1, <1>4, <1>5, <1>8 DEF Paged
    <2> QED  BY <1>10, <1>11, <2>3, <2>4, <2>5, <2>6
  <1>17. ShownIs(x, v, shown, more) /\ x \in View
    <2>1. ShownIs(x, v, shown, more)
      BY <1>2, <1>13, SetShown
    <2> QED  BY <2>1 DEF ShownIs
  <1>18. /\ y \in View /\ y.shown = shown /\ (y.more <=> more) /\ y.offset = v.offset /\ y.desc = v.desc
         /\ y.filter = v.filter /\ y.total = v.total /\ y.cursor = cursor /\ y.steady = steady
    <2>1. CursorIs(y, x, cursor, steady)
      BY <1>14, <1>17, SetCursor
    <2> QED  BY <1>17, <2>1 DEF ShownIs, CursorIs, SameView
  <1>19. /\ w \in View /\ w.shown = shown /\ (w.more <=> more) /\ w.offset = v.offset /\ w.desc = v.desc
         /\ w.filter = v.filter /\ w.total = v.total /\ w.cursor = cursor /\ w.steady = steady
         /\ (w.still <=> still)
    BY <1>15, <1>18, SetStill
  <1>20. \A k \in w.steady : k \in v.steady /\ rows[k] = table[k]
    BY <1>2, <1>3, <1>11, <1>19 DEF View
  <1>21. w.still => v.still /\ rows = table /\ w.steady = v.steady
    BY <1>3, <1>11, <1>12, <1>19
  <1>22. /\ w.shown = v.shown \o SubSeq(ahead, 1, m) /\ (w.more <=> Len(ahead) > Limit)
         /\ w.cursor = IF ~w.more THEN <<>> ELSE IF v.offset THEN <<OffsetAt(v) + Limit>> ELSE Position(rows, ahead[m])
    BY <1>6, <1>8, <1>9, <1>10, <1>19
  <1>23. ViewOk(w, table)
    BY <1>2, <1>3, <1>4, <1>5, <1>19, <1>20, <1>21, <1>22, PageKeeps
  <1> QED  BY <1>16, <1>23

LEMMA CountedOk ==
    ASSUME StudioTypes, ViewOk(view, table), NEW c \in Conns
    PROVE  ViewOk(Counted(c), table) /\ (Counted(c).more <=> view.more)
  <1>1. PICK v, rows : v = view /\ rows = Seen(c)
    OBVIOUS
  <1>2. v \in View /\ ViewOk(v, table)
    BY <1>1 DEF ViewOk
  <1>3. Written(c) = {} => rows = table
    BY <1>1, SeenRows
  <1>4. PICK total \in Nat : total = Cardinality(Fitting(v, rows)) /\ total = Cardinality(Matching(Seen(c)))
    <2>1. Fitting(v, rows) = Matching(Seen(c)) /\ Fitting(v, rows) \in SUBSET Keys
      BY <1>1 DEF Fitting, Matching
    <2> QED  BY <2>1, KeysFinite
  <1>5. PICK still \in BOOLEAN : still = (v.still /\ Written(c) = {})
    BY <1>2 DEF View
  <1>6. PICK x : x = [v EXCEPT !.total = total]
    OBVIOUS
  <1>7. PICK w : w = [x EXCEPT !.still = still]
    OBVIOUS
  <1>8. w = Counted(c)
    BY <1>1, <1>4, <1>5, <1>6, <1>7 DEF Counted
  <1>9. /\ x \in View /\ x.total = total /\ x.offset = v.offset /\ x.desc = v.desc
        /\ x.filter = v.filter /\ x.cursor = v.cursor /\ x.shown = v.shown
        /\ x.steady = v.steady /\ (x.more <=> v.more)
    BY <1>2, <1>6, SetTotal
  <1>10. /\ w \in View /\ w.total = total /\ w.offset = v.offset /\ w.desc = v.desc
         /\ w.filter = v.filter /\ w.cursor = v.cursor /\ w.shown = v.shown
         /\ w.steady = v.steady /\ (w.more <=> v.more) /\ (w.still <=> still)
    BY <1>7, <1>9, SetStill
  <1>11. w.more = v.more
    BY <1>2, <1>10 DEF View
  <1>12. ViewOk(w, table)
    BY <1>2, <1>3, <1>4, <1>5, <1>10, <1>11, CountKeeps
  <1> QED  BY <1>1, <1>8, <1>10, <1>12
-----------------------------------------------------------------------------
(* Studio: who reads pages. *)

\* A page is asked for by the request that browses, before its count, while there are more rows.
PagePlan(r) ==
    \A i \in 1..Len(asks[r].todo) :
        asks[r].todo[i].do = "page" => asks[r].kind = "browse" /\ i = Len(asks[r].todo) - 1 /\ view.more
Browsing ==
    /\ \A q, r \in Requests : asks[q].kind = "browse" /\ asks[r].kind = "browse" => q = r
    /\ \A r \in Requests : PagePlan(r)

PagesInv == StudioInv /\ ViewOk(view, table) /\ Browsing

Pageless(todo) == \A i \in 1..Len(todo) : todo[i].do # "page"

\* What requests do that do not browse, and what a browsing request does but read a page.
Quiet(r) ==
    /\ asks'[r].kind \in {asks[r].kind} \/ asks'[r].kind # "browse"
    /\ \/ asks'[r].kind = asks[r].kind /\ asks'[r].todo = asks[r].todo
       \/ Pageless(asks'[r].todo)

LEMMA QuietKept ==
    ASSUME Browsing, \A r \in Requests : Quiet(r), view.more => view'.more
    PROVE  Browsing'
  <1>1. \A r \in Requests : asks'[r].kind = "browse" => asks[r].kind = "browse"
    BY DEF Quiet
  <1>2. ASSUME NEW r \in Requests PROVE PagePlan(r)'
    <2>1. PagePlan(r) /\ Quiet(r)
      BY <1>2 DEF Browsing
    <2> QED  BY <2>1 DEF PagePlan, Quiet, Pageless
  <1> QED  BY <1>1, <1>2 DEF Browsing

\* One request acts.
LEMMA OneQuiet ==
    ASSUME StudioTypes, Browsing, NEW r \in Requests, NEW b \in Asked, asks' = [asks EXCEPT ![r] = b],
           b.kind = asks[r].kind \/ b.kind # "browse",
           (b.kind = asks[r].kind /\ b.todo = asks[r].todo) \/ Pageless(b.todo),
           view.more => view'.more
    PROVE  Browsing'
  <1>1. asks'[r] = b /\ \A q \in Requests : q # r => asks'[q] = asks[q]
    BY DEF StudioTypes
  <1>2. \A q \in Requests : Quiet(q)
    BY <1>1 DEF Quiet
  <1> QED  BY <1>2, QuietKept

LEMMA NothingLeft == Pageless(<<>>) /\ Pageless(NoRequest.todo) /\ NoRequest.kind # "browse"
  BY EmptySeq, NoRequestTyped DEF Pageless

\* A request starts that reads no pages.
LEMMA StartsQuiet ==
    ASSUME StudioTypes, Browsing, NEW r \in Requests, NEW kind \in {"edit", "script", "explain"},
           NEW todo \in Seq(Statement), Starts(r, kind, todo), Pageless(todo), view' = view
    PROVE  Browsing'
  <1>1. PICK first \in Statement : first = Do("set") /\ first.do = "set"
    BY StudioTyped
  <1>2. PICK s : s = <<first>> \o todo
    OBVIOUS
  <1>3. /\ s \in Seq(Statement) /\ Len(s) = Len(todo) + 1 /\ s[1] = first /\ Len(todo) \in Nat
        /\ \A i \in 2..Len(s) : s[i] = todo[i - 1]
    BY <1>2, Prefixed
  <1>4. Pageless(s)
    <2> SUFFICES ASSUME NEW i \in 1..Len(s) PROVE s[i].do # "page"
      BY DEF Pageless
    <2>1. CASE i = 1
      BY <1>1, <1>3, <2>1
    <2>2. CASE i # 1
      <3>1. PICK j \in 1..Len(todo) : j = i - 1 /\ i \in 2..Len(s)
        BY <1>3, <2>2
      <3> QED  BY <1>3, <3>1 DEF Pageless
    <2> QED  BY <2>1, <2>2
  <1>5. PICK b : b = [NoRequest EXCEPT !.kind = kind, !.todo = s]
    OBVIOUS
  <1>6. b \in Asked /\ b.kind = kind /\ b.todo = s
    BY <1>3, <1>5 DEF NoRequest, Asked
  <1>7. asks' = [asks EXCEPT ![r] = b]
    BY <1>1, <1>2, <1>5 DEF Starts
  <1> QED  BY <1>4, <1>6, <1>7, OneQuiet

LEMMA BrowseStarts == ASSUME StudioInv, Browsing, NEW r \in Requests, BrowseTable(r) PROVE Browsing'
  <1>1. PICK a \in Statement, p \in Statement, n \in Statement :
           /\ a = Do("set") /\ p = Do("page") /\ n = Do("count")
           /\ a.do = "set" /\ p.do = "page" /\ n.do = "count"
    BY StudioTyped
  <1>2. PICK t \in Seq(Statement) : t = <<p, n>>
    <2>1. <<p, n>> \in Seq(Statement)
      BY <1>1
    <2> QED  BY <2>1
  <1>3. Len(t) = 2 /\ t[1] = p /\ t[2] = n
    BY <1>2
  <1>4. PICK s : s = <<a>> \o t
    OBVIOUS
  <1>5. /\ s \in Seq(Statement) /\ Len(s) = Len(t) + 1 /\ s[1] = a
        /\ \A i \in 2..Len(s) : s[i] = t[i - 1]
    BY <1>4, Prefixed
  <1>6. Len(s) = 3 /\ s[1] = a /\ s[2] = p /\ s[3] = n
    BY <1>3, <1>5
  <1>7. PICK b : b = [NoRequest EXCEPT !.kind = "browse", !.todo = s]
    OBVIOUS
  <1>8. b \in Asked /\ b.kind = "browse" /\ b.todo = s
    BY <1>5, <1>7 DEF NoRequest, Asked
  <1>9. /\ asks' = [asks EXCEPT ![r] = b] /\ view' = view /\ view.more
        /\ \A q \in Requests : asks[q].kind # "browse"
    BY <1>1, <1>2, <1>4, <1>7 DEF BrowseTable, Starts
  <1>10. asks'[r] = b /\ \A q \in Requests : q # r => asks'[q] = asks[q]
    BY <1>9 DEF StudioInv, StudioTypes
  <1>11. \A q, o \in Requests : asks'[q].kind = "browse" /\ asks'[o].kind = "browse" => q = o
    BY <1>9, <1>10
  <1>12. ASSUME NEW q \in Requests PROVE PagePlan(q)'
    <2>1. CASE q = r
      <3>1. asks'[q].todo = s /\ asks'[q].kind = "browse" /\ view'.more
        BY <1>8, <1>9, <1>10, <2>1
      <3>2. \A i \in 1..Len(s) : s[i].do = "page" => i = Len(s) - 1
        BY <1>1, <1>6
      <3> QED  BY <3>1, <3>2 DEF PagePlan
    <2>2. CASE q # r
      <3>1. PagePlan(q) /\ asks'[q] = asks[q]
        BY <1>10, <1>12, <2>2 DEF Browsing
      <3> QED  BY <1>9, <3>1 DEF PagePlan
    <2> QED  BY <2>1, <2>2
  <1> QED  BY <1>11, <1>12 DEF Browsing

\* The request after a statement: the same but for what is left to do, and what it has done.
LEMMA SucceedsAsks ==
    ASSUME StudioInv, NEW r \in Requests, StatementSucceeds(r)
    PROVE  \E b \in Asked : asks' = [asks EXCEPT ![r] = b] /\ b.kind = asks[r].kind /\ b.todo = Tail(asks[r].todo)
  <1>1. Running(r) /\ StudioTypes
    BY DEF StatementSucceeds, StudioInv
  <1>2. PICK c, s : c = asks[r].conn /\ s = Head(asks[r].todo)
    OBVIOUS
  <1>3. PICK changed \in BOOLEAN : changed = (asks[r].kind = "edit" /\ s.do = "write" => Changes(c, s))
    OBVIOUS
  <1>4. PICK done \in BOOLEAN : done = (s.do = "write" /\ conn[c].txn = "none")
    OBVIOUS
  <1>5. PICK a \in Asked : a = asks[r]
    BY <1>1 DEF StudioTypes
  <1>6. asks' = [asks EXCEPT ![r].todo = Tail(asks[r].todo), ![r].ok = asks[r].ok /\ changed, ![r].committed = done]
    BY <1>1, <1>2, <1>3, <1>4 DEF StatementSucceeds, StudioTypes
  <1>7. PICK rest \in Seq(Statement) : rest = Tail(a.todo)
    <2>1. a.todo \in Seq(Statement) /\ a.todo # <<>>
      BY <1>1, <1>5 DEF Asked, Running
    <2> QED  BY <2>1, First
  <1>8. PICK y : y = [a EXCEPT !.todo = rest]
    OBVIOUS
  <1>9. y \in Asked /\ y.kind = a.kind /\ y.todo = rest /\ y.ok = a.ok
    BY <1>8 DEF Asked
  <1>10. PICK ok \in BOOLEAN : ok = (a.ok /\ changed)
    OBVIOUS
  <1>11. PICK z : z = [y EXCEPT !.ok = ok]
    OBVIOUS
  <1>12. z \in Asked /\ z.kind = a.kind /\ z.todo = rest
    BY <1>9, <1>11 DEF Asked
  <1>13. PICK b : b = [z EXCEPT !.committed = done]
    OBVIOUS
  <1>14. b \in Asked /\ b.kind = a.kind /\ b.todo = rest
    BY <1>12, <1>13 DEF Asked
  <1>15. asks' = [asks EXCEPT ![r] = b]
    BY <1>5, <1>6, <1>7, <1>8, <1>10, <1>11, <1>13
  <1> QED  BY <1>5, <1>7, <1>14, <1>15

\* A statement reads its page, its count or nothing, and what it commits is no longer steady.
LEMMA SucceedsView ==
    ASSUME PagesInv, NEW r \in Requests, StatementSucceeds(r)
    PROVE  /\ ViewOk(view, table)'
           /\ Head(asks[r].todo).do # "page" => (view'.more <=> view.more)
  <1>1. Running(r) /\ StudioInv /\ StudioTypes
    BY DEF StatementSucceeds, PagesInv, StudioInv
  <1>2. PICK c, s : c = asks[r].conn /\ s = Head(asks[r].todo)
    OBVIOUS
  <1>3. c \in Conns /\ s = asks[r].todo[1] /\ Len(asks[r].todo) \in Nat /\ Len(asks[r].todo) >= 1
    BY <1>1, <1>2, AtStatement
  <1>4. PICK seen : seen = CASE s.do = "page" -> Paged(c) [] s.do = "count" -> Counted(c) [] OTHER -> view
    OBVIOUS
  <1>5. view' = [seen EXCEPT !.steady = {k \in seen.steady : table'[k] = table[k]},
                             !.still = seen.still /\ table' = table]
    BY <1>2, <1>4 DEF StatementSucceeds
  <1>6. ViewOk(seen, table) /\ (s.do # "page" => (seen.more <=> view.more))
    <2>1. CASE s.do = "page"
      <3>1. view.more
        BY <1>1, <1>3, <2>1 DEF PagesInv, Browsing, PagePlan
      <3> QED  BY <1>1, <1>3, <1>4, <2>1, <3>1, PagedOk DEF PagesInv
    <2>2. CASE s.do = "count"
      <3>1. seen = Counted(c)
        BY <1>4, <2>2
      <3> QED  BY <1>1, <1>3, <3>1, <2>2, CountedOk DEF PagesInv
    <2>3. CASE s.do \notin {"page", "count"}
      <3>1. seen = view
        BY <1>4, <2>3
      <3> QED  BY <3>1 DEF PagesInv
    <2> QED  BY <2>1, <2>2, <2>3
  <1>7. seen \in View
    BY <1>6 DEF ViewOk
  <1>8. PICK steady \in SUBSET Keys : steady = {k \in seen.steady : table'[k] = table[k]}
    BY <1>7 DEF View
  <1>9. PICK still \in BOOLEAN : still = (seen.still /\ table' = table)
    BY <1>7 DEF View
  <1>10. PICK x : x = [seen EXCEPT !.steady = steady]
    OBVIOUS
  <1>11. /\ x \in View /\ SameView(x, seen) /\ x.steady = steady /\ x.cursor = seen.cursor /\ x.shown = seen.shown
         /\ x.more = seen.more
    BY <1>7, <1>8, <1>10 DEF View, SameView
  <1>12. PICK w : w = [x EXCEPT !.still = still]
    OBVIOUS
  <1>13. /\ w \in View /\ SameView(w, x) /\ w.steady = steady /\ w.cursor = x.cursor /\ w.shown = x.shown
         /\ w.more = x.more /\ w.still = still
    BY <1>11, <1>12 DEF View, SameView
  <1>14. view' = w
    BY <1>5, <1>8, <1>9, <1>10, <1>12
  <1>15. \A k \in w.steady : k \in seen.steady /\ table'[k] = table[k]
    BY <1>8, <1>13
  <1>16. w.still => seen.still /\ table' = table /\ w.steady = seen.steady
    BY <1>8, <1>9, <1>13
  <1>17. PICK u : u = table'
    OBVIOUS
  <1>18. ViewOk(w, u)
    BY <1>6, <1>11, <1>13, <1>15, <1>16, <1>17, ViewShrinks DEF SameView
  <1> QED  BY <1>2, <1>6, <1>11, <1>13, <1>14, <1>17, <1>18

LEMMA SucceedsBrowsing ==
    ASSUME PagesInv, NEW r \in Requests, StatementSucceeds(r)
    PROVE  Browsing'
  <1>1. StudioInv /\ StudioTypes /\ Browsing /\ Running(r)
    BY DEF PagesInv, StudioInv, StatementSucceeds
  <1>2. PICK b \in Asked : asks' = [asks EXCEPT ![r] = b] /\ b.kind = asks[r].kind /\ b.todo = Tail(asks[r].todo)
    BY <1>1, SucceedsAsks
  <1>3. asks'[r] = b /\ \A q \in Requests : q # r => asks'[q] = asks[q]
    BY <1>1, <1>2 DEF StudioTypes
  <1>4. PICK todo \in Seq(Statement) : todo = asks[r].todo /\ todo # <<>>
    BY <1>1 DEF StudioTypes, Asked, Running
  <1>5. PICK n \in Nat : n = Len(todo) /\ n >= 1 /\ Len(b.todo) = n - 1 /\ Head(todo) = todo[1]
                         /\ \A i \in 1..(n - 1) : b.todo[i] = todo[i + 1]
    BY <1>2, <1>4, First
  <1>6. \A i \in 1..n : todo[i].do = "page" => asks[r].kind = "browse" /\ i = n - 1 /\ view.more
    BY <1>1, <1>4, <1>5 DEF Browsing, PagePlan
  <1>7. \A q, o \in Requests : asks'[q].kind = "browse" /\ asks'[o].kind = "browse" => q = o
    BY <1>1, <1>2, <1>3 DEF Browsing
  <1>8. CASE todo[1].do = "page"
    <2>1. asks[r].kind = "browse" /\ n = 2
      BY <1>5, <1>6, <1>8
    <2>2. Pageless(b.todo)
      BY <1>5, <1>6, <2>1 DEF Pageless
    <2>3. \A q \in Requests : q # r => Pageless(asks[q].todo)
      BY <1>1, <2>1 DEF Browsing, PagePlan, Pageless
    <2>4. \A q \in Requests : Pageless(asks'[q].todo)
      BY <1>3, <2>2, <2>3
    <2>5. \A q \in Requests : PagePlan(q)'
      BY <2>4 DEF PagePlan, Pageless
    <2> QED  BY <1>7, <2>5 DEF Browsing
  <1>9. CASE todo[1].do # "page"
    <2>1. view'.more <=> view.more
      BY <1>4, <1>5, <1>9, SucceedsView
    <2>2. ASSUME NEW q \in Requests PROVE PagePlan(q)'
      <3>1. CASE q = r
        <4>1. ASSUME NEW i \in 1..(n - 1), b.todo[i].do = "page"
              PROVE  b.kind = "browse" /\ i = (n - 1) - 1 /\ view.more
          <5>1. i + 1 \in 1..n /\ todo[i + 1].do = "page"
            BY <1>5, <4>1
          <5>2. asks[r].kind = "browse" /\ i + 1 = n - 1 /\ view.more
            BY <1>6, <5>1
          <5> QED  BY <1>2, <5>2
        <4>2. asks'[q] = b /\ Len(b.todo) = n - 1
          BY <1>3, <1>5, <3>1
        <4> QED  BY <2>1, <4>1, <4>2 DEF PagePlan
      <3>2. CASE q # r
        <4>1. PagePlan(q) /\ asks'[q] = asks[q]
          BY <1>1, <1>3, <2>2, <3>2 DEF Browsing
        <4> QED  BY <2>1, <4>1 DEF PagePlan
      <3> QED  BY <3>1, <3>2
    <2> QED  BY <1>7, <2>2 DEF Browsing
  <1> QED  BY <1>8, <1>9
-----------------------------------------------------------------------------
(* Studio: the theorem about pages. *)

LEMMA PagesInit == ASSUME StudioInit PROVE PagesInv
  <1>1. view = NoView /\ \A r \in Requests : asks[r] = NoRequest
    BY DEF StudioInit
  <1>2. NoView \in View
    <2>1. <<>> \in Seq(Nat) /\ <<>> \in Seq(Keys)
      BY EmptySeq
    <2> QED  BY <2>1 DEF NoView, View
  <1>3. /\ view.steady = {} /\ view.still = FALSE /\ view.cursor = <<>> /\ view.offset = FALSE
    BY <1>1 DEF NoView
  <1>4. ViewOk(view, table)
    BY <1>1, <1>2, <1>3 DEF ViewOk, SteadyOk, CursorOk, KeyOk, OffsetOk, TotalOk
  <1>5. \A r \in Requests : Len(asks[r].todo) = 0 /\ asks[r].kind # "browse"
    BY <1>1, NoRequestTyped, EmptySeq
  <1>6. Browsing
    BY <1>5 DEF Browsing, PagePlan
  <1> QED  BY <1>4, <1>6, StudioInitHolds DEF PagesInv

LEMMA OpenViewKeeps ==
    ASSUME PagesInv, NEW offset \in BOOLEAN, NEW desc \in BOOLEAN, NEW filter \in SUBSET SortValues,
           OpenView(offset, desc, filter)
    PROVE  ViewOk(view, table)' /\ Browsing'
  <1>1. table' = table /\ asks' = asks /\ StudioTypes /\ Browsing
    BY DEF OpenView, PagesInv, StudioInv
  <1>2. PICK steady \in SUBSET Keys : steady = {k \in Keys : table[k] # Absent /\ table[k].v \in filter}
    OBVIOUS
  <1>3. PICK x : x = [NoView EXCEPT !.on = TRUE, !.offset = offset]
    OBVIOUS
  <1>4. PICK y : y = [x EXCEPT !.desc = desc, !.filter = filter]
    OBVIOUS
  <1>5. PICK z : z = [y EXCEPT !.more = TRUE, !.steady = steady]
    OBVIOUS
  <1>6. PICK w : w = [z EXCEPT !.still = TRUE] /\ view' = w
    <2>1. view' = [NoView EXCEPT !.on = TRUE, !.offset = offset, !.desc = desc, !.filter = filter, !.more = TRUE,
                                 !.steady = steady, !.still = TRUE]
      BY <1>2 DEF OpenView
    <2> QED  BY <1>3, <1>4, <1>5, <2>1
  <1>7. /\ w \in View /\ w.cursor = <<>> /\ w.more /\ w.shown = <<>> /\ Len(w.shown) = 0 /\ w.steady = steady
        /\ w.filter = filter /\ w.total = 0
    <2>1. NoView \in View /\ NoView.cursor = <<>> /\ NoView.shown = <<>> /\ NoView.total = 0
      BY EmptySeq DEF NoView, View
    <2>2. x \in View /\ x.cursor = <<>> /\ x.shown = <<>> /\ x.total = 0
      BY <1>3, <2>1 DEF View
    <2>3. y \in View /\ y.cursor = <<>> /\ y.shown = <<>> /\ y.total = 0 /\ y.filter = filter
      BY <1>4, <2>2 DEF View
    <2>4. z \in View /\ z.cursor = <<>> /\ z.shown = <<>> /\ z.total = 0 /\ z.filter = filter /\ z.more
          /\ z.steady = steady
      BY <1>5, <2>3 DEF View
    <2>5. w \in View /\ w.cursor = <<>> /\ w.shown = <<>> /\ w.total = 0 /\ w.filter = filter /\ w.more
          /\ w.steady = steady
      BY <1>6, <2>4 DEF View
    <2> QED  BY <2>5, EmptySeq
  <1>8. SteadyOk(w, table) /\ CursorOk(w) /\ TotalOk(w)
    BY <1>2, <1>7 DEF SteadyOk, Fitting, CursorOk, TotalOk
  <1>9. KeyOk(w, table)
    BY <1>7 DEF KeyOk, Covered, Never
  <1>10. OffsetOk(w, table)
    <2>1. Cardinality(steady) \in Nat
      BY KeysFinite
    <2> QED  BY <1>7, <2>1 DEF OffsetOk, OffsetAt
  <1>11. ViewOk(w, table)
    BY <1>7, <1>8, <1>9, <1>10 DEF ViewOk
  <1>12. Browsing'
    <2>1. \A r \in Requests : Quiet(r)
      BY <1>1 DEF Quiet
    <2> QED  BY <1>1, <1>6, <1>7, <2>1, QuietKept
  <1> QED  BY <1>1, <1>6, <1>11, <1>12

\* The other requests.
LEMMA OthersBrowse ==
    ASSUME PagesInv, NEW r \in Requests,
           Connect(r) \/ ConnectFails(r) \/ StatementFails(r) \/ Release(r)
    PROVE  Browsing' /\ table' = table /\ view' = view
  <1>1. StudioTypes /\ Browsing /\ StudioInv
    BY DEF PagesInv, StudioInv
  <1>2. table' = table /\ view' = view
    BY DEF Connect, ConnectFails, StatementFails, Release
  <1>3. PICK a \in Asked : a = asks[r]
    BY <1>1 DEF StudioTypes
  <1>4. CASE Connect(r)
    <2>1. PICK c \in Conns : asks' = [asks EXCEPT ![r].conn = c]
      BY <1>4 DEF Connect
    <2>2. PICK b : b = [a EXCEPT !.conn = c]
      OBVIOUS
    <2>3. b \in Asked /\ b.kind = a.kind /\ b.todo = a.todo
      BY <2>2 DEF Asked
    <2>4. asks' = [asks EXCEPT ![r] = b]
      BY <1>3, <2>1, <2>2
    <2> QED  BY <1>1, <1>2, <1>3, <2>3, <2>4, OneQuiet
  <1>5. ASSUME NEW todo \in Seq(Statement), Pageless(todo), asks' = [asks EXCEPT ![r].todo = todo, ![r].ok = FALSE]
        PROVE  Browsing'
    <2>1. PICK y : y = [a EXCEPT !.todo = todo]
      OBVIOUS
    <2>2. y \in Asked /\ y.kind = a.kind /\ y.todo = todo
      BY <2>1 DEF Asked
    <2>3. PICK b : b = [y EXCEPT !.ok = FALSE]
      OBVIOUS
    <2>4. b \in Asked /\ b.kind = a.kind /\ b.todo = todo
      BY <2>2, <2>3 DEF Asked
    <2>5. asks' = [asks EXCEPT ![r] = b]
      BY <1>3, <1>5, <2>1, <2>3
    <2> QED  BY <1>1, <1>2, <1>3, <1>5, <2>4, <2>5, OneQuiet
  <1>6. CASE ConnectFails(r)
    <2>1. asks' = [asks EXCEPT ![r].todo = <<>>, ![r].ok = FALSE] /\ <<>> \in Seq(Statement)
      BY <1>6, EmptySeq DEF ConnectFails
    <2> QED  BY <1>2, <1>5, <2>1, NothingLeft
  <1>7. CASE StatementFails(r)
    <2>1. PICK s, todo : s = Head(asks[r].todo) /\ todo = Recovery(r, s)
      OBVIOUS
    <2>2. asks' = [asks EXCEPT ![r].todo = todo, ![r].ok = FALSE]
      BY <1>7, <2>1 DEF StatementFails
    <2>3. todo \in Seq(Statement) /\ Pageless(todo)
      <3>1. PICK b \in Statement : b = Do("rollback") /\ b.do = "rollback"
        BY StudioTyped
      <3>2. <<b>> \in Seq(Statement) /\ Pageless(<<b>>)
        BY <3>1 DEF Pageless
      <3>3. <<>> \in Seq(Statement) /\ Pageless(<<>>)
        BY EmptySeq, NothingLeft
      <3> QED  BY <2>1, <3>1, <3>2, <3>3 DEF Recovery
    <2> QED  BY <1>2, <1>5, <2>2, <2>3
  <1>8. CASE Release(r)
    <2>1. asks' = [asks EXCEPT ![r] = NoRequest]
      BY <1>8 DEF Release
    <2> QED  BY <1>1, <1>2, <2>1, NoRequestTyped, NothingLeft, OneQuiet
  <1> QED  BY <1>2, <1>4, <1>6, <1>7, <1>8

LEMMA MovesBrowse == ASSUME PagesInv, Moves PROVE Browsing' /\ table' = table /\ view' = view
  <1>1. /\ table' = table /\ view' = view /\ StudioTypes /\ Browsing
        /\ asks' = [r \in Requests |-> IF asks[r].conn = 0 THEN asks[r]
                                      ELSE IF asks[r].todo = <<>> THEN NoRequest
                                      ELSE [asks[r] EXCEPT !.conn = 0, !.todo = <<>>, !.ok = FALSE]]
    BY DEF Moves, PagesInv, StudioInv
  <1>2. ASSUME NEW r \in Requests PROVE Quiet(r)
    <2>1. PICK a \in Asked : a = asks[r]
      BY <1>1 DEF StudioTypes
    <2>2. CASE a.conn = 0
      <3>1. asks'[r] = asks[r]
        BY <1>1, <2>1, <2>2
      <3> QED  BY <3>1 DEF Quiet
    <2>3. CASE a.conn # 0 /\ a.todo = <<>>
      <3>1. asks'[r] = NoRequest
        BY <1>1, <2>1, <2>3
      <3> QED  BY <3>1, NothingLeft DEF Quiet
    <2>4. CASE a.conn # 0 /\ a.todo # <<>>
      <3>1. PICK x : x = [a EXCEPT !.conn = 0]
        OBVIOUS
      <3>2. x \in Asked /\ x.kind = a.kind
        BY <3>1 DEF Asked
      <3>3. PICK y : y = [x EXCEPT !.todo = <<>>]
        OBVIOUS
      <3>4. y \in Asked /\ y.kind = a.kind /\ y.todo = <<>>
        BY <3>2, <3>3, EmptySeq DEF Asked
      <3>5. PICK z : z = [y EXCEPT !.ok = FALSE]
        OBVIOUS
      <3>6. z.kind = a.kind /\ z.todo = <<>>
        BY <3>4, <3>5 DEF Asked
      <3>7. asks'[r] = z
        BY <1>1, <2>1, <2>4, <3>1, <3>3, <3>5
      <3> QED  BY <2>1, <3>6, <3>7, NothingLeft DEF Quiet
    <2> QED  BY <2>2, <2>3, <2>4
  <1> QED  BY <1>1, <1>2, QuietKept

LEMMA PagesStep == ASSUME PagesInv, [StudioNext]_studioVars PROVE PagesInv'
  <1>1. StudioInv' /\ StudioInv /\ StudioTypes /\ Browsing /\ ViewOk(view, table)
    BY StudioStep DEF PagesInv, StudioInv
  <1>2. ASSUME table' = table, view' = view, Browsing' PROVE PagesInv'
    BY <1>1, <1>2 DEF PagesInv
  <1>3. ASSUME NEW r \in Requests, NEW kind \in {"edit", "script", "explain"}, NEW todo \in Seq(Statement),
               Starts(r, kind, todo), Pageless(todo), UNCHANGED <<table, view>>
        PROVE  PagesInv'
    BY <1>1, <1>2, <1>3, StartsQuiet
  <1>4. ASSUME NEW r \in Requests, NEW k \in Keys, NEW v \in Nat, NEW by \in {"insert", "update", "delete"},
               Edit(r, Write(k, by, v))
        PROVE  PagesInv'
    <2>1. PICK w \in Statement : w = Write(k, by, v) /\ w.do = "write"
      BY WriteTyped
    <2>2. <<w>> \in Seq(Statement) /\ Pageless(<<w>>)
      BY <2>1 DEF Pageless
    <2> QED  BY <1>3, <1>4, <2>1, <2>2 DEF Edit
  <1>5. ASSUME NEW r \in Requests, NEW k \in Keys, NEW v \in SortValues,
               InsertRow(r, k, v) \/ UpdateRow(r, k, v)
        PROVE  PagesInv'
    <2>1. v \in Nat
      BY KeysAssumption
    <2> QED  BY <1>4, <1>5, <2>1 DEF InsertRow, UpdateRow
  <1>6. ASSUME NEW r \in Requests, NEW k \in Keys, DeleteRow(r, k) PROVE PagesInv'
    BY <1>4, <1>6 DEF DeleteRow
  <1>7. ASSUME NEW r \in Requests, NEW script \in Scripts, RunQuery(r, script) PROVE PagesInv'
    <2>1. script \in Seq(ScriptStatement) /\ script \in Seq(Statement)
      BY ScriptsAssumption, ScriptFits
    <2>2. \A s \in ScriptStatement : s.do # "page"
      BY StudioTyped, WriteTyped, KeysAssumption DEF ScriptStatement
    <2>3. \A i \in 1..Len(script) : script[i] \in ScriptStatement
      BY <2>1, ElementOfSeq
    <2>4. Pageless(script)
      BY <2>2, <2>3 DEF Pageless
    <2> QED  BY <1>3, <1>7, <2>1, <2>4 DEF RunQuery
  <1>8. ASSUME NEW r \in Requests, NEW k \in Keys, NEW v \in SortValues, ExplainQuery(r, k, v) PROVE PagesInv'
    <2>1. PICK w \in Statement, b \in Statement, z \in Statement :
             /\ w = Write(k, "explain", v) /\ b = Do("begin") /\ z = Do("rollback")
             /\ w.do = "write" /\ b.do = "begin" /\ z.do = "rollback"
      BY KeysAssumption, WriteTyped, StudioTyped
    <2>2. PICK todo : todo = <<b, w, w, z>>
      OBVIOUS
    <2>3. todo \in Seq(Statement) /\ Len(todo) = 4 /\ todo[1] = b /\ todo[2] = w /\ todo[3] = w /\ todo[4] = z
      BY <2>2
    <2>4. Pageless(todo)
      BY <2>1, <2>3 DEF Pageless
    <2>5. Starts(r, "explain", todo) /\ UNCHANGED <<table, view>>
      BY <1>8, <2>1, <2>2 DEF ExplainQuery
    <2> QED  BY <1>3, <2>3, <2>4, <2>5
  <1>9. ASSUME NEW r \in Requests, BrowseTable(r) PROVE PagesInv'
    <2>1. table' = table /\ view' = view
      BY <1>9 DEF BrowseTable
    <2> QED  BY <1>1, <1>2, <1>9, <2>1, BrowseStarts
  <1>10. ASSUME NEW r \in Requests, Connect(r) \/ ConnectFails(r) \/ StatementFails(r) \/ Release(r)
         PROVE  PagesInv'
    BY <1>2, <1>10, OthersBrowse
  <1>11. ASSUME NEW r \in Requests, StatementSucceeds(r) PROVE PagesInv'
    BY <1>1, <1>11, SucceedsView, SucceedsBrowsing DEF PagesInv
  <1>12. ASSUME NEW o \in BOOLEAN, NEW d \in BOOLEAN, NEW f \in (SUBSET SortValues) \ {{}}, OpenView(o, d, f)
         PROVE  PagesInv'
    BY <1>1, <1>12, OpenViewKeeps DEF PagesInv
  <1>13. CASE UNCHANGED <<table, view, asks>>
    <2>1. \A r \in Requests : Quiet(r)
      BY <1>13 DEF Quiet
    <2> QED  BY <1>1, <1>2, <1>13, <2>1, QuietKept
  <1>14. ASSUME NEW c \in Conns, ClientCloses(c) PROVE PagesInv'
    BY <1>13, <1>14 DEF ClientCloses
  <1>15. CASE Evict
    BY <1>13, <1>15 DEF Evict, DropPool
  <1>16. CASE Moves
    BY <1>2, <1>16, MovesBrowse
  <1>17. CASE UNCHANGED studioVars
    BY <1>13, <1>17 DEF studioVars
  <1> QED  BY <1>5, <1>6, <1>7, <1>8, <1>9, <1>10, <1>11, <1>12, <1>14, <1>15, <1>16, <1>17 DEF StudioNext

\* A row that is shown once is counted once.
LEMMA OnceIsOne ==
    ASSUME NEW s \in Seq(Keys), NEW k, Once(s, k)
    PROVE  Cardinality({i \in DOMAIN s : s[i] = k}) = 1
  <1>1. PICK i \in 1..Len(s) : s[i] = k /\ \A j \in 1..Len(s) : s[j] = k => j = i
    BY DEF Once
  <1>2. DOMAIN s = 1..Len(s)
    OBVIOUS
  <1>3. {j \in DOMAIN s : s[j] = k} = {i}
    BY <1>1, <1>2
  <1> QED  BY <1>3, FS_Singleton

\* When every row of S is shown once, and no other, as many are shown as there are.
LEMMA ShownAreCounted ==
    ASSUME NEW s \in Seq(Keys), NEW S \in SUBSET Keys, \A k \in S : Once(s, k), \A i \in 1..Len(s) : s[i] \in S
    PROVE  Len(s) = Cardinality(S)
  <1>1. PICK n \in Nat : n = Len(s) /\ s \in [1..n -> Keys]
    BY LenProperties
  <1>2. s \in [1..n -> S] /\ \A k \in S : \E i \in 1..n : s[i] = k
    BY <1>1 DEF Once
  <1>3. s \in Surjection(1..n, S)
    BY <1>2 DEF Surjection
  <1>4. IsFiniteSet(1..n) /\ Cardinality(1..n) = n
    BY FS_Interval
  <1>5. IsFiniteSet(S) /\ Cardinality(S) <= n /\ Cardinality(S) \in Nat
    BY <1>3, <1>4, FS_Surjection, FS_CardinalityType
  <1>6. SUFFICES ASSUME Cardinality(S) < n PROVE FALSE
    BY <1>1, <1>5
  <1>7. PICK i \in 1..n, j \in 1..n : i # j /\ s[i] = s[j]
    <2>1. Cardinality(S) < Cardinality(1..n)
      BY <1>4, <1>6
    <2>2. \E i, j \in 1..n : i # j /\ s[i] = s[j]
      BY <1>2, <1>4, <1>5, <2>1, FS_PigeonHole
    <2> QED  BY <2>2
  <1>8. Once(s, s[i])
    BY <1>1
  <1> QED  BY <1>1, <1>7, <1>8 DEF Once

\* Paging to the end by key shows every row that stayed as it was exactly once, whatever other
\* requests insert, change and delete meanwhile and whatever a script's open transaction makes the
\* client see; paging by offset does when nothing changes; and the exact count is then the number
\* of rows shown (data/browse.ts).
THEOREM PagesAreComplete == StudioSpec => []PagesCoverTheTable
  <1>1. StudioInit => PagesInv
    BY PagesInit
  <1>2. PagesInv /\ [StudioNext]_studioVars => PagesInv'
    BY PagesStep
  <1>3. PagesInv => PagesCoverTheTable
    <2> SUFFICES ASSUME PagesInv, ~view.more PROVE PagesCoverTheTable
      BY DEF PagesCoverTheTable
    <2>1. PICK v : v = view
      OBVIOUS
    <2>2. /\ v \in View /\ v.shown \in Seq(Keys) /\ v.steady \in SUBSET Keys /\ v.desc \in BOOLEAN
          /\ table \in [Keys -> Marked] /\ SteadyOk(v, table) /\ KeyOk(v, table) /\ OffsetOk(v, table) /\ TotalOk(v)
      BY <2>1 DEF PagesInv, ViewOk, View, StudioInv, StudioTypes
    <2>3. ~v.offset => \A k \in v.steady : Once(v.shown, k)
      BY <2>1, <2>2 DEF KeyOk, Covered
    <2>4. ASSUME v.offset, v.still PROVE (\A k \in v.steady : Once(v.shown, k)) /\ Len(v.shown) = Cardinality(v.steady)
      <3>1. PICK all : all = Sorted(table, v.desc, v.steady)
        OBVIOUS
      <3>2. Listed(all, table, v.desc, v.steady)
        BY <2>2, <3>1, SortedRows
      <3>3. Len(v.shown) = Cardinality(v.steady) /\ \A i \in 1..Len(v.shown) : v.shown[i] = all[i]
        BY <2>1, <2>2, <2>4, <3>1 DEF OffsetOk
      <3>4. /\ Len(all) = Len(v.shown)
            /\ \A i, j \in 1..Len(all) : all[i] = all[j] => i = j
            /\ \A k \in v.steady : \E i \in 1..Len(all) : all[i] = k
        BY <3>2, <3>3 DEF Listed
      <3>5. ASSUME NEW k \in v.steady PROVE Once(v.shown, k)
        <4>1. PICK i \in 1..Len(all) : all[i] = k
          BY <3>4
        <4>2. \A j \in 1..Len(all) : all[j] = k => j = i
          BY <3>4, <4>1
        <4> QED  BY <3>3, <3>4, <4>1, <4>2 DEF Once
      <3> QED  BY <3>3, <3>5
    <2>5. ~v.offset \/ v.still => \A k \in v.steady : Cardinality({i \in DOMAIN v.shown : v.shown[i] = k}) = 1
      BY <2>2, <2>3, <2>4, OnceIsOne
    <2>6. v.still /\ v.total # 0 => v.total = Len(v.shown)
      <3>1. ASSUME v.still, ~v.offset PROVE Len(v.shown) = Cardinality(v.steady)
        <4>1. \A i \in 1..Len(v.shown) : v.shown[i] \in v.steady
          BY <2>2, <3>1 DEF KeyOk
        <4> QED  BY <2>2, <2>3, <3>1, <4>1, ShownAreCounted
      <3> QED  BY <2>2, <2>4, <3>1 DEF TotalOk
    <2> QED  BY <2>1, <2>5, <2>6 DEF PagesCoverTheTable
  <1> QED  BY <1>1, <1>2, <1>3, PTL DEF StudioSpec
=============================================================================
