------------------------- MODULE MaintenanceProofs -------------------------
(***************************************************************************)
(* Proofs about Maintenance: its types, that a migration which succeeded   *)
(* has delivered, and that the chain of backups does not fork by itself.   *)
(***************************************************************************)
EXTENDS Maintenance, FiniteSetTheorems, TLAPS

-----------------------------------------------------------------------------
(* The inductive invariant. *)

Row == [state : {"none", "queued", "running", "succeeded", "failed", "cancelled"},
        attempts : Nat, steps : 0..5, cancel : BOOLEAN]

Handler == [at : 0..7, cid : {0} \cup Ids, preload : SUBSET Extensions,
            failed : {"no", "error", "cancel"}]

\* The jobs that recreate the container.
Recreators == {Migration} \cup Extensions

\* The length of a job's path, and the most steps it has behind it when it resumes.
Last(j) == IF j \in BackupJobs THEN 3 ELSE IF j = Check THEN 4 ELSE IF j = Migration THEN 7 ELSE 6
MostSteps(j) == IF j = Migration THEN 4 ELSE IF j \in Extensions THEN 3 ELSE 5

\* The handler of a job runs while its row says so, is inside its path, has begun its steps,
\* and has given up only for a reason that still stands.
RunOf(j) ==
    /\ run[j].at # 0 <=> job[j].state = "running"
    /\ run[j].at \in 0..Last(j)
    /\ job[j].state = "running" => job[j].attempts > 0
    /\ job[j].steps <= MostSteps(j)
    /\ run[j].at # 0 /\ j \in Recreators => run[j].cid \in Ids /\ job[j].steps >= 1
    /\ run[j].at # 0 /\ run[j].failed = "cancel" => job[j].cancel \/ ~Up

RunsInv == \A j \in Jobs : RunOf(j)

\* The migration has recreated the container, in this attempt or an earlier one.
HasMoved == run[Migration].at >= 4 \/ job[Migration].steps >= 2 \/ job[Migration].state = "succeeded"

\* A migration that has begun has pointed the row at the bucket, and one that has recreated the
\* container has left no container that archives elsewhere.
Moved ==
    /\ job[Migration].steps >= 1 \/ job[Migration].state = "succeeded" => cfg.repo = "s3"
    /\ HasMoved /\ cont.id # 0 => cont.repo = "s3"
    /\ job[Migration].state = "succeeded" => repos["s3"] = "backup"

Inv == TypeOK /\ RunsInv /\ Moved

-----------------------------------------------------------------------------
(* The paths. *)

LEMMA PathTables ==
    /\ Len(BackupPath) = 3 /\ Len(MigrationPath) = 7 /\ Len(ExtensionPath) = 6 /\ Len(CheckPath) = 4
    /\ BackupPath[1] = "backup" /\ BackupPath[2] = "expire" /\ BackupPath[3] = "check"
    /\ MigrationPath[1] = "stop" /\ MigrationPath[2] = "remove" /\ MigrationPath[3] = "create"
    /\ MigrationPath[4] = "start" /\ MigrationPath[5] = "stanza" /\ MigrationPath[6] = "check"
    /\ MigrationPath[7] = "first"
    /\ ExtensionPath[1] = "stop" /\ ExtensionPath[2] = "remove" /\ ExtensionPath[3] = "create"
    /\ ExtensionPath[4] = "start" /\ ExtensionPath[5] = "wait" /\ ExtensionPath[6] = "extension"
    /\ CheckPath[1] = "volume" /\ CheckPath[2] = "restore" /\ CheckPath[3] = "ask"
    /\ CheckPath[4] = "clean"
  BY DEF BackupPath, MigrationPath, ExtensionPath, CheckPath, Recreate

LEMMA Paths ==
    /\ \A j \in BackupJobs : Path(j) = BackupPath
    /\ Path(Migration) = MigrationPath
    /\ Path(Check) = CheckPath
    /\ \A j \in Extensions : Path(j) = ExtensionPath
  BY JobsAssumption DEF Path

\* Kinds of jobs are told apart by name.
LEMMA Kinds ==
    /\ Migration \in Jobs /\ Check \in Jobs /\ Migration # Check
    /\ Migration \notin BackupJobs /\ Migration \notin Extensions
    /\ Check \notin BackupJobs /\ Check \notin Extensions
    /\ \A j \in BackupJobs : j \in Jobs /\ j \notin Extensions /\ j \notin Recreators
    /\ \A j \in Extensions : j \in Jobs
    /\ \A j \in Jobs : j \in BackupJobs \/ j = Migration \/ j = Check \/ j \in Extensions
  BY JobsAssumption DEF Jobs, Recreators

LEMMA LastIsLen == \A j \in Jobs : Len(Path(j)) = Last(j)
  BY Kinds, Paths, PathTables DEF Last

\* The calls of the migration, and which job makes which of the others.
LEMMA MigrationCalls ==
    ASSUME run[Migration].at \in 1..7
    PROVE  /\ Call(Migration) = "create" <=> run[Migration].at = 3
           /\ Call(Migration) = "start" <=> run[Migration].at = 4
           /\ Call(Migration) = "stanza" <=> run[Migration].at = 5
           /\ Call(Migration) = "check" <=> run[Migration].at = 6
           /\ Call(Migration) = "first" <=> run[Migration].at = 7
           /\ Call(Migration) \notin {"wait", "extension", "backup", "expire", "volume", "ask"}
  <1>1. Call(Migration) = MigrationPath[run[Migration].at]
    BY Paths DEF Call
  <1>2. \/ run[Migration].at = 1 \/ run[Migration].at = 2 \/ run[Migration].at = 3
        \/ run[Migration].at = 4 \/ run[Migration].at = 5 \/ run[Migration].at = 6
        \/ run[Migration].at = 7
    OBVIOUS
  <1> QED  BY <1>1, <1>2, PathTables

LEMMA ExtensionCalls ==
    ASSUME NEW e \in Extensions, run[e].at \in 1..6
    PROVE  /\ Call(e) = "create" <=> run[e].at = 3
           /\ Call(e) = "start" <=> run[e].at = 4
           /\ Call(e) = "wait" <=> run[e].at = 5
           /\ Call(e) = "extension" <=> run[e].at = 6
           /\ Call(e) \in {"stop", "remove", "create", "start", "wait", "extension"}
  <1>1. Call(e) = ExtensionPath[run[e].at]
    BY Paths DEF Call
  <1>2. \/ run[e].at = 1 \/ run[e].at = 2 \/ run[e].at = 3
        \/ run[e].at = 4 \/ run[e].at = 5 \/ run[e].at = 6
    OBVIOUS
  <1> QED  BY <1>1, <1>2, PathTables

LEMMA OtherCalls ==
    /\ \A j \in BackupJobs : run[j].at \in 1..3 => Call(j) \in {"backup", "expire", "check"}
    /\ run[Check].at \in 1..4 => Call(Check) \in {"volume", "restore", "ask", "clean"}
  <1>1. ASSUME NEW j \in BackupJobs, run[j].at \in 1..3
        PROVE  Call(j) \in {"backup", "expire", "check"}
    <2>1. Call(j) = BackupPath[run[j].at]
      BY Paths DEF Call
    <2> QED  BY <1>1, <2>1, PathTables
  <1>2. ASSUME run[Check].at \in 1..4
        PROVE  Call(Check) \in {"volume", "restore", "ask", "clean"}
    <2>1. Call(Check) = CheckPath[run[Check].at]
      BY Paths DEF Call
    <2> QED  BY <1>2, <2>1, PathTables
  <1> QED  BY <1>1, <1>2
-----------------------------------------------------------------------------
(* Sizes of sets. *)

LEMMA OneMore ==
    ASSUME NEW S, NEW x, NEW n \in Nat, IsFiniteSet(S), Cardinality(S) <= n
    PROVE  IsFiniteSet(S \cup {x}) /\ Cardinality(S \cup {x}) <= n + 1
  <1>1. Cardinality(S) \in Nat
    BY FS_CardinalityType
  <1>2. /\ IsFiniteSet(S \cup {x})
        /\ Cardinality(S \cup {x}) = Cardinality(S) \/ Cardinality(S \cup {x}) = Cardinality(S) + 1
    BY FS_AddElement
  <1> QED  BY <1>1, <1>2

\* One element for another does not make a set larger.
LEMMA Replaced ==
    ASSUME NEW S, NEW T, NEW x \in S, NEW y, IsFiniteSet(S), T \subseteq (S \ {x}) \cup {y}
    PROVE  Cardinality(T) <= Cardinality(S)
  <1>1. IsFiniteSet(S \ {x}) /\ Cardinality(S \ {x}) = Cardinality(S) - 1 /\ Cardinality(S) \in Nat
    BY FS_RemoveElement, FS_CardinalityType
  <1>2. Cardinality(S \ {x}) \in Nat
    BY <1>1, FS_CardinalityType
  <1>3. PICK n \in Nat : n = Cardinality(S \ {x})
    BY <1>2
  <1>4. IsFiniteSet((S \ {x}) \cup {y}) /\ Cardinality((S \ {x}) \cup {y}) <= n + 1
    <2>1. IsFiniteSet(S \ {x}) /\ Cardinality(S \ {x}) <= n
      BY <1>1, <1>3
    <2> QED  BY <2>1, OneMore
  <1>5. Cardinality(T) <= Cardinality((S \ {x}) \cup {y}) /\ Cardinality(T) \in Nat
        /\ Cardinality((S \ {x}) \cup {y}) \in Nat
    BY <1>4, FS_Subset, FS_CardinalityType
  <1> QED  BY <1>1, <1>3, <1>4, <1>5

LEMMA JobsFinite == IsFiniteSet(Jobs)
  <1>1. IsFiniteSet({Migration, Check}) /\ IsFiniteSet(BackupJobs) /\ IsFiniteSet(Extensions)
    <2>1. IsFiniteSet({Migration} \cup {Check})
      BY FS_Singleton, FS_Union
    <2> QED  BY <2>1, JobsAssumption
  <1>2. IsFiniteSet(BackupJobs \cup {Migration, Check})
    BY <1>1, FS_Union
  <1> QED  BY <1>1, <1>2, FS_Union DEF Jobs

\* There is always a fresh container id.
LEMMA FreshExists == Fresh \in Ids /\ Fresh # 0
  <1> DEFINE cids == {run[j].cid : j \in Jobs}
             N == Cardinality(Jobs)
             Old == {cont.id, row.cid} \cup cids
  <1>1. N \in Nat
    BY JobsFinite, FS_CardinalityType
  <1>2. IsFiniteSet(cids) /\ Cardinality(cids) <= N
    <2> DEFINE f == [j \in Jobs |-> run[j].cid]
    <2>1. f \in Surjection(Jobs, cids)
      BY DEF Surjection
    <2> HIDE DEF f, cids
    <2> QED  BY JobsFinite, <2>1, FS_Surjection
  <1> HIDE DEF cids, N
  <1>3. IsFiniteSet(cids \cup {cont.id}) /\ Cardinality(cids \cup {cont.id}) <= N + 1
    BY <1>1, <1>2, OneMore
  <1>4. /\ IsFiniteSet(cids \cup {cont.id} \cup {row.cid})
        /\ Cardinality(cids \cup {cont.id} \cup {row.cid}) <= N + 2
        /\ Cardinality(cids \cup {cont.id} \cup {row.cid}) \in Nat
    <2>1. PICK n \in Nat : n = N + 1
      BY <1>1
    <2>2. IsFiniteSet(cids \cup {cont.id} \cup {row.cid})
          /\ Cardinality(cids \cup {cont.id} \cup {row.cid}) <= n + 1
      BY <1>3, <2>1, OneMore
    <2> QED  BY <1>1, <2>1, <2>2, FS_CardinalityType
  <1>5. Old = cids \cup {cont.id} \cup {row.cid}
    OBVIOUS
  <1>6. IsFiniteSet(Ids) /\ Cardinality(Ids) = N + 3
    BY <1>1, FS_Interval DEF Ids, N
  <1>7. \E i \in Ids : i \notin Old
    <2> SUFFICES ASSUME Ids \subseteq Old PROVE FALSE
      OBVIOUS
    <2>1. Cardinality(Ids) <= Cardinality(Old)
      BY <1>4, <1>5, FS_Subset
    <2> QED  BY <1>1, <1>4, <1>5, <1>6, <2>1
  <1>8. \E i \in Ids : i # cont.id /\ i # row.cid /\ \A j \in Jobs : i # run[j].cid
    BY <1>7 DEF cids
  <1>9. Fresh \in Ids
    BY <1>8 DEF Fresh
  <1> QED  BY <1>1, <1>9 DEF Ids, N

-----------------------------------------------------------------------------
(* Rows of jobs. *)

\* scheduleRun() fills a free slot, or nothing.
LEMMA ScheduledRows ==
    ASSUME NEW jobs \in [Jobs -> Row]
    PROVE  \/ Scheduled(jobs) = jobs
           \/ \E k \in BackupJobs : /\ jobs[k].state = "none"
                                    /\ Scheduled(jobs) = [jobs EXCEPT ![k] = Queued]
  <1> DEFINE free == {j \in BackupJobs : jobs[j].state = "none"}
  <1>1. CASE free = {}
    BY <1>1 DEF Scheduled
  <1>2. CASE free # {}
    <2>1. PICK k \in free : k = CHOOSE j \in free : TRUE
      BY <1>2
    <2>2. Scheduled(jobs) = [jobs EXCEPT ![k] = Queued]
      BY <1>2, <2>1 DEF Scheduled
    <2> QED  BY <2>1, <2>2
  <1> QED  BY <1>1, <1>2

LEMMA RowTypes == NoJob \in Row /\ Queued \in Row /\ NoRun \in Handler /\ Queued.steps = 0
                  /\ Queued.state = "queued" /\ NoJob.steps = 0 /\ NoJob.state = "none"
                  /\ NoRun.at = 0 /\ NoRun.failed = "no"
  <1>1. NoJob \in Row /\ NoJob.steps = 0 /\ NoJob.state = "none"
    BY DEF NoJob, Row
  <1>2. Queued \in Row /\ Queued.steps = 0 /\ Queued.state = "queued"
    BY <1>1 DEF Queued, Row
  <1>3. NoRun \in Handler /\ NoRun.at = 0 /\ NoRun.failed = "no"
    BY DEF NoRun, Handler
  <1> QED  BY <1>1, <1>2, <1>3

\* A job that is settled: forgotten, or with its outcome and no steps.
LEMMA SettledRow ==
    ASSUME NEW j \in Jobs, NEW outcome \in {"succeeded", "failed", "cancelled"}
    PROVE  /\ Settled(j, outcome) \in Row
           /\ Settled(j, outcome).steps = 0
           /\ Settled(j, outcome).state # "running"
           /\ Settled(j, outcome).state = "succeeded" => outcome = "succeeded" /\ j \notin BackupJobs
  <1>1. CASE j \in BackupJobs
    BY <1>1, RowTypes DEF Settled
  <1>2. CASE j \notin BackupJobs
    <2>1. Settled(j, outcome) = [NoJob EXCEPT !.state = outcome]
      BY <1>2 DEF Settled
    <2> QED  BY <1>2, <2>1, RowTypes DEF Row
  <1> QED  BY <1>1, <1>2

\* The rows a job that ran is left with.
LEMMA FailedRow ==
    ASSUME TypeOK, NEW j \in Jobs
    PROVE  /\ FailedAttempt(j) \in Row
           /\ FailedAttempt(j).state \notin {"running", "succeeded"}
           /\ FailedAttempt(j).steps \in {0, job[j].steps}
  <1>1. job[j] \in Row
    BY DEF TypeOK, Row
  <1>2. CASE job[j].attempts >= MaxAttempts[j]
    BY <1>2, SettledRow DEF FailedAttempt
  <1>3. CASE ~(job[j].attempts >= MaxAttempts[j])
    <2>1. FailedAttempt(j) = [job[j] EXCEPT !.state = "queued"]
      BY <1>3 DEF FailedAttempt
    <2> QED  BY <1>1, <2>1 DEF Row
  <1> QED  BY <1>2, <1>3

LEMMA CancelledRow ==
    ASSUME TypeOK, NEW j \in Jobs, job[j].attempts > 0
    PROVE  /\ CancelledAttempt(j) \in Row
           /\ CancelledAttempt(j).state \notin {"running", "succeeded"}
           /\ CancelledAttempt(j).steps \in {0, job[j].steps}
  <1>1. job[j] \in Row
    BY DEF TypeOK, Row
  <1>2. CASE job[j].cancel /\ Up
    BY <1>2, SettledRow DEF CancelledAttempt
  <1>3. CASE ~(job[j].cancel /\ Up)
    <2>1. CancelledAttempt(j) = [job[j] EXCEPT !.state = "queued", !.attempts = @ - 1]
      BY <1>3 DEF CancelledAttempt
    <2>2. job[j].attempts - 1 \in Nat
      BY <1>1 DEF Row
    <2> QED  BY <1>1, <2>1, <2>2 DEF Row
  <1> QED  BY <1>2, <1>3

-----------------------------------------------------------------------------
(* What a step leaves alone. *)

\* A handler goes on; the row of a job that waits, or has ended, may be a new one.
Still(k) ==
    /\ run'[k] = run[k]
    /\ \/ job'[k] = job[k]
       \/ /\ job[k].state # "running" /\ job'[k].state \notin {"running", "succeeded"}
          /\ job'[k].steps = 0
       \/ job'[k] = [job[k] EXCEPT !.cancel = TRUE]

LEMMA StillRuns ==
    ASSUME TypeOK, NEW k \in Jobs, RunOf(k), Still(k), Up' => Up \/ run[k].at = 0
    PROVE  RunOf(k)'
  <1>1. job[k] \in Row
    BY DEF TypeOK, Row
  <1>2. run'[k] = run[k]
    BY DEF Still
  <1>3. CASE job'[k] = job[k]
    BY <1>2, <1>3 DEF RunOf
  <1>4. CASE job[k].state # "running" /\ job'[k].state \notin {"running", "succeeded"} /\ job'[k].steps = 0
    <2>1. run[k].at = 0 /\ run'[k].at = 0
      BY <1>2, <1>4 DEF RunOf
    <2> QED  BY <1>2, <1>4, <2>1 DEF RunOf, MostSteps
  <1>5. CASE job'[k] = [job[k] EXCEPT !.cancel = TRUE]
    <2>1. job'[k].state = job[k].state /\ job'[k].attempts = job[k].attempts
          /\ job'[k].steps = job[k].steps /\ job'[k].cancel
      BY <1>1, <1>5 DEF Row
    <2> QED  BY <1>2, <2>1 DEF RunOf
  <1> QED  BY <1>3, <1>4, <1>5 DEF Still

\* No step takes the row's repository or a backup away, or leaves a container that archives
\* elsewhere than the one before or, once the row says so, the bucket.
WorldKept ==
    /\ cfg.repo = "s3" => cfg'.repo = "s3"
    /\ repos["s3"] = "backup" => repos'["s3"] = "backup"
    /\ cfg.repo = "s3" /\ cont'.id # 0 => cont'.repo = "s3" \/ (cont.id # 0 /\ cont'.repo = cont.repo)

LEMMA StillMoved ==
    ASSUME TypeOK, RunsInv, Moved, WorldKept, Still(Migration)
    PROVE  Moved'
  <1>1. job[Migration] \in Row /\ RunOf(Migration)
    BY Kinds DEF TypeOK, Row, RunsInv
  <1>2. HasMoved => cfg.repo = "s3"
    <2>1. run[Migration].at >= 4 => job[Migration].steps >= 1
      BY <1>1 DEF RunOf, Recreators
    <2>2. job[Migration].steps >= 2 => job[Migration].steps >= 1
      BY <1>1 DEF Row
    <2> QED  BY <2>1, <2>2 DEF HasMoved, Moved
  <1>3. /\ run'[Migration].at = run[Migration].at
        /\ job'[Migration].steps = job[Migration].steps \/ job'[Migration].steps = 0
        /\ job'[Migration].state = "succeeded" => job[Migration].state = "succeeded"
    BY <1>1 DEF Still, Row
  <1>4. job[Migration].steps \in 0..5
    BY <1>1 DEF Row
  <1>5. /\ HasMoved' => HasMoved
        /\ job'[Migration].steps >= 1 => job[Migration].steps >= 1
    BY <1>3, <1>4 DEF HasMoved
  <1> QED  BY <1>2, <1>3, <1>5 DEF Moved, WorldKept
LEMMA ScheduledStill ==
    ASSUME NEW jobs \in [Jobs -> Row]
    PROVE  /\ Scheduled(jobs) \in [Jobs -> Row]
           /\ \A k \in Jobs : \/ Scheduled(jobs)[k] = jobs[k]
                              \/ jobs[k].state = "none" /\ Scheduled(jobs)[k] = Queued
  <1>1. CASE Scheduled(jobs) = jobs
    BY <1>1
  <1>2. ASSUME NEW k \in BackupJobs, jobs[k].state = "none", Scheduled(jobs) = [jobs EXCEPT ![k] = Queued]
        PROVE  /\ Scheduled(jobs) \in [Jobs -> Row]
               /\ \A l \in Jobs : \/ Scheduled(jobs)[l] = jobs[l]
                                  \/ jobs[l].state = "none" /\ Scheduled(jobs)[l] = Queued
    BY <1>2, RowTypes, Kinds
  <1> QED  BY <1>1, <1>2, ScheduledRows

-----------------------------------------------------------------------------
(* Requests, the schedule, the reconciler and the end of a process change   *)
(* no handler.                                                             *)

LEMMA QuietInv ==
    ASSUME Inv, TypeOK', \A k \in Jobs : Still(k), WorldKept,
           Up' => Up \/ \A k \in Jobs : run[k].at = 0
    PROVE  Inv'
  <1>1. \A k \in Jobs : RunOf(k)'
    BY StillRuns DEF Inv, RunsInv
  <1>2. Moved'
    BY StillMoved, Kinds DEF Inv
  <1> QED  BY <1>1, <1>2 DEF Inv, RunsInv

\* The variables that have a type of their own, when only some of them change.
LEMMA RequestTyped ==
    ASSUME TypeOK, Request
    PROVE  used' \in [requests : 0..MaxRequests, faults : 0..MaxFaults]
  BY BoundsAssumption DEF TypeOK, Request

LEMMA JobTyped == TypeOK => job \in [Jobs -> Row] /\ run \in [Jobs -> Handler]
  BY DEF TypeOK, Row, Handler

LEMMA ScheduleInv ==
    ASSUME Inv, job' \in {job, Scheduled(job)}, used' \in [requests : 0..MaxRequests, faults : 0..MaxFaults],
           cfg' \in [enabled : BOOLEAN, repo : {"local", "s3"}, awaitingFirstBackup : BOOLEAN],
           cfg'.repo = cfg.repo,
           UNCHANGED <<row, repos, cont, created, run, scratch, host>>
    PROVE  Inv'
  <1>1. job \in [Jobs -> Row]
    BY JobTyped DEF Inv
  <1>2. job' \in [Jobs -> Row] /\ \A k \in Jobs : job'[k] = job[k] \/ (job[k].state = "none" /\ job'[k] = Queued)
    BY <1>1, ScheduledStill
  <1>3. TypeOK'
    BY <1>2 DEF Inv, TypeOK, Row
  <1>4. \A k \in Jobs : Still(k)
    BY <1>2, RowTypes DEF Still
  <1>5. WorldKept
    BY DEF WorldKept
  <1>6. Up' => Up
    BY DEF Up
  <1> QED  BY <1>3, <1>4, <1>5, <1>6, QuietInv

\* A request queues a job that is not queued or running.
LEMMA QueueInv ==
    ASSUME Inv, NEW j \in Jobs, job[j].state # "running",
           job' = [job EXCEPT ![j] = Queued],
           Request, UNCHANGED <<row, cfg, repos, cont, created, run, scratch, host>>
    PROVE  Inv'
  <1>1. job \in [Jobs -> Row]
    BY JobTyped DEF Inv
  <1>2. job' \in [Jobs -> Row]
    BY <1>1, RowTypes
  <1>3. TypeOK'
    BY <1>2, RequestTyped DEF Inv, TypeOK, Row
  <1>4. \A k \in Jobs : Still(k)
    BY <1>1, RowTypes DEF Still
  <1>5. WorldKept
    BY DEF WorldKept
  <1>6. Up' => Up
    BY DEF Up
  <1> QED  BY <1>3, <1>4, <1>5, <1>6, QuietInv

\* A step that touches no job and no repository.
LEMMA AsideInv ==
    ASSUME Inv, TypeOK', UNCHANGED <<cfg, repos, job, run>>,
           cont'.id = cont.id, cont'.repo = cont.repo,
           Up' => Up \/ \A k \in Jobs : run[k].at = 0
    PROVE  Inv'
  <1>1. \A k \in Jobs : Still(k)
    BY DEF Still
  <1>2. WorldKept
    BY DEF WorldKept
  <1> QED  BY <1>1, <1>2, QuietInv

LEMMA RequestCancelInv ==
    ASSUME Inv, NEW j \in Jobs, RequestCancel(j)
    PROVE  Inv'
  <1>1. job \in [Jobs -> Row] /\ job[j] \in Row
    BY JobTyped DEF Inv
  <1>2. CASE job[j].state = "running"
    <2>1. job' = [job EXCEPT ![j] = [job[j] EXCEPT !.cancel = TRUE]]
      BY <1>2 DEF RequestCancel
    <2>2. [job[j] EXCEPT !.cancel = TRUE] \in Row
      BY <1>1 DEF Row
    <2>3. job' \in [Jobs -> Row]
      BY <1>1, <2>1, <2>2
    <2>4. \A k \in Jobs : Still(k)
      BY <1>1, <2>1 DEF Still, RequestCancel
    <2> QED  BY <2>3, <2>4, QuietInv, RequestTyped DEF RequestCancel, Inv, TypeOK, Row, WorldKept, Up
  <1>3. CASE job[j].state # "running"
    <2>1. job' = [job EXCEPT ![j] = Settled(j, "cancelled")]
      BY <1>1, <1>3 DEF RequestCancel
    <2>2. /\ Settled(j, "cancelled") \in Row
          /\ Settled(j, "cancelled").steps = 0
          /\ Settled(j, "cancelled").state \notin {"running", "succeeded"}
      BY SettledRow
    <2>3. job' \in [Jobs -> Row]
      BY <1>1, <2>1, <2>2
    <2>4. \A k \in Jobs : Still(k)
      BY <1>1, <1>3, <2>1, <2>2 DEF Still, RequestCancel
    <2> QED  BY <2>3, <2>4, QuietInv, RequestTyped DEF RequestCancel, Inv, TypeOK, Row, WorldKept, Up
  <1> QED  BY <1>2, <1>3

\* What the operator, the monitor, the sweep, the reconciler and the end of a process do.
Quiet ==
    \/ EnsureScheduled \/ RunNow \/ Migrate \/ RequestCheck \/ Reconcile
    \/ \E on \in BOOLEAN : Configure(on) \/ SetStorage(on) \/ Sample(on) \/ SetRunning(on)
    \/ \E e \in Extensions : Enable(e) \/ Disable(e)
    \/ \E j \in Jobs : RequestCancel(j)
    \/ Shutdown \/ Restart

LEMMA QuietSteps ==
    ASSUME Inv, Quiet
    PROVE  Inv'
  <1> USE DEF Inv
  <1>1. CASE EnsureScheduled
    BY <1>1, ScheduleInv DEF EnsureScheduled, TypeOK
  <1>2. CASE RunNow
    <2>1. Request
      BY <1>2 DEF RunNow
    <2> QED  BY <1>2, <2>1, ScheduleInv, RequestTyped DEF RunNow, TypeOK
  <1>3. CASE Migrate
    <2>1. Request /\ job[Migration].state = "none"
      BY <1>3 DEF Migrate
    <2> QED  BY <1>3, <2>1, QueueInv, Kinds DEF Migrate
  <1>4. CASE RequestCheck
    <2>1. Request /\ job[Check].state # "running"
      BY <1>4 DEF RequestCheck
    <2> QED  BY <1>4, <2>1, QueueInv, Kinds DEF RequestCheck
  <1>5. CASE Reconcile
    <2>1. TypeOK'
      BY <1>5 DEF Reconcile, TypeOK
    <2> QED  BY <1>5, <2>1, AsideInv DEF Reconcile, Up
  <1>6. ASSUME NEW on \in BOOLEAN, Configure(on) PROVE Inv'
    <2>1. Request /\ cfg' = [cfg EXCEPT !.enabled = on] /\ job' \in {job, Scheduled(job)}
      BY <1>6 DEF Configure
    <2>2. cfg' \in [enabled : BOOLEAN, repo : {"local", "s3"}, awaitingFirstBackup : BOOLEAN]
          /\ cfg'.repo = cfg.repo
      BY <2>1 DEF TypeOK
    <2> QED  BY <1>6, <2>1, <2>2, ScheduleInv, RequestTyped DEF Configure
  <1>7. ASSUME NEW on \in BOOLEAN, SetStorage(on) \/ Sample(on) PROVE Inv'
    <2>1. Request /\ UNCHANGED <<row, cfg, repos, cont, created, job, run, scratch>>
      BY <1>7 DEF SetStorage, Sample
    <2>2. host' \in [storage : BOOLEAN, headroom : BOOLEAN, process : {"up", "stopping"}]
          /\ host'.process = host.process
      BY <1>7 DEF SetStorage, Sample, TypeOK
    <2>3. TypeOK'
      BY <2>1, <2>2, RequestTyped DEF TypeOK
    <2> QED  BY <2>1, <2>2, <2>3, AsideInv DEF Up
  <1>8. ASSUME NEW on \in BOOLEAN, SetRunning(on) PROVE Inv'
    <2>1. Request
      BY <1>8 DEF SetRunning
    <2>2. /\ cont' \in [id : {0} \cup Ids, up : BOOLEAN, repo : {"local", "s3"}, preload : SUBSET Extensions]
          /\ cont'.id = cont.id /\ cont'.repo = cont.repo
      BY <1>8 DEF SetRunning, TypeOK
    <2>3. row' \in [state : {"running", "stopped", "failed"}, cid : Ids, preload : SUBSET Extensions]
      BY <1>8 DEF SetRunning, TypeOK
    <2>4. TypeOK'
      BY <1>8, <2>1, <2>2, <2>3, RequestTyped DEF SetRunning, TypeOK
    <2> QED  BY <1>8, <2>2, <2>4, AsideInv DEF SetRunning, Up
  <1>9. ASSUME NEW e \in Extensions, Enable(e) PROVE Inv'
    <2>1. Request /\ job[e].state # "running"
      BY <1>9 DEF Enable
    <2> QED  BY <1>9, <2>1, QueueInv, Kinds DEF Enable
  <1>10. ASSUME NEW e \in Extensions, Disable(e) PROVE Inv'
    <2>1. Request
      BY <1>10 DEF Disable
    <2>2. TypeOK'
      BY <1>10, <2>1, RequestTyped DEF Disable, TypeOK
    <2> QED  BY <1>10, <2>2, AsideInv DEF Disable, Up
  <1>11. CASE Shutdown
    <2>1. TypeOK'
      BY <1>11, BoundsAssumption DEF Shutdown, TypeOK
    <2> QED  BY <1>11, <2>1, AsideInv DEF Shutdown, Up
  <1>12. CASE Restart
    <2>1. TypeOK'
      BY <1>12 DEF Restart, TypeOK
    <2> QED  BY <1>12, <2>1, AsideInv DEF Restart, Up
  <1> QED  BY <1>1, <1>2, <1>3, <1>4, <1>5, <1>6, <1>7, <1>8, <1>9, <1>10, <1>11, <1>12,
              RequestCancelInv DEF Quiet
-----------------------------------------------------------------------------
(* Steps of one job. *)

\* A handler starts or goes on.
LEMMA GoesOn ==
    ASSUME Inv, NEW j \in Jobs, NEW rec \in Row, NEW r \in Handler,
           job' = [job EXCEPT ![j] = rec], run' = [run EXCEPT ![j] = r],
           rec.state = "running", rec.attempts > 0, rec.steps <= MostSteps(j), r.at \in 1..Last(j),
           j \in Recreators => r.cid \in Ids /\ rec.steps >= 1,
           r.failed = "cancel" => rec.cancel \/ ~Up,
           Up' = Up
    PROVE  /\ RunsInv'
           /\ job' \in [Jobs -> Row] /\ run' \in [Jobs -> Handler]
           /\ \A k \in Jobs : k # j => Still(k)
           /\ job'[j] = rec /\ run'[j] = r
  <1>1. job \in [Jobs -> Row] /\ run \in [Jobs -> Handler]
    BY JobTyped DEF Inv
  <1>2. job' \in [Jobs -> Row] /\ run' \in [Jobs -> Handler] /\ job'[j] = rec /\ run'[j] = r
    BY <1>1
  <1>3. \A k \in Jobs : k # j => Still(k)
    BY <1>1 DEF Still
  <1>4. RunOf(j)'
    <2>1. r.at \in 0..Last(j) /\ r.at # 0
      BY DEF Last
    <2> QED  BY <1>2, <2>1 DEF RunOf
  <1>5. \A k \in Jobs : k # j => RunOf(k)'
    BY <1>3, StillRuns DEF Inv, RunsInv
  <1> QED  BY <1>2, <1>3, <1>4, <1>5 DEF RunsInv

\* A handler has ended, or does not start; a slot may be filled with a successor.
LEMMA Ends ==
    ASSUME Inv, NEW j \in Jobs,
           job' \in [Jobs -> Row], run' \in [Jobs -> Handler], run'[j].at = 0,
           job'[j].state # "running", job'[j].steps <= MostSteps(j),
           \A k \in Jobs : k # j => Still(k),
           Up' = Up
    PROVE  RunsInv'
  <1>1. RunOf(j)'
    <2>1. run'[j].at \in 0..Last(j)
      BY DEF Last
    <2> QED  BY <2>1 DEF RunOf
  <1>2. \A k \in Jobs : k # j => RunOf(k)'
    BY StillRuns DEF Inv, RunsInv
  <1> QED  BY <1>1, <1>2 DEF RunsInv

\* The migration gets no further than it was.
LEMMA MovedKept ==
    ASSUME Inv, WorldKept,
           HasMoved' => HasMoved,
           job'[Migration].steps >= 1 => job[Migration].steps >= 1,
           job'[Migration].state = "succeeded" => job[Migration].state = "succeeded"
    PROVE  Moved'
  <1>1. job[Migration] \in Row /\ RunOf(Migration)
    BY Kinds DEF Inv, TypeOK, Row, RunsInv
  <1>2. HasMoved => cfg.repo = "s3"
    <2>1. run[Migration].at >= 4 => job[Migration].steps >= 1
      BY <1>1 DEF RunOf, Recreators
    <2>2. job[Migration].steps >= 2 => job[Migration].steps >= 1
      BY <1>1 DEF Row
    <2> QED  BY <2>1, <2>2 DEF HasMoved, Moved, Inv
  <1> QED  BY <1>2 DEF Inv, Moved, WorldKept

-----------------------------------------------------------------------------
(* A job is claimed. *)

\* A handler at a call, with the container it works on.
LEMMA HandlerAt ==
    ASSUME NEW n \in Handler, NEW a \in 0..7, NEW c \in Ids
    PROVE  /\ [n EXCEPT !.at = a, !.cid = c] \in Handler
           /\ [n EXCEPT !.at = a, !.cid = c].at = a
           /\ [n EXCEPT !.at = a, !.cid = c].failed = n.failed
  <1>1. [n EXCEPT !.at = a] \in Handler
    BY DEF Handler
  <1>2. [[n EXCEPT !.at = a] EXCEPT !.cid = c] \in Handler
    BY <1>1 DEF Handler
  <1>3. [n EXCEPT !.at = a, !.cid = c] = [[n EXCEPT !.at = a] EXCEPT !.cid = c]
    BY DEF Handler
  <1>4. /\ [n EXCEPT !.at = a, !.cid = c].at = a
        /\ [n EXCEPT !.at = a, !.cid = c].failed = n.failed
    BY DEF Handler
  <1> QED  BY <1>2, <1>3, <1>4

Claimed(j) == [job[j] EXCEPT !.state = "running", !.attempts = @ + 1]

LEMMA ClaimedRow ==
    ASSUME Inv, NEW j \in Jobs, job[j].state = "queued"
    PROVE  /\ Claimed(j) \in Row
           /\ Claimed(j).state = "running" /\ Claimed(j).attempts > 0
           /\ Claimed(j).steps = job[j].steps /\ job[j].steps \in 0..5
           /\ job[j].steps <= MostSteps(j)
           /\ run[j].at = 0
           /\ [Claimed(j) EXCEPT !.state = "queued"] \in Row
           /\ [Claimed(j) EXCEPT !.state = "queued"].state = "queued"
           /\ [Claimed(j) EXCEPT !.state = "queued"].steps = job[j].steps
  <1>1. job[j] \in Row /\ RunOf(j)
    BY DEF Inv, TypeOK, Row, RunsInv
  <1>2. /\ Claimed(j) \in Row
        /\ Claimed(j).state = "running" /\ Claimed(j).attempts > 0
        /\ Claimed(j).steps = job[j].steps /\ job[j].steps \in 0..5
    <2>1. job[j].attempts + 1 \in Nat /\ job[j].attempts + 1 > 0
      BY <1>1 DEF Row
    <2> QED  BY <1>1, <2>1 DEF Claimed, Row
  <1>3. /\ [Claimed(j) EXCEPT !.state = "queued"] \in Row
        /\ [Claimed(j) EXCEPT !.state = "queued"].state = "queued"
        /\ [Claimed(j) EXCEPT !.state = "queued"].steps = job[j].steps
    BY <1>2 DEF Row
  <1>4. job[j].steps <= MostSteps(j) /\ run[j].at = 0
    BY <1>1 DEF RunOf, Row
  <1> QED  BY <1>2, <1>3, <1>4

\* A job of the schedule: claimed, deferred, put off or dropped.
LEMMA BackupBegins ==
    ASSUME Inv, NEW j \in BackupJobs, job[j].state = "queued", BeginsBackup(j, Claimed(j)),
           UNCHANGED <<row, cfg, repos, cont, created, scratch, host, used>>
    PROVE  Inv'
  <1>1. job \in [Jobs -> Row] /\ run \in [Jobs -> Handler] /\ j \in Jobs /\ j # Migration
    BY JobTyped, Kinds DEF Inv
  <1>2. Up' = Up
    BY DEF Up
  <1>3. WorldKept
    BY DEF WorldKept
  <1>4. CASE \E rec \in Row : job' = [job EXCEPT ![j] = rec] /\ run' = run
                            /\ rec.state # "running" /\ rec.steps <= MostSteps(j)
    <2>1. PICK rec \in Row : job' = [job EXCEPT ![j] = rec] /\ run' = run
                            /\ rec.state # "running" /\ rec.steps <= MostSteps(j)
      BY <1>4
    <2>2. job' \in [Jobs -> Row] /\ job'[j] = rec /\ \A k \in Jobs : k # j => Still(k)
      BY <1>1, <2>1 DEF Still
    <2>3. run'[j].at = 0
      BY <1>1, <2>1, ClaimedRow
    <2>4. RunsInv'
      BY <1>1, <1>2, <2>1, <2>2, <2>3, Ends
    <2>5. Moved'
      BY <1>1, <1>3, <2>2, StillMoved, Kinds DEF Inv
    <2>6. TypeOK'
      BY <2>1, <2>2 DEF Inv, TypeOK, Row
    <2> QED  BY <2>4, <2>5, <2>6 DEF Inv
  <1>5. CASE run' = run /\ job' = Scheduled([job EXCEPT ![j] = NoJob])
    <2>1. PICK jobs \in [Jobs -> Row] : jobs = [job EXCEPT ![j] = NoJob]
      BY <1>1, RowTypes
    <2>2. /\ job' \in [Jobs -> Row]
          /\ \A k \in Jobs : job'[k] = jobs[k] \/ (jobs[k].state = "none" /\ job'[k] = Queued)
      BY <1>5, <2>1, ScheduledStill
    <2>3. \A k \in Jobs : k # j => Still(k)
      BY <1>1, <1>5, <2>1, <2>2, RowTypes DEF Still
    <2>4. job'[j] = NoJob \/ job'[j] = Queued
      BY <1>1, <2>1, <2>2
    <2>5. run'[j].at = 0 /\ job'[j].state # "running" /\ job'[j].steps <= MostSteps(j)
      <3>1. job'[j].state # "running" /\ job'[j].steps = 0
        BY <2>4, RowTypes
      <3>2. run'[j].at = 0
        BY <1>1, <1>5, ClaimedRow
      <3> QED  BY <3>1, <3>2 DEF MostSteps
    <2>6. RunsInv'
      BY <1>1, <1>2, <1>5, <2>2, <2>3, <2>5, Ends
    <2>7. Moved'
      BY <1>1, <1>3, <2>3, StillMoved, Kinds DEF Inv
    <2>8. TypeOK'
      <3>1. run' = run /\ job' \in [Jobs -> Row]
        BY <1>5, <2>2
      <3> QED  BY <3>1 DEF Inv, TypeOK, Row
    <2> QED  BY <2>6, <2>7, <2>8 DEF Inv
  <1>6. CASE Becomes(j, Claimed(j)) /\ Goes(j, [NoRun EXCEPT !.at = 1, !.cid = row.cid])
    <2>1. PICK r \in Handler : r = [NoRun EXCEPT !.at = 1, !.cid = row.cid] /\ r.at = 1 /\ r.failed = "no"
      <3>1. row.cid \in Ids
        BY DEF Inv, TypeOK
      <3>2. NoRun \in Handler /\ NoRun.failed = "no"
        BY RowTypes
      <3>3. [NoRun EXCEPT !.at = 1, !.cid = row.cid] \in Handler
        <4>1. 1 \in 0..7
          OBVIOUS
        <4> QED  BY <3>1, <3>2, <4>1, HandlerAt
      <3>4. /\ [NoRun EXCEPT !.at = 1, !.cid = row.cid].at = 1
            /\ [NoRun EXCEPT !.at = 1, !.cid = row.cid].failed = "no"
        BY <3>2 DEF Handler
      <3> QED  BY <3>3, <3>4
    <2>2. PICK rec \in Row : rec = Claimed(j)
      BY <1>1, ClaimedRow
    <2>3. rec.state = "running" /\ rec.attempts > 0 /\ rec.steps <= MostSteps(j)
      BY <1>1, <2>2, ClaimedRow
    <2>4. r.at \in 1..Last(j) /\ j \notin Recreators
      BY <2>1, Kinds DEF Last
    <2>5. /\ RunsInv' /\ job' \in [Jobs -> Row] /\ run' \in [Jobs -> Handler]
          /\ \A k \in Jobs : k # j => Still(k)
      BY <1>1, <1>2, <1>6, <2>1, <2>2, <2>3, <2>4, GoesOn DEF Becomes, Goes
    <2>6. Moved'
      BY <1>1, <1>3, <2>5, StillMoved, Kinds DEF Inv
    <2>7. TypeOK'
      BY <2>5 DEF Inv, TypeOK, Row, Handler
    <2> QED  BY <2>5, <2>6, <2>7 DEF Inv
  <1>7. \A rec \in Row : rec.state # "running" /\ rec.steps <= MostSteps(j) /\ run' = run
                         /\ Becomes(j, rec) => Inv'
    BY <1>4 DEF Becomes
  <1>8. NoJob \in Row /\ NoJob.state # "running" /\ NoJob.steps <= MostSteps(j)
    BY RowTypes DEF MostSteps
  <1>9. /\ [Claimed(j) EXCEPT !.state = "queued"] \in Row
        /\ [Claimed(j) EXCEPT !.state = "queued"].state # "running"
        /\ [Claimed(j) EXCEPT !.state = "queued"].steps <= MostSteps(j)
    BY <1>1, ClaimedRow
  <1>10. CASE row.state # "running" /\ UNCHANGED run
              /\ (Becomes(j, NoJob) \/ Becomes(j, [Claimed(j) EXCEPT !.state = "queued"]))
    BY <1>7, <1>8, <1>9, <1>10
  <1>11. CASE Becomes(j, NoJob) /\ UNCHANGED run
    BY <1>7, <1>8, <1>11
  <1> QED  BY <1>5, <1>6, <1>10, <1>11 DEF BeginsBackup, Becomes
\* The row of a job that recreates the container once it has begun.
Begun(j) == [Claimed(j) EXCEPT !.steps = IF @ = 0 THEN 1 ELSE @]

LEMMA BegunRow ==
    ASSUME Inv, NEW j \in Recreators, job[j].state = "queued"
    PROVE  /\ Begun(j) \in Row /\ Begun(j).state = "running" /\ Begun(j).attempts > 0
           /\ Begun(j).steps >= 1 /\ Begun(j).steps <= MostSteps(j)
           /\ Begun(j).steps >= 2 => job[j].steps >= 2
           /\ Resume(job[j].steps) \in 1..Last(j)
           /\ Resume(job[j].steps) \in 0..7
           /\ Resume(job[j].steps) >= 4 => job[j].steps >= 2
  <1>1. /\ j \in Jobs
        /\ Claimed(j) \in Row
        /\ Claimed(j).state = "running" /\ Claimed(j).attempts > 0
        /\ Claimed(j).steps = job[j].steps /\ job[j].steps \in 0..5
        /\ job[j].steps <= MostSteps(j)
    BY Kinds, ClaimedRow DEF Recreators
  <1>2. MostSteps(j) \in {3, 4} /\ Last(j) = MostSteps(j) + 3
    BY Kinds DEF MostSteps, Last, Recreators
  <1>3. PICK s \in 0..5 : s = IF job[j].steps = 0 THEN 1 ELSE job[j].steps
    BY <1>1
  <1>4. Begun(j) = [Claimed(j) EXCEPT !.steps = s]
    BY <1>1, <1>3 DEF Begun, Row
  <1>5. /\ Begun(j) \in Row /\ Begun(j).state = "running" /\ Begun(j).attempts > 0
        /\ Begun(j).steps = s
    BY <1>1, <1>4 DEF Row
  <1>6. s >= 1 /\ s <= MostSteps(j) /\ (s >= 2 => job[j].steps >= 2)
    BY <1>1, <1>2, <1>3
  <1>7. /\ Resume(job[j].steps) \in 1..Last(j)
        /\ Resume(job[j].steps) \in 0..7
        /\ Resume(job[j].steps) >= 4 => job[j].steps >= 2
    BY <1>1, <1>2 DEF Resume
  <1> QED  BY <1>5, <1>6, <1>7

\* The migration begins, or there is no bucket.
LEMMA MigrationBegins ==
    ASSUME Inv, job[Migration].state = "queued", BeginsMigration(Claimed(Migration)),
           UNCHANGED <<row, repos, cont, created, scratch, host, used>>
    PROVE  Inv'
  <1>1. job \in [Jobs -> Row] /\ run \in [Jobs -> Handler] /\ Migration \in Jobs /\ Migration \in Recreators
    BY JobTyped, Kinds DEF Inv, Recreators
  <1>2. Up' = Up
    BY DEF Up
  <1>3. Claimed(Migration).steps = job[Migration].steps /\ run[Migration].at = 0
    BY <1>1, ClaimedRow
  <1>4. CASE host.storage
    <2>1. /\ job' = [job EXCEPT ![Migration] = Begun(Migration)]
          /\ run' = [run EXCEPT ![Migration] = [at |-> Resume(job[Migration].steps), cid |-> row.cid,
                                                preload |-> row.preload, failed |-> "no"]]
          /\ cfg' = IF job[Migration].steps = 0
                    THEN [cfg EXCEPT !.repo = "s3", !.awaitingFirstBackup = TRUE] ELSE cfg
      BY <1>3, <1>4 DEF BeginsMigration, Becomes, Goes, Begun
    <2>2. [at |-> Resume(job[Migration].steps), cid |-> row.cid,
           preload |-> row.preload, failed |-> "no"] \in Handler
      BY <1>1, BegunRow DEF Inv, TypeOK, Handler
    <2>3. row.cid \in Ids
      BY DEF Inv, TypeOK
    <2>4. /\ RunsInv' /\ job' \in [Jobs -> Row] /\ run' \in [Jobs -> Handler]
          /\ job'[Migration] = Begun(Migration)
          /\ run'[Migration].at = Resume(job[Migration].steps)
      BY <1>1, <1>2, <2>1, <2>2, <2>3, BegunRow, GoesOn
    <2>5. cfg' \in [enabled : BOOLEAN, repo : {"local", "s3"}, awaitingFirstBackup : BOOLEAN]
          /\ cfg'.repo = "s3"
      <3>1. CASE job[Migration].steps = 0
        BY <2>1, <3>1 DEF Inv, TypeOK
      <3>2. CASE job[Migration].steps # 0
        <4>1. job[Migration].steps >= 1
          BY <1>1, <3>2 DEF Row
        <4> QED  BY <2>1, <3>2, <4>1 DEF Inv, TypeOK, Moved
      <3> QED  BY <3>1, <3>2
    <2>6. TypeOK'
      BY <2>4, <2>5 DEF Inv, TypeOK, Row, Handler
    <2>7. HasMoved' => HasMoved
      BY <1>1, <2>4, BegunRow DEF HasMoved
    <2>8. Moved'
      BY <1>1, <2>4, <2>5, <2>7, BegunRow DEF Inv, Moved
    <2> QED  BY <2>4, <2>6, <2>8 DEF Inv
  <1>5. CASE ~host.storage
    <2>1. job' = [job EXCEPT ![Migration] = Settled(Migration, "failed")] /\ cfg' = cfg /\ run' = run
      BY <1>5 DEF BeginsMigration, Becomes
    <2>2. /\ Settled(Migration, "failed") \in Row
          /\ Settled(Migration, "failed").steps = 0
          /\ Settled(Migration, "failed").state \notin {"running", "succeeded"}
      BY <1>1, SettledRow
    <2>3. job' \in [Jobs -> Row]
      BY <1>1, <2>1, <2>2
    <2>4. \A k \in Jobs : Still(k)
      BY <1>1, <2>1, <2>2 DEF Still
    <2>5. TypeOK' /\ WorldKept
      BY <2>1, <2>3 DEF Inv, TypeOK, Row, WorldKept
    <2> QED  BY <1>2, <2>4, <2>5, QuietInv
  <1> QED  BY <1>4, <1>5

LEMMA ExtensionBegins ==
    ASSUME Inv, NEW e \in Extensions, job[e].state = "queued", BeginsExtension(e, Claimed(e)),
           UNCHANGED <<cfg, repos, cont, created, scratch, host, used>>
    PROVE  Inv'
  <1>1. job \in [Jobs -> Row] /\ run \in [Jobs -> Handler] /\ e \in Jobs /\ e \in Recreators /\ e # Migration
    BY JobTyped, Kinds DEF Inv, Recreators
  <1>2. Up' = Up
    BY DEF Up
  <1>3. Claimed(e).steps = job[e].steps
    BY <1>1, ClaimedRow
  <1>4. /\ job' = [job EXCEPT ![e] = Begun(e)]
        /\ run' = [run EXCEPT ![e] = [at |-> Resume(job[e].steps), cid |-> row.cid,
                                      preload |-> row.preload \cup {e}, failed |-> "no"]]
        /\ row' = IF job[e].steps = 0 THEN [row EXCEPT !.preload = @ \cup {e}] ELSE row
    BY <1>3 DEF BeginsExtension, PreloadRecorded, Becomes, Goes, Begun
  <1>5. [at |-> Resume(job[e].steps), cid |-> row.cid,
         preload |-> row.preload \cup {e}, failed |-> "no"] \in Handler
    BY <1>1, BegunRow DEF Inv, TypeOK, Handler
  <1>6. row.cid \in Ids
    BY DEF Inv, TypeOK
  <1>7. /\ RunsInv' /\ job' \in [Jobs -> Row] /\ run' \in [Jobs -> Handler]
        /\ \A k \in Jobs : k # e => Still(k)
    BY <1>1, <1>2, <1>4, <1>5, <1>6, BegunRow, GoesOn
  <1>8. row' \in [state : {"running", "stopped", "failed"}, cid : Ids, preload : SUBSET Extensions]
    BY <1>4 DEF Inv, TypeOK
  <1>9. TypeOK'
    BY <1>7, <1>8 DEF Inv, TypeOK, Row, Handler
  <1>10. WorldKept
    BY DEF WorldKept
  <1>11. Moved'
    BY <1>1, <1>7, <1>10, StillMoved, Kinds DEF Inv
  <1> QED  BY <1>7, <1>9, <1>11 DEF Inv

LEMMA CheckBegins ==
    ASSUME Inv, job[Check].state = "queued", BeginsCheck(Claimed(Check)),
           UNCHANGED <<row, cfg, repos, cont, created, scratch, host, used>>
    PROVE  Inv'
  <1>1. job \in [Jobs -> Row] /\ run \in [Jobs -> Handler] /\ Check \in Jobs /\ Check # Migration
        /\ Check \notin Recreators
    BY JobTyped, Kinds DEF Inv, Recreators
  <1>2. Up' = Up
    BY DEF Up
  <1>3. WorldKept
    BY DEF WorldKept
  <1>4. CASE cfg.awaitingFirstBackup
    <2>1. job' = [job EXCEPT ![Check] = Settled(Check, "succeeded")] /\ run' = run
      BY <1>4 DEF BeginsCheck, Becomes
    <2>2. /\ Settled(Check, "succeeded") \in Row /\ Settled(Check, "succeeded").steps = 0
          /\ Settled(Check, "succeeded").state # "running"
      BY <1>1, SettledRow
    <2>3. job' \in [Jobs -> Row] /\ job'[Check] = Settled(Check, "succeeded")
          /\ \A k \in Jobs : k # Check => Still(k)
      BY <1>1, <2>1, <2>2 DEF Still
    <2>4. run' \in [Jobs -> Handler] /\ run'[Check].at = 0 /\ job'[Check].state # "running"
      BY <1>1, <2>1, <2>2, <2>3, ClaimedRow
    <2>5. job'[Check].steps <= MostSteps(Check)
      BY <2>2, <2>3 DEF MostSteps
    <2>6. RunsInv'
      BY <1>1, <1>2, <2>3, <2>4, <2>5, Ends
    <2>7. Moved'
      BY <1>1, <1>3, <2>3, StillMoved, Kinds DEF Inv
    <2>8. TypeOK'
      BY <2>1, <2>3 DEF Inv, TypeOK, Row
    <2> QED  BY <2>6, <2>7, <2>8 DEF Inv
  <1>5. CASE ~cfg.awaitingFirstBackup
    <2>1. job' = [job EXCEPT ![Check] = Claimed(Check)] /\ run' = [run EXCEPT ![Check] = [NoRun EXCEPT !.at = 1]]
      BY <1>5 DEF BeginsCheck, Becomes, Goes
    <2>2. NoRun \in Handler /\ NoRun.failed = "no"
      BY RowTypes
    <2>3. [NoRun EXCEPT !.at = 1] \in Handler
      BY <2>2 DEF Handler
    <2>4. [NoRun EXCEPT !.at = 1].at = 1 /\ [NoRun EXCEPT !.at = 1].failed = "no"
      BY <2>2 DEF Handler
    <2>5. PICK r \in Handler : r = [NoRun EXCEPT !.at = 1] /\ r.at = 1 /\ r.failed = "no"
      BY <2>3, <2>4
    <2>6. PICK rec \in Row : rec = Claimed(Check)
      BY <1>1, ClaimedRow
    <2>7. rec.state = "running" /\ rec.attempts > 0 /\ rec.steps <= MostSteps(Check)
      BY <1>1, <2>6, ClaimedRow
    <2>8. r.at \in 1..Last(Check)
      BY <2>5 DEF Last
    <2>9. /\ RunsInv' /\ job' \in [Jobs -> Row] /\ run' \in [Jobs -> Handler]
          /\ \A k \in Jobs : k # Check => Still(k)
      BY <1>1, <1>2, <2>1, <2>5, <2>6, <2>7, <2>8, GoesOn
    <2>10. Moved'
      BY <1>1, <1>3, <2>9, StillMoved, Kinds DEF Inv
    <2>11. TypeOK'
      BY <2>9 DEF Inv, TypeOK, Row, Handler
    <2> QED  BY <2>9, <2>10, <2>11 DEF Inv
  <1> QED  BY <1>4, <1>5

LEMMA ClaimInv ==
    ASSUME Inv, NEW j \in Jobs, Claim(j)
    PROVE  Inv'
  <1>1. /\ job[j].state = "queued" /\ Begins(j, Claimed(j))
        /\ UNCHANGED <<repos, cont, created, scratch, host, used>>
    BY DEF Claim, Claimed
  <1>2. CASE j \in BackupJobs /\ BeginsBackup(j, Claimed(j)) /\ UNCHANGED <<row, cfg>>
    BY <1>1, <1>2, BackupBegins
  <1>3. CASE j = Migration /\ BeginsMigration(Claimed(j)) /\ UNCHANGED row
    BY <1>1, <1>3, MigrationBegins
  <1>4. CASE j \in Extensions /\ BeginsExtension(j, Claimed(j)) /\ UNCHANGED cfg
    BY <1>1, <1>4, ExtensionBegins
  <1>5. CASE j = Check /\ BeginsCheck(Claimed(j)) /\ UNCHANGED <<row, cfg>>
    BY <1>1, <1>5, CheckBegins
  <1> QED  BY <1>1, <1>2, <1>3, <1>4, <1>5 DEF Begins
-----------------------------------------------------------------------------
(* A call returns. *)

\* The types of what calls work on.
WorldTyped ==
    /\ cont \in [id : {0} \cup Ids, up : BOOLEAN, repo : {"local", "s3"}, preload : SUBSET Extensions]
    /\ repos \in [{"local", "s3"} -> {"empty", "stanza", "backup"}]
    /\ created \subseteq Extensions
    /\ scratch \subseteq {"volume", "container"}

\* A container is created for the repository of the row, once the row says object storage.
LEMMA ContActs ==
    ASSUME Inv, NEW j \in Jobs
    PROVE  /\ ContAfter(j) \in [id : {0} \cup Ids, up : BOOLEAN, repo : {"local", "s3"}, preload : SUBSET Extensions]
           /\ Call(j) = "create" => ContAfter(j).repo = RepoSpec
           /\ Call(j) # "create" /\ ContAfter(j).id # 0 => cont.id # 0 /\ ContAfter(j).repo = cont.repo
  <1>1. /\ cont \in [id : {0} \cup Ids, up : BOOLEAN, repo : {"local", "s3"}, preload : SUBSET Extensions]
        /\ run[j].preload \in SUBSET Extensions
    BY DEF Inv, TypeOK
  <1>2. CASE Call(j) = "stop"
    <2>1. ContAfter(j) = [cont EXCEPT !.up = FALSE]
      BY <1>2 DEF ContAfter
    <2> QED  BY <1>1, <1>2, <2>1
  <1>3. CASE Call(j) = "remove"
    <2>1. ContAfter(j) = NoContainer \/ ContAfter(j) = cont
      BY <1>3 DEF ContAfter
    <2>2. /\ NoContainer \in [id : {0} \cup Ids, up : BOOLEAN, repo : {"local", "s3"}, preload : SUBSET Extensions]
          /\ NoContainer.id = 0
      BY DEF NoContainer
    <2> QED  BY <1>1, <1>3, <2>1, <2>2
  <1>4. CASE Call(j) = "create"
    <2>1. ContAfter(j) = [id |-> Fresh, up |-> FALSE, repo |-> RepoSpec, preload |-> run[j].preload]
      BY <1>4 DEF ContAfter
    <2>2. RepoSpec \in {"local", "s3"}
      BY DEF RepoSpec
    <2> QED  BY <1>1, <1>4, <2>1, <2>2, FreshExists
  <1>5. CASE Call(j) = "start"
    <2>1. ContAfter(j) = [cont EXCEPT !.up = TRUE]
      BY <1>5 DEF ContAfter
    <2> QED  BY <1>1, <1>5, <2>1
  <1>6. CASE Call(j) \notin {"stop", "remove", "create", "start"}
    <2>1. ContAfter(j) = cont
      BY <1>6 DEF ContAfter
    <2> QED  BY <1>1, <1>6, <2>1
  <1> QED  BY <1>2, <1>3, <1>4, <1>5, <1>6

LEMMA ReposActs ==
    ASSUME Inv, NEW j \in Jobs
    PROVE  /\ ReposAfter(j) \in [{"local", "s3"} -> {"empty", "stanza", "backup"}]
           /\ repos["s3"] = "backup" => ReposAfter(j)["s3"] = "backup"
           /\ Call(j) = "first" /\ cont.repo = "s3" => ReposAfter(j)["s3"] = "backup"
  <1>1. repos \in [{"local", "s3"} -> {"empty", "stanza", "backup"}] /\ cont.repo \in {"local", "s3"}
    BY DEF Inv, TypeOK
  <1>2. CASE Call(j) \in {"backup", "first"}
    <2>1. ReposAfter(j) = [repos EXCEPT ![cont.repo] = "backup"]
      BY <1>2 DEF ReposAfter
    <2> QED  BY <1>1, <1>2, <2>1
  <1>3. CASE Call(j) = "stanza" /\ repos[cont.repo] = "empty"
    <2>1. ReposAfter(j) = [repos EXCEPT ![cont.repo] = "stanza"]
      BY <1>3 DEF ReposAfter
    <2> QED  BY <1>1, <1>3, <2>1
  <1>4. CASE Call(j) \notin {"backup", "first"} /\ ~(Call(j) = "stanza" /\ repos[cont.repo] = "empty")
    <2>1. ReposAfter(j) = repos
      BY <1>4 DEF ReposAfter
    <2> QED  BY <1>1, <1>4, <2>1
  <1> QED  BY <1>2, <1>3, <1>4

\* Only a handler of an extension creates one.
LEMMA CallerKinds ==
    ASSUME Inv, NEW j \in Jobs, run[j].at # 0
    PROVE  /\ run[j].at \in 1..Last(j)
           /\ Call(j) = "extension" => j \in Extensions
           /\ Call(j) \in {"create", "start"} => j \in Recreators
  <1>1. run[j].at \in 1..Last(j)
    BY DEF Inv, RunsInv, RunOf, Last
  <1>2. CASE j \in BackupJobs
    <2>1. run[j].at \in 1..3
      BY <1>1, <1>2 DEF Last
    <2> QED  BY <1>1, <1>2, <2>1, OtherCalls
  <1>3. CASE j = Migration
    BY <1>1, <1>3, MigrationCalls, Kinds DEF Last, Recreators
  <1>4. CASE j = Check
    <2>1. run[j].at \in 1..4
      BY <1>1, <1>4, Kinds DEF Last
    <2> QED  BY <1>1, <1>4, <2>1, OtherCalls
  <1>5. CASE j \in Extensions
    BY <1>1, <1>5 DEF Recreators
  <1> QED  BY <1>2, <1>3, <1>4, <1>5, Kinds

LEMMA ActsWorld ==
    ASSUME Inv, NEW j \in Jobs, run[j].at # 0, Acts(j), cfg'.repo = cfg.repo
    PROVE  WorldTyped' /\ WorldKept
  <1>1. /\ cont' = ContAfter(j) /\ repos' = ReposAfter(j)
        /\ created' = IF Call(j) = "extension" THEN created \cup {j} ELSE created
        /\ scratch' = ScratchAfter(j)
    BY DEF Acts
  <1>2. created' \subseteq Extensions
    BY <1>1, CallerKinds DEF Inv, TypeOK
  <1>3. scratch' \subseteq {"volume", "container"}
    BY <1>1 DEF Inv, TypeOK, ScratchAfter
  <1>4. WorldTyped'
    BY <1>1, <1>2, <1>3, ContActs, ReposActs DEF WorldTyped
  <1>5. cfg.repo = "s3" => RepoSpec = "s3"
    BY DEF RepoSpec
  <1>6. WorldKept
    BY <1>1, <1>5, ContActs, ReposActs DEF WorldKept
  <1> QED  BY <1>4, <1>6

\* A backup that ends with a failure is settled or queued again, with a successor perhaps.
LEMMA BackupFails ==
    ASSUME NEW j \in BackupJobs, run[j].failed # "no", Finishes(j)
    PROVE  /\ run[j].failed = "error" => job' = Rescheduled(j, [job EXCEPT ![j] = FailedAttempt(j)])
           /\ run[j].failed # "error" => job' = Rescheduled(j, [job EXCEPT ![j] = CancelledAttempt(j)])
  <1>1. (j \in BackupJobs /\ run[j].failed = "no") = FALSE
    OBVIOUS
  <1>2. (j \in BackupJobs /\ run[j].failed # "no") = TRUE
    OBVIOUS
  <1>3. (j = Check /\ run[j].failed = "error") = FALSE /\ (j = Check /\ run[j].failed = "cancel") = FALSE
    BY Kinds
  <1>4. (CASE j \in BackupJobs /\ run[j].failed = "no" ->
                job' = Scheduled([job EXCEPT ![j] = NoJob])
           [] j \in BackupJobs /\ run[j].failed # "no" ->
                job' = Rescheduled(j, [job EXCEPT ![j] = IF run[j].failed = "error" THEN FailedAttempt(j)
                                                         ELSE CancelledAttempt(j)])
           [] j = Check /\ run[j].failed = "error" -> Becomes(j, FailedAttempt(j))
           [] j = Check /\ run[j].failed = "cancel" -> Becomes(j, CancelledAttempt(j))
           [] OTHER -> Becomes(j, Settled(j, "succeeded")))
    BY DEF Finishes
  <1>5. job' = Rescheduled(j, [job EXCEPT ![j] = IF run[j].failed = "error" THEN FailedAttempt(j)
                                                 ELSE CancelledAttempt(j)])
    BY ONLY <1>1, <1>2, <1>3, <1>4
  <1>6. ASSUME run[j].failed = "error"
        PROVE  job' = Rescheduled(j, [job EXCEPT ![j] = FailedAttempt(j)])
    BY <1>5, <1>6
  <1>7. ASSUME run[j].failed # "error"
        PROVE  job' = Rescheduled(j, [job EXCEPT ![j] = CancelledAttempt(j)])
    BY <1>5, <1>7
  <1> QED  BY <1>6, <1>7

\* The last call of a handler: its row is settled or queued again, and a successor may be.
LEMMA FinishesRows ==
    ASSUME Inv, NEW j \in Jobs, run[j].at # 0, Finishes(j)
    PROVE  /\ job' \in [Jobs -> Row] /\ run' \in [Jobs -> Handler] /\ run'[j].at = 0
           /\ job'[j].state # "running" /\ job'[j].steps <= MostSteps(j)
           /\ \A k \in Jobs : k # j => Still(k)
           /\ cfg' \in [enabled : BOOLEAN, repo : {"local", "s3"}, awaitingFirstBackup : BOOLEAN]
           /\ cfg'.repo = cfg.repo
           /\ j = Migration => job'[j].steps = 0
  <1>1. job \in [Jobs -> Row] /\ run \in [Jobs -> Handler]
    BY JobTyped DEF Inv
  <1>2. run' = [run EXCEPT ![j] = NoRun]
    BY DEF Finishes, Goes
  <1>3. run' \in [Jobs -> Handler] /\ run'[j].at = 0 /\ \A k \in Jobs : k # j => run'[k] = run[k]
    BY <1>1, <1>2, RowTypes
  <1>4. cfg' \in [enabled : BOOLEAN, repo : {"local", "s3"}, awaitingFirstBackup : BOOLEAN]
        /\ cfg'.repo = cfg.repo
    <2>1. cfg' = [cfg EXCEPT !.awaitingFirstBackup = FALSE] \/ cfg' = cfg
      BY DEF Finishes
    <2> QED  BY <2>1 DEF Inv, TypeOK
  <1>5. job[j].attempts > 0 /\ job[j].steps <= MostSteps(j)
    BY DEF Inv, RunsInv, RunOf
  <1>6. /\ FailedAttempt(j) \in Row /\ FailedAttempt(j).state \notin {"running", "succeeded"}
        /\ FailedAttempt(j).steps \in {0, job[j].steps}
    BY FailedRow DEF Inv
  <1>7. /\ CancelledAttempt(j) \in Row /\ CancelledAttempt(j).state \notin {"running", "succeeded"}
        /\ CancelledAttempt(j).steps \in {0, job[j].steps}
    BY <1>5, CancelledRow DEF Inv
  <1>8. /\ Settled(j, "succeeded") \in Row /\ Settled(j, "succeeded").steps = 0
        /\ Settled(j, "succeeded").state # "running"
    BY SettledRow
  <1>9. \E rec \in Row :
          /\ rec.state # "running" /\ rec.steps \in {0, job[j].steps}
          /\ j = Migration => rec.steps = 0
          /\ \/ job' = [job EXCEPT ![j] = rec]
             \/ job' = Scheduled([job EXCEPT ![j] = rec])
    <2>1. CASE j \in BackupJobs /\ run[j].failed = "no"
      <3>1. job' = Scheduled([job EXCEPT ![j] = NoJob])
        BY <2>1 DEF Finishes
      <3> QED  BY <3>1, <2>1, RowTypes, Kinds
    <2>2. CASE j \in BackupJobs /\ run[j].failed = "error"
      <3>1. job' = Rescheduled(j, [job EXCEPT ![j] = FailedAttempt(j)])
        BY <2>2, BackupFails
      <3>2. \/ job' = [job EXCEPT ![j] = FailedAttempt(j)]
            \/ job' = Scheduled([job EXCEPT ![j] = FailedAttempt(j)])
        BY <3>1 DEF Rescheduled
      <3> QED  BY <3>2, <2>2, <1>6, Kinds
    <2>3. CASE j \in BackupJobs /\ run[j].failed \notin {"no", "error"}
      <3>1. job' = Rescheduled(j, [job EXCEPT ![j] = CancelledAttempt(j)])
        BY <2>3, BackupFails
      <3>2. \/ job' = [job EXCEPT ![j] = CancelledAttempt(j)]
            \/ job' = Scheduled([job EXCEPT ![j] = CancelledAttempt(j)])
        BY <3>1 DEF Rescheduled
      <3> QED  BY <3>2, <2>3, <1>7, Kinds
    <2>4. CASE j = Check /\ run[j].failed = "error"
      <3>1. job' = [job EXCEPT ![j] = FailedAttempt(j)]
        BY <2>4, Kinds DEF Finishes, Becomes
      <3> QED  BY <3>1, <2>4, <1>6, Kinds
    <2>5. CASE j = Check /\ run[j].failed = "cancel"
      <3>1. job' = [job EXCEPT ![j] = CancelledAttempt(j)]
        BY <2>5, Kinds DEF Finishes, Becomes
      <3> QED  BY <3>1, <2>5, <1>7, Kinds
    <2>6. CASE j \notin BackupJobs /\ ~(j = Check /\ run[j].failed \in {"error", "cancel"})
      <3>1. job' = [job EXCEPT ![j] = Settled(j, "succeeded")]
        BY <2>6 DEF Finishes, Becomes
      <3> QED  BY <3>1, <1>8
    <2> QED  BY <2>1, <2>2, <2>3, <2>4, <2>5, <2>6
  <1>10. PICK rec \in Row :
          /\ rec.state # "running" /\ rec.steps \in {0, job[j].steps}
          /\ j = Migration => rec.steps = 0
          /\ \/ job' = [job EXCEPT ![j] = rec]
             \/ job' = Scheduled([job EXCEPT ![j] = rec])
    BY <1>9
  <1>11. PICK jobs \in [Jobs -> Row] : jobs = [job EXCEPT ![j] = rec]
    BY <1>1
  <1>12. /\ job' \in [Jobs -> Row]
         /\ \A k \in Jobs : job'[k] = jobs[k] \/ (jobs[k].state = "none" /\ job'[k] = Queued)
    BY <1>10, <1>11, ScheduledStill
  <1>13. \A k \in Jobs : k # j => Still(k)
    BY <1>1, <1>3, <1>11, <1>12, RowTypes DEF Still
  <1>14. job'[j] = rec \/ job'[j] = Queued
    BY <1>1, <1>11, <1>12
  <1>15. job'[j].state # "running" /\ job'[j].steps \in {0, job[j].steps}
         /\ (j = Migration => job'[j].steps = 0)
    BY <1>10, <1>14, RowTypes
  <1>16. job'[j].steps <= MostSteps(j)
    BY <1>5, <1>15 DEF MostSteps
  <1> QED  BY <1>3, <1>4, <1>12, <1>13, <1>15, <1>16
LEMMA IsLastAt ==
    ASSUME Inv, NEW j \in Jobs, run[j].at # 0
    PROVE  /\ ~IsLast(j) => run[j].at < Last(j)
           /\ IsLast(Migration) /\ run[Migration].at # 0 => run[Migration].at = 7
  <1>1. Len(Path(j)) = Last(j) /\ Len(Path(Migration)) = 7
    BY LastIsLen, Paths, PathTables
  <1>2. run[j].at \in 1..Last(j)
    BY CallerKinds
  <1>3. run[Migration].at # 0 => Call(Migration) # "expire"
    <2>1. run[Migration].at # 0 => run[Migration].at \in 1..7
      BY Kinds, CallerKinds DEF Last
    <2> QED  BY <2>1, MigrationCalls
  <1> QED  BY <1>1, <1>2, <1>3 DEF IsLast, Last

LEMMA StepsBound ==
    ASSUME Inv, NEW j \in Jobs, run[j].at # 0, run[j].at < Last(j)
    PROVE  /\ StepsAfter(j) \in 0..5 /\ StepsAfter(j) <= MostSteps(j)
           /\ j \in Recreators => StepsAfter(j) >= 1
           /\ j = Migration /\ run[j].at <= 3 => StepsAfter(j) = job[j].steps
  <1>1. /\ job[j].steps \in 0..5 /\ job[j].steps <= MostSteps(j)
        /\ j \in Recreators => job[j].steps >= 1
        /\ run[j].at \in 1..Last(j)
    BY CallerKinds DEF Inv, TypeOK, RunsInv, RunOf
  <1>2. StepsAfter(j) \in {job[j].steps, 2, 3, 4}
    BY DEF StepsAfter
  <1>3. CASE j \in BackupJobs \/ j = Check
    BY <1>1, <1>2, <1>3, Kinds DEF MostSteps, Recreators
  <1>4. CASE j = Migration
    <2>1. run[j].at <= 3 => Call(j) \notin {"start", "stanza", "wait", "check", "extension"}
      BY <1>1, <1>4, Kinds, MigrationCalls DEF Last
    <2>2. run[j].at <= 3 => StepsAfter(j) = job[j].steps
      BY <2>1 DEF StepsAfter
    <2> QED  BY <1>1, <1>2, <1>4, <2>2 DEF MostSteps
  <1>5. CASE j \in Extensions
    <2>1. run[j].at \in 1..6 /\ run[j].at # 6
      BY <1>1, <1>5, Kinds DEF Last
    <2>2. Call(j) \notin {"check", "extension"}
      BY <1>5, <2>1, ExtensionCalls
    <2>3. StepsAfter(j) \in {job[j].steps, 2, 3}
      BY <2>2 DEF StepsAfter
    <2> QED  BY <1>1, <1>5, <2>3, Kinds DEF MostSteps
  <1> QED  BY <1>3, <1>4, <1>5, Kinds

\* A handler that has made its last call.
LEMMA LastCallInv ==
    ASSUME Inv, NEW j \in Jobs, run[j].at # 0, Succeeds(j), Acts(j), IsLast(j), Finishes(j),
           row' \in [state : {"running", "stopped", "failed"}, cid : Ids, preload : SUBSET Extensions],
           UNCHANGED <<host, used>>
    PROVE  Inv'
  <1>1. /\ job' \in [Jobs -> Row] /\ run' \in [Jobs -> Handler] /\ run'[j].at = 0
        /\ job'[j].state # "running" /\ job'[j].steps <= MostSteps(j)
        /\ \A k \in Jobs : k # j => Still(k)
        /\ cfg' \in [enabled : BOOLEAN, repo : {"local", "s3"}, awaitingFirstBackup : BOOLEAN]
        /\ cfg'.repo = cfg.repo
        /\ j = Migration => job'[j].steps = 0
    BY FinishesRows
  <1>2. WorldTyped' /\ WorldKept
    BY <1>1, ActsWorld
  <1>3. Up' = Up
    BY DEF Up
  <1>4. RunsInv'
    BY <1>1, <1>3, Ends
  <1>5. TypeOK'
    BY <1>1, <1>2 DEF Inv, TypeOK, WorldTyped, Row, Handler
  <1>6. CASE j # Migration
    BY <1>1, <1>2, <1>4, <1>5, <1>6, StillMoved, Kinds DEF Inv
  <1>7. CASE j = Migration
    <2>1. run[Migration].at = 7
      BY <1>7, IsLastAt
    <2>2. /\ run[Migration].cid \in Ids /\ job[Migration].steps >= 1
      BY <1>7, Kinds DEF Inv, RunsInv, RunOf, Recreators
    <2>3. HasMoved /\ cfg.repo = "s3"
      BY <2>1, <2>2 DEF Inv, Moved, HasMoved
    <2>4. cont'.id # 0 => cont'.repo = "s3"
      BY <1>2, <2>3 DEF Inv, Moved, WorldKept
    <2>5. Call(Migration) = "first"
      BY <2>1, MigrationCalls
    <2>6. cont.id = run[Migration].cid
      BY <1>7, <2>5 DEF Succeeds, Reaches
    <2>7. cont.id # 0
      BY <2>2, <2>6 DEF Ids
    <2>8. cont.repo = "s3"
      BY <2>3, <2>7 DEF Inv, Moved
    <2>9. repos'["s3"] = "backup"
      BY <1>7, <2>5, <2>8, ReposActs DEF Acts
    <2>10. Moved'
      BY <1>1, <2>3, <2>4, <2>9 DEF Moved
    <2> QED  BY <1>4, <1>5, <2>10 DEF Inv
  <1> QED  BY <1>6, <1>7

\* A handler that goes on to its next call.
LEMMA NextCallInv ==
    ASSUME Inv, NEW j \in Jobs, run[j].at # 0, Acts(j), ~IsLast(j),
           Becomes(j, [job[j] EXCEPT !.steps = StepsAfter(j)]),
           Goes(j, [run[j] EXCEPT !.at = @ + 1, !.cid = IF Call(j) = "create" THEN Fresh ELSE @]),
           row' \in [state : {"running", "stopped", "failed"}, cid : Ids, preload : SUBSET Extensions],
           UNCHANGED <<cfg, host, used>>
    PROVE  Inv'
  <1>1. job[j] \in Row /\ run[j] \in Handler /\ RunOf(j)
    BY DEF Inv, TypeOK, Row, Handler, RunsInv
  <1>2. run[j].at \in 1..Last(j) /\ run[j].at < Last(j)
    BY CallerKinds, IsLastAt
  <1>3. /\ StepsAfter(j) \in 0..5 /\ StepsAfter(j) <= MostSteps(j)
        /\ j \in Recreators => StepsAfter(j) >= 1
        /\ j = Migration /\ run[j].at <= 3 => StepsAfter(j) = job[j].steps
    BY <1>2, StepsBound
  <1>4. WorldTyped' /\ WorldKept
    BY ActsWorld
  <1>5. PICK c \in {0} \cup Ids :
          /\ c = IF Call(j) = "create" THEN Fresh ELSE run[j].cid
          /\ j \in Recreators => c \in Ids
    BY <1>1, FreshExists DEF Handler, RunOf
  <1>6. PICK a \in 1..7 : a = run[j].at + 1
    BY <1>2 DEF Last
  <1>7. PICK s \in 0..5 : s = StepsAfter(j)
    BY <1>3
  <1>8. job' = [job EXCEPT ![j] = [job[j] EXCEPT !.steps = s]]
    BY <1>7 DEF Becomes
  <1>9. run' = [run EXCEPT ![j] = [run[j] EXCEPT !.at = a, !.cid = c]]
    <2>1. run' = [run EXCEPT ![j] = [run[j] EXCEPT !.at = run[j].at + 1,
                                                   !.cid = IF Call(j) = "create" THEN Fresh ELSE run[j].cid]]
      BY DEF Goes
    <2> QED  BY <1>5, <1>6, <2>1
  <1>10. /\ [job[j] EXCEPT !.steps = s] \in Row
         /\ [job[j] EXCEPT !.steps = s].state = "running"
         /\ [job[j] EXCEPT !.steps = s].attempts > 0
         /\ [job[j] EXCEPT !.steps = s].steps = s
         /\ [job[j] EXCEPT !.steps = s].cancel = job[j].cancel
    BY <1>1 DEF Row, RunOf
  <1>11. /\ [run[j] EXCEPT !.at = a, !.cid = c] \in Handler
         /\ [run[j] EXCEPT !.at = a, !.cid = c].at = a
         /\ [run[j] EXCEPT !.at = a, !.cid = c].cid = c
         /\ [run[j] EXCEPT !.at = a, !.cid = c].failed = run[j].failed
    <2>1. [run[j] EXCEPT !.at = a] \in Handler
      BY <1>1 DEF Handler
    <2>2. [[run[j] EXCEPT !.at = a] EXCEPT !.cid = c] \in Handler
      BY <2>1 DEF Handler
    <2>3. [run[j] EXCEPT !.at = a, !.cid = c] = [[run[j] EXCEPT !.at = a] EXCEPT !.cid = c]
      BY <1>1 DEF Handler
    <2>4. /\ [run[j] EXCEPT !.at = a, !.cid = c].at = a
          /\ [run[j] EXCEPT !.at = a, !.cid = c].cid = c
          /\ [run[j] EXCEPT !.at = a, !.cid = c].failed = run[j].failed
      BY <1>1 DEF Handler
    <2> QED  BY <2>2, <2>3, <2>4
  <1>12. PICK rec \in Row : /\ rec = [job[j] EXCEPT !.steps = s]
                            /\ rec.state = "running" /\ rec.attempts > 0
                            /\ rec.steps = s /\ rec.cancel = job[j].cancel
    BY <1>10
  <1>13. PICK r \in Handler : /\ r = [run[j] EXCEPT !.at = a, !.cid = c]
                              /\ r.at = a /\ r.cid = c /\ r.failed = run[j].failed
    BY <1>11
  <1>14. /\ rec.steps <= MostSteps(j) /\ r.at \in 1..Last(j)
         /\ j \in Recreators => r.cid \in Ids /\ rec.steps >= 1
         /\ r.failed = "cancel" => rec.cancel \/ ~Up
    <2>1. rec.steps <= MostSteps(j) /\ (j \in Recreators => rec.steps >= 1)
      BY <1>3, <1>7, <1>12
    <2>2. r.at \in 1..Last(j)
      BY <1>2, <1>6, <1>13 DEF Last
    <2>3. j \in Recreators => r.cid \in Ids
      BY <1>5, <1>13
    <2>4. r.failed = "cancel" => rec.cancel \/ ~Up
      BY <1>1, <1>2, <1>12, <1>13 DEF RunOf, Last
    <2> QED  BY <2>1, <2>2, <2>3, <2>4
  <1>15. Up' = Up
    BY DEF Up
  <1>16. /\ RunsInv' /\ job' \in [Jobs -> Row] /\ run' \in [Jobs -> Handler]
         /\ \A k \in Jobs : k # j => Still(k)
         /\ job'[j] = rec /\ run'[j] = r
    BY <1>8, <1>9, <1>12, <1>13, <1>14, <1>15, GoesOn
  <1>17. TypeOK'
    BY <1>4, <1>16 DEF Inv, TypeOK, WorldTyped, Row, Handler
  <1>18. CASE j # Migration
    BY <1>4, <1>16, <1>17, <1>18, StillMoved, Kinds DEF Inv
  <1>19. CASE j = Migration
    <2>1. cfg.repo = "s3" /\ cfg'.repo = "s3"
      BY <1>1, <1>19 DEF RunOf, Recreators, Inv, Moved
    <2>2. job'[Migration].state # "succeeded"
      BY <1>12, <1>16, <1>19
    <2>3. CASE HasMoved
      <3>1. cont'.id # 0 => cont'.repo = "s3"
        BY <1>4, <2>1, <2>3 DEF Inv, Moved, WorldKept
      <3> QED  BY <1>16, <1>17, <2>1, <2>2, <3>1 DEF Inv, Moved
    <2>4. CASE ~HasMoved /\ run[Migration].at = 3
      <3>1. Call(Migration) = "create"
        BY <2>4, MigrationCalls
      <3>2. cont'.repo = "s3"
        BY <1>19, <2>1, <3>1, ContActs DEF Acts, RepoSpec
      <3> QED  BY <1>16, <1>17, <2>1, <2>2, <3>2 DEF Inv, Moved
    <2>5. CASE ~HasMoved /\ run[Migration].at # 3
      <3>1. run[Migration].at <= 3 /\ job[Migration].steps < 2
        BY <1>1, <1>2, <1>19, <2>5 DEF HasMoved, Row, Last
      <3>2. run'[Migration].at < 4 /\ job'[Migration].steps < 2
        <4>1. run'[j].at = run[j].at + 1 /\ job'[j].steps = job[j].steps
          BY <1>3, <1>6, <1>7, <1>12, <1>13, <1>16, <1>19, <3>1
        <4>2. run[Migration].at # 3 /\ run[Migration].at \in Nat
          BY <1>2, <1>19, <2>5 DEF Last
        <4> QED  BY <1>19, <3>1, <4>1, <4>2
      <3>3. ~HasMoved'
        BY <1>16, <1>19, <2>2, <3>2, Kinds DEF HasMoved, Row, Handler
      <3> QED  BY <1>16, <1>17, <2>1, <2>2, <3>3 DEF Inv, Moved
    <2> QED  BY <2>3, <2>4, <2>5
  <1> QED  BY <1>18, <1>19

LEMMA CallReturnsInv ==
    ASSUME Inv, NEW j \in Jobs, CallReturns(j)
    PROVE  Inv'
  <1>1. /\ run[j].at # 0 /\ Succeeds(j) /\ Acts(j) /\ UNCHANGED <<host, used>>
        /\ row' = IF Call(j) = "start" THEN [row EXCEPT !.cid = run[j].cid] ELSE row
    BY DEF CallReturns
  <1>2. row' \in [state : {"running", "stopped", "failed"}, cid : Ids, preload : SUBSET Extensions]
    <2>1. Call(j) = "start" => run[j].cid \in Ids
      BY <1>1, CallerKinds DEF Inv, RunsInv, RunOf
    <2> QED  BY <1>1, <2>1 DEF Inv, TypeOK
  <1>3. CASE IsLast(j)
    <2>1. Finishes(j)
      BY <1>3 DEF CallReturns
    <2> QED  BY <1>1, <1>2, <1>3, <2>1, LastCallInv
  <1>4. CASE ~IsLast(j)
    <2>1. /\ Becomes(j, [job[j] EXCEPT !.steps = StepsAfter(j)])
          /\ Goes(j, [run[j] EXCEPT !.at = @ + 1, !.cid = IF Call(j) = "create" THEN Fresh ELSE @])
          /\ UNCHANGED cfg
      BY <1>4 DEF CallReturns
    <2> QED  BY <1>1, <1>2, <1>4, <2>1, NextCallInv
  <1> QED  BY <1>3, <1>4
-----------------------------------------------------------------------------
(* A call fails. *)

\* backup.run and restore.verify go to their last call, and remember why.
LEMMA LastCallNext ==
    ASSUME Inv, NEW j \in BackupJobs \cup {Check}, run[j].at # 0,
           NEW why \in {"error", "cancel"}, why = "cancel" => run[j].failed = "cancel" \/ Aborted(j),
           Goes(j, [run[j] EXCEPT !.at = Len(Path(j)), !.failed = why]),
           used' \in [requests : 0..MaxRequests, faults : 0..MaxFaults],
           UNCHANGED <<job, cfg, row, repos, cont, created, scratch, host>>
    PROVE  Inv'
  <1>1. job \in [Jobs -> Row] /\ job[j] \in Row /\ run[j] \in Handler /\ RunOf(j)
        /\ j \in Jobs /\ j # Migration /\ j \notin Recreators
    BY JobTyped, Kinds DEF Inv, TypeOK, Row, Handler, RunsInv, Recreators
  <1>2. Last(j) \in 1..7 /\ Last(j) \in 1..Last(j) /\ Len(Path(j)) = Last(j)
    BY <1>1, LastIsLen DEF Last
  <1>3. PICK a \in 1..7 : a = Last(j)
    BY <1>2
  <1>4. /\ [run[j] EXCEPT !.at = a, !.failed = why] \in Handler
        /\ [run[j] EXCEPT !.at = a, !.failed = why].at = a
        /\ [run[j] EXCEPT !.at = a, !.failed = why].failed = why
    <2>1. [run[j] EXCEPT !.at = a] \in Handler
      BY <1>1 DEF Handler
    <2>2. [[run[j] EXCEPT !.at = a] EXCEPT !.failed = why] \in Handler
      BY <2>1 DEF Handler
    <2>3. [run[j] EXCEPT !.at = a, !.failed = why] = [[run[j] EXCEPT !.at = a] EXCEPT !.failed = why]
      BY <1>1 DEF Handler
    <2>4. /\ [run[j] EXCEPT !.at = a, !.failed = why].at = a
          /\ [run[j] EXCEPT !.at = a, !.failed = why].failed = why
      BY <1>1 DEF Handler
    <2> QED  BY <2>2, <2>3, <2>4
  <1>5. PICK r \in Handler : r = [run[j] EXCEPT !.at = a, !.failed = why] /\ r.at = a /\ r.failed = why
    BY <1>4
  <1>6. run' = [run EXCEPT ![j] = r]
    BY <1>2, <1>3, <1>5 DEF Goes
  <1>7. PICK rec \in Row : rec = job[j]
    BY <1>1
  <1>8. job' = [job EXCEPT ![j] = rec]
    BY <1>1, <1>7
  <1>9. rec.state = "running" /\ rec.attempts > 0 /\ rec.steps <= MostSteps(j) /\ r.at \in 1..Last(j)
    BY <1>1, <1>2, <1>3, <1>5, <1>7 DEF RunOf
  <1>10. r.failed = "cancel" => rec.cancel \/ ~Up
    BY <1>1, <1>5, <1>7 DEF RunOf, Aborted, Up
  <1>11. Up' = Up /\ WorldKept
    BY DEF Up, WorldKept
  <1>12. /\ RunsInv' /\ job' \in [Jobs -> Row] /\ run' \in [Jobs -> Handler]
         /\ \A k \in Jobs : k # j => Still(k)
    BY <1>1, <1>6, <1>8, <1>9, <1>10, <1>11, GoesOn
  <1>13. TypeOK'
    BY <1>12 DEF Inv, TypeOK, Row, Handler
  <1>14. Moved'
    BY <1>1, <1>11, <1>12, StillMoved, Kinds DEF Inv
  <1> QED  BY <1>12, <1>13, <1>14 DEF Inv

\* The other handlers end.
LEMMA ThrowEnds ==
    ASSUME Inv, NEW j \in Jobs, run[j].at # 0, Goes(j, NoRun),
           Becomes(j, CancelledAttempt(j)) \/ Becomes(j, FailedAttempt(j)),
           used' \in [requests : 0..MaxRequests, faults : 0..MaxFaults],
           UNCHANGED <<cfg, row, repos, cont, created, scratch, host>>
    PROVE  Inv'
  <1>1. job \in [Jobs -> Row] /\ run \in [Jobs -> Handler] /\ job[j].attempts > 0
        /\ job[j].steps \in 0..5 /\ job[j].steps <= MostSteps(j)
    BY JobTyped DEF Inv, TypeOK, RunsInv, RunOf
  <1>2. /\ CancelledAttempt(j) \in Row /\ CancelledAttempt(j).state \notin {"running", "succeeded"}
        /\ CancelledAttempt(j).steps \in {0, job[j].steps}
    BY <1>1, CancelledRow DEF Inv
  <1>3. /\ FailedAttempt(j) \in Row /\ FailedAttempt(j).state \notin {"running", "succeeded"}
        /\ FailedAttempt(j).steps \in {0, job[j].steps}
    BY FailedRow DEF Inv
  <1>4. PICK rec \in Row : /\ rec.state \notin {"running", "succeeded"} /\ rec.steps \in {0, job[j].steps}
                           /\ job' = [job EXCEPT ![j] = rec]
    BY <1>2, <1>3 DEF Becomes
  <1>5. run' = [run EXCEPT ![j] = NoRun]
    BY DEF Goes
  <1>6. /\ job' \in [Jobs -> Row] /\ run' \in [Jobs -> Handler] /\ run'[j].at = 0
        /\ job'[j] = rec /\ \A k \in Jobs : k # j => Still(k)
    BY <1>1, <1>4, <1>5, RowTypes DEF Still
  <1>7. Up' = Up /\ WorldKept
    BY DEF Up, WorldKept
  <1>8. job'[j].state # "running" /\ job'[j].steps <= MostSteps(j)
    BY <1>1, <1>4, <1>6 DEF MostSteps
  <1>9. RunsInv'
    BY <1>6, <1>7, <1>8, Ends
  <1>10. TypeOK'
    BY <1>6 DEF Inv, TypeOK, Row, Handler
  <1>11. Moved'
    <2>1. CASE j # Migration
      BY <1>6, <1>7, <2>1, StillMoved, Kinds DEF Inv
    <2>2. CASE j = Migration
      <3>1. job'[Migration].state # "succeeded" /\ run'[Migration].at = 0
        BY <1>4, <1>6, <2>2
      <3>2. job'[Migration].steps = 0 \/ job'[Migration].steps = job[Migration].steps
        BY <1>4, <1>6, <2>2
      <3>3. HasMoved' => HasMoved
        BY <3>1, <3>2 DEF HasMoved
      <3>4. job'[Migration].steps >= 1 => job[Migration].steps >= 1
        BY <3>2
      <3> QED  BY <1>7, <3>1, <3>3, <3>4, MovedKept
    <2> QED  BY <2>1, <2>2
  <1> QED  BY <1>9, <1>10, <1>11 DEF Inv

\* The last call of backup.run or restore.verify has thrown.
LEMMA ThrowFinishes ==
    ASSUME Inv, NEW j \in BackupJobs \cup {Check}, run[j].at # 0, Finishes(j),
           used' \in [requests : 0..MaxRequests, faults : 0..MaxFaults],
           UNCHANGED <<row, repos, cont, created, scratch, host>>
    PROVE  Inv'
  <1>1. j \in Jobs /\ j # Migration
    BY Kinds
  <1>2. /\ job' \in [Jobs -> Row] /\ run' \in [Jobs -> Handler] /\ run'[j].at = 0
        /\ job'[j].state # "running" /\ job'[j].steps <= MostSteps(j)
        /\ \A k \in Jobs : k # j => Still(k)
        /\ cfg' \in [enabled : BOOLEAN, repo : {"local", "s3"}, awaitingFirstBackup : BOOLEAN]
        /\ cfg'.repo = cfg.repo
    BY <1>1, FinishesRows
  <1>3. Up' = Up /\ WorldKept
    BY <1>2 DEF Up, WorldKept
  <1>4. RunsInv'
    BY <1>1, <1>2, <1>3, Ends
  <1>5. TypeOK'
    BY <1>2 DEF Inv, TypeOK, Row, Handler
  <1>6. Moved'
    BY <1>1, <1>2, <1>3, StillMoved, Kinds DEF Inv
  <1> QED  BY <1>4, <1>5, <1>6 DEF Inv

Why(j) == IF run[j].failed # "no" THEN run[j].failed
          ELSE IF Cancelled(j) THEN "cancel" ELSE "error"

LEMMA CallThrowsInv ==
    ASSUME Inv, NEW j \in Jobs, CallThrows(j)
    PROVE  Inv'
  <1>1. run[j].at # 0 /\ UNCHANGED <<row, repos, cont, created, scratch, host>>
    BY DEF CallThrows
  <1>2. used' \in [requests : 0..MaxRequests, faults : 0..MaxFaults]
    BY BoundsAssumption DEF CallThrows, Inv, TypeOK
  <1>3. IF j \in BackupJobs \cup {Check}
        THEN IF run[j].at = Len(Path(j)) THEN Finishes(j)
             ELSE /\ Goes(j, [run[j] EXCEPT !.at = Len(Path(j)), !.failed = Why(j)])
                  /\ UNCHANGED <<job, cfg>>
        ELSE /\ Goes(j, NoRun)
             /\ Becomes(j, IF Why(j) = "cancel" THEN CancelledAttempt(j) ELSE FailedAttempt(j))
             /\ UNCHANGED cfg
    BY DEF CallThrows, Why
  <1>4. Why(j) \in {"error", "cancel"} /\ (Why(j) = "cancel" => run[j].failed = "cancel" \/ Aborted(j))
    <2>1. run[j].failed \in {"no", "error", "cancel"}
      BY DEF Inv, TypeOK
    <2> QED  BY <2>1 DEF Why, Cancelled
  <1>5. CASE j \in BackupJobs \cup {Check} /\ run[j].at = Len(Path(j))
    BY <1>1, <1>2, <1>3, <1>5, ThrowFinishes
  <1>6. CASE j \in BackupJobs \cup {Check} /\ run[j].at # Len(Path(j))
    <2>1. PICK why \in {"error", "cancel"} : why = Why(j)
      BY <1>4
    <2>2. why = "cancel" => run[j].failed = "cancel" \/ Aborted(j)
      BY <1>4, <2>1
    <2>3. Goes(j, [run[j] EXCEPT !.at = Len(Path(j)), !.failed = why]) /\ UNCHANGED <<job, cfg>>
      BY <1>3, <1>6, <2>1
    <2> QED  BY <1>1, <1>2, <1>6, <2>2, <2>3, LastCallNext
  <1>7. CASE j \notin BackupJobs \cup {Check}
    <2>1. Goes(j, NoRun) /\ UNCHANGED cfg
      BY <1>3, <1>7
    <2>2. Becomes(j, IF Why(j) = "cancel" THEN CancelledAttempt(j) ELSE FailedAttempt(j))
      BY <1>3, <1>7
    <2>3. Becomes(j, CancelledAttempt(j)) \/ Becomes(j, FailedAttempt(j))
      BY <2>2
    <2> QED  BY <1>1, <1>2, <2>1, <2>3, ThrowEnds
  <1> QED  BY <1>5, <1>6, <1>7

-----------------------------------------------------------------------------
(* The process dies. *)

LEMMA CrashInv ==
    ASSUME Inv, Crash
    PROVE  Inv'
  <1>1. /\ job' = [j \in Jobs |-> IF run[j].at = 0 THEN job[j] ELSE FailedAttempt(j)]
        /\ run' = [j \in Jobs |-> NoRun]
        /\ UNCHANGED <<row, cfg>>
    BY DEF Crash
  <1>2. used' \in [requests : 0..MaxRequests, faults : 0..MaxFaults]
    BY BoundsAssumption DEF Crash, Inv, TypeOK
  <1>3. host' \in [storage : BOOLEAN, headroom : BOOLEAN, process : {"up", "stopping"}]
    BY DEF Crash, Inv, TypeOK
  <1>4. WorldTyped' /\ WorldKept
    <2>1. CASE UNCHANGED <<cont, repos, created, scratch>>
      <3>1. WorldTyped'
        BY <2>1 DEF Inv, TypeOK, WorldTyped
      <3> QED  BY <1>1, <2>1, <3>1 DEF WorldKept
    <2>2. ASSUME NEW j \in Jobs, run[j].at # 0, Acts(j) PROVE WorldTyped' /\ WorldKept
      BY <1>1, <2>2, ActsWorld
    <2> QED  BY <2>1, <2>2 DEF Crash
  <1>5. job \in [Jobs -> Row]
    BY JobTyped DEF Inv
  <1>6. \A k \in Jobs : /\ job'[k] \in Row /\ job'[k].state # "running"
                        /\ job'[k].steps \in {0, job[k].steps}
                        /\ job'[k].state = "succeeded" => job[k].state = "succeeded"
    <2> SUFFICES ASSUME NEW k \in Jobs
                 PROVE  /\ job'[k] \in Row /\ job'[k].state # "running"
                        /\ job'[k].steps \in {0, job[k].steps}
                        /\ job'[k].state = "succeeded" => job[k].state = "succeeded"
      OBVIOUS
    <2>1. CASE run[k].at = 0
      <3>1. job'[k] = job[k]
        BY <1>1, <2>1
      <3> QED  BY <1>5, <2>1, <3>1 DEF Inv, RunsInv, RunOf
    <2>2. CASE run[k].at # 0
      <3>1. job'[k] = FailedAttempt(k)
        BY <1>1, <2>2
      <3> QED  BY <3>1, FailedRow DEF Inv
    <2> QED  BY <2>1, <2>2
  <1>7. job' \in [Jobs -> Row] /\ run' \in [Jobs -> Handler] /\ \A k \in Jobs : run'[k].at = 0
    <2>1. job' \in [Jobs -> Row]
      BY <1>1, <1>6
    <2> QED  BY <1>1, <2>1, RowTypes
  <1>8. RunsInv'
    <2> SUFFICES ASSUME NEW k \in Jobs PROVE RunOf(k)'
      BY DEF RunsInv
    <2>1. job[k].steps \in 0..5 /\ job[k].steps <= MostSteps(k)
      BY <1>5 DEF Inv, RunsInv, RunOf, Row
    <2>2. job'[k].steps <= MostSteps(k) /\ run'[k].at \in 0..Last(k)
      BY <1>6, <1>7, <2>1 DEF MostSteps, Last
    <2> QED  BY <1>6, <1>7, <2>2 DEF RunOf
  <1>9. TypeOK'
    BY <1>1, <1>2, <1>3, <1>4, <1>7 DEF Inv, TypeOK, WorldTyped, Row, Handler
  <1>10. Moved'
    <2>1. /\ job'[Migration].steps \in {0, job[Migration].steps} /\ run'[Migration].at = 0
          /\ job'[Migration].state = "succeeded" => job[Migration].state = "succeeded"
      BY <1>6, <1>7, Kinds
    <2>2. HasMoved' => HasMoved
      BY <2>1 DEF HasMoved
    <2>3. job'[Migration].steps >= 1 => job[Migration].steps >= 1
      BY <2>1
    <2> QED  BY <1>4, <2>1, <2>2, <2>3, MovedKept
  <1> QED  BY <1>8, <1>9, <1>10 DEF Inv

-----------------------------------------------------------------------------
(* The invariant. *)

LEMMA InvInit == Init => Inv
  <1> SUFFICES ASSUME Init PROVE Inv
    OBVIOUS
  <1>1. 1 \in Ids
    BY JobsFinite, FS_CardinalityType DEF Ids
  <1>2. job \in [Jobs -> Row] /\ run \in [Jobs -> Handler]
    BY RowTypes DEF Init
  <1>3. TypeOK
    BY <1>1, <1>2, BoundsAssumption DEF Init, TypeOK, Row, Handler
  <1>4. \A j \in Jobs : job[j].steps = 0 /\ job[j].state = "none" /\ run[j].at = 0
    BY RowTypes DEF Init
  <1>5. RunsInv
    BY <1>4 DEF RunsInv, RunOf, MostSteps, Last
  <1>6. Moved
    BY <1>4, Kinds DEF Moved, HasMoved
  <1> QED  BY <1>3, <1>5, <1>6 DEF Inv

LEMMA InvNext == Inv /\ [Next]_vars => Inv'
  <1> SUFFICES ASSUME Inv, [Next]_vars PROVE Inv'
    OBVIOUS
  <1>1. CASE Quiet
    BY <1>1, QuietSteps
  <1>2. ASSUME NEW j \in Jobs, Claim(j) PROVE Inv'
    BY <1>2, ClaimInv
  <1>3. ASSUME NEW j \in Jobs, CallReturns(j) PROVE Inv'
    BY <1>3, CallReturnsInv
  <1>4. ASSUME NEW j \in Jobs, CallThrows(j) PROVE Inv'
    BY <1>4, CallThrowsInv
  <1>5. CASE Crash
    BY <1>5, CrashInv
  <1>6. CASE UNCHANGED vars
    BY <1>6 DEF vars, Inv, TypeOK, RunsInv, RunOf, Moved, HasMoved, Up
  <1> QED  BY <1>1, <1>2, <1>3, <1>4, <1>5, <1>6 DEF Next, Quiet

\* Type correctness: the rows of the jobs, the handlers, the container and its repositories have
\* the shapes the code gives them, for any number of slots, extensions, attempts and requests.
THEOREM TypeCorrect == Spec => []TypeOK
  <1>1. Inv => TypeOK
    BY DEF Inv
  <1> QED  BY <1>1, InvInit, InvNext, PTL DEF Spec

\* A migration that succeeded left a container that archives to the bucket and a backup in it,
\* whatever was enabled, restarted, cancelled or interrupted beside it (backup-migrate.ts).
THEOREM MigrationSucceeds == Spec => []MigrationDelivers
  <1>1. Inv => MigrationDelivers
    BY DEF Inv, Moved, HasMoved, MigrationDelivers
  <1> QED  BY <1>1, InvInit, InvNext, PTL DEF Spec
-----------------------------------------------------------------------------
(* The chain of backups. *)

LEMMA PendingFinite == IsFiniteSet(Pending) /\ Cardinality(Pending) \in Nat
  BY JobsAssumption, FS_Subset, FS_CardinalityType DEF Pending

\* The chain does not get longer.
Kept == Cardinality(Pending') <= Cardinality(Pending)

LEMMA FewerKept ==
    ASSUME Pending' \subseteq Pending
    PROVE  Kept
  BY PendingFinite, FS_Subset DEF Kept

\* One row of a pending run, or of another job, is written.
LEMMA RowKept ==
    ASSUME Inv, NEW j \in Jobs, NEW rec, job' = [job EXCEPT ![j] = rec],
           j \in BackupJobs => j \in Pending
    PROVE  Kept
  <1>1. \A k \in Jobs : k # j => job'[k] = job[k]
    BY JobTyped DEF Inv
  <1>2. Pending' \subseteq Pending
    BY <1>1, Kinds DEF Pending
  <1> QED  BY <1>2, FewerKept

\* A pending run makes way for its successor.
LEMMA SuccessorKept ==
    ASSUME Inv, NEW j \in Pending, job' = Scheduled([job EXCEPT ![j] = NoJob])
    PROVE  Kept
  <1>1. j \in BackupJobs /\ j \in Jobs /\ job \in [Jobs -> Row]
    BY Kinds, JobTyped DEF Inv, Pending
  <1>2. PICK jobs \in [Jobs -> Row] : jobs = [job EXCEPT ![j] = NoJob]
    BY <1>1, RowTypes
  <1>3. jobs[j].state = "none" /\ \A k \in Jobs : k # j => jobs[k] = job[k]
    BY <1>1, <1>2, RowTypes
  <1>4. CASE job' = jobs
    <2>1. Pending' \subseteq Pending
      BY <1>3, <1>4, Kinds DEF Pending
    <2> QED  BY <2>1, FewerKept
  <1>5. ASSUME NEW k \in BackupJobs, job' = [jobs EXCEPT ![k] = Queued] PROVE Kept
    <2>1. \A i \in Jobs : i # k => job'[i] = jobs[i]
      BY <1>5
    <2>2. Pending' \subseteq (Pending \ {j}) \cup {k}
      BY <1>3, <2>1, Kinds DEF Pending
    <2> QED  BY <2>2, PendingFinite, Replaced DEF Kept
  <1> QED  BY <1>2, <1>4, <1>5, ScheduledRows

LEMMA FinishesKept ==
    ASSUME Inv, Up, NEW j \in Jobs, run[j].at # 0, Finishes(j)
    PROVE  Kept
  <1>1. job[j].state = "running" /\ run[j].failed \in {"no", "error", "cancel"}
        /\ (run[j].failed = "cancel" => job[j].cancel)
    BY DEF Inv, TypeOK, RunsInv, RunOf
  <1>2. j \in BackupJobs => j \in Pending
    BY <1>1 DEF Pending
  <1>3. CASE j \in BackupJobs /\ run[j].failed = "no"
    <2>1. job' = Scheduled([job EXCEPT ![j] = NoJob])
      BY <1>3 DEF Finishes
    <2> QED  BY <1>2, <1>3, <2>1, SuccessorKept
  <1>4. CASE j \in BackupJobs /\ run[j].failed = "error"
    <2>1. job' = Rescheduled(j, [job EXCEPT ![j] = FailedAttempt(j)])
      BY <1>4, BackupFails
    <2>2. CASE job[j].attempts >= MaxAttempts[j]
      <3>1. FailedAttempt(j) = NoJob
        BY <1>4, <2>2 DEF FailedAttempt, Settled
      <3>2. job' = Scheduled([job EXCEPT ![j] = NoJob])
        BY <2>1, <2>2, <3>1 DEF Rescheduled
      <3> QED  BY <1>2, <1>4, <3>2, SuccessorKept
    <2>3. CASE ~(job[j].attempts >= MaxAttempts[j])
      <3>1. job' = [job EXCEPT ![j] = FailedAttempt(j)]
        BY <2>1, <2>3 DEF Rescheduled
      <3> QED  BY <1>2, <3>1, RowKept
    <2> QED  BY <2>2, <2>3
  <1>5. CASE j \in BackupJobs /\ run[j].failed = "cancel"
    <2>1. job' = Rescheduled(j, [job EXCEPT ![j] = CancelledAttempt(j)])
      BY <1>5, BackupFails
    <2>2. CancelledAttempt(j) = NoJob
      BY <1>1, <1>5 DEF CancelledAttempt, Settled
    <2>3. CASE job[j].attempts >= MaxAttempts[j]
      <3>1. job' = Scheduled([job EXCEPT ![j] = NoJob])
        BY <2>1, <2>2, <2>3 DEF Rescheduled
      <3> QED  BY <1>2, <1>5, <3>1, SuccessorKept
    <2>4. CASE ~(job[j].attempts >= MaxAttempts[j])
      <3>1. job' = [job EXCEPT ![j] = CancelledAttempt(j)]
        BY <2>1, <2>4 DEF Rescheduled
      <3> QED  BY <1>2, <3>1, RowKept
    <2> QED  BY <2>3, <2>4
  <1>6. CASE j = Check /\ run[j].failed = "error"
    <2>1. job' = [job EXCEPT ![j] = FailedAttempt(j)]
      BY <1>6, Kinds DEF Finishes, Becomes
    <2> QED  BY <1>2, <2>1, RowKept
  <1>7. CASE j = Check /\ run[j].failed = "cancel"
    <2>1. job' = [job EXCEPT ![j] = CancelledAttempt(j)]
      BY <1>7, Kinds DEF Finishes, Becomes
    <2> QED  BY <1>2, <2>1, RowKept
  <1>8. CASE j \notin BackupJobs /\ ~(j = Check /\ run[j].failed \in {"error", "cancel"})
    <2>1. job' = [job EXCEPT ![j] = Settled(j, "succeeded")]
      BY <1>8 DEF Finishes, Becomes
    <2> QED  BY <1>2, <2>1, RowKept
  <1> QED  BY <1>1, <1>3, <1>4, <1>5, <1>6, <1>7, <1>8

LEMMA ClaimKept ==
    ASSUME Inv, NEW j \in Jobs, Claim(j)
    PROVE  Kept
  <1>1. job[j].state = "queued" /\ Begins(j, Claimed(j))
    BY DEF Claim, Claimed
  <1>2. j \in BackupJobs => j \in Pending
    BY <1>1 DEF Pending
  <1>3. \A rec : Becomes(j, rec) => Kept
    BY <1>2, RowKept DEF Becomes
  <1>4. CASE j \in BackupJobs /\ BeginsBackup(j, Claimed(j))
    <2>1. CASE job' = Scheduled([job EXCEPT ![j] = NoJob])
      BY <1>2, <1>4, <2>1, SuccessorKept
    <2>2. CASE Becomes(j, NoJob) \/ Becomes(j, [Claimed(j) EXCEPT !.state = "queued"])
               \/ Becomes(j, Claimed(j))
      BY <1>3, <2>2
    <2> QED  BY <1>4, <2>1, <2>2 DEF BeginsBackup, Becomes
  <1>5. CASE j = Migration /\ BeginsMigration(Claimed(j))
    <2>1. CASE host.storage
      BY <1>3, <1>5, <2>1 DEF BeginsMigration
    <2>2. CASE ~host.storage
      BY <1>3, <1>5, <2>2 DEF BeginsMigration
    <2> QED  BY <2>1, <2>2
  <1>6. CASE j \in Extensions /\ BeginsExtension(j, Claimed(j))
    BY <1>3, <1>6 DEF BeginsExtension
  <1>7. CASE j = Check /\ BeginsCheck(Claimed(j))
    <2>1. Becomes(j, Settled(j, "succeeded")) \/ Becomes(j, Claimed(j))
      BY <1>7 DEF BeginsCheck
    <2> QED  BY <1>3, <2>1
  <1> QED  BY <1>1, <1>4, <1>5, <1>6, <1>7 DEF Begins

LEMMA CallReturnsKept ==
    ASSUME Inv, Up, NEW j \in Jobs, CallReturns(j)
    PROVE  Kept
  <1>1. run[j].at # 0 /\ job[j].state = "running"
    BY DEF CallReturns, Inv, RunsInv, RunOf
  <1>2. CASE IsLast(j)
    BY <1>1, <1>2, FinishesKept DEF CallReturns
  <1>3. CASE ~IsLast(j)
    <2>1. job' = [job EXCEPT ![j] = [job[j] EXCEPT !.steps = StepsAfter(j)]]
      BY <1>3 DEF CallReturns, Becomes
    <2>2. j \in BackupJobs => j \in Pending
      BY <1>1 DEF Pending
    <2> QED  BY <2>1, <2>2, RowKept
  <1> QED  BY <1>2, <1>3

LEMMA CallThrowsKept ==
    ASSUME Inv, Up, NEW j \in Jobs, CallThrows(j)
    PROVE  Kept
  <1>1. run[j].at # 0 /\ job[j].state = "running"
    BY DEF CallThrows, Inv, RunsInv, RunOf
  <1>2. j \in BackupJobs => j \in Pending
    BY <1>1 DEF Pending
  <1>3. \/ Finishes(j)
        \/ UNCHANGED job
        \/ Becomes(j, IF Why(j) = "cancel" THEN CancelledAttempt(j) ELSE FailedAttempt(j))
    BY DEF CallThrows, Why
  <1>4. CASE UNCHANGED job
    <2>1. Pending' \subseteq Pending
      BY <1>4 DEF Pending
    <2> QED  BY <2>1, FewerKept
  <1>5. CASE Becomes(j, IF Why(j) = "cancel" THEN CancelledAttempt(j) ELSE FailedAttempt(j))
    BY <1>2, <1>5, RowKept DEF Becomes
  <1> QED  BY <1>1, <1>3, <1>4, <1>5, FinishesKept

LEMMA CrashKept ==
    ASSUME Inv, Crash
    PROVE  Kept
  <1>1. job' = [j \in Jobs |-> IF run[j].at = 0 THEN job[j] ELSE FailedAttempt(j)]
    BY DEF Crash
  <1>2. \A j \in Jobs : job'[j] = job[j] \/ job[j].state = "running"
    BY <1>1 DEF Inv, RunsInv, RunOf
  <1>3. Pending' \subseteq Pending
    BY <1>2, Kinds DEF Pending
  <1> QED  BY <1>3, FewerKept

\* Other steps leave the rows of the jobs alone, are requests, or need that nothing is pending.
LEMMA QuietKept ==
    ASSUME Inv, Quiet, Pending # {}
    PROVE  Kept \/ used'.requests > used.requests
  <1>1. CASE UNCHANGED job
    <2>1. Pending' \subseteq Pending
      BY <1>1 DEF Pending
    <2> QED  BY <2>1, FewerKept
  <1>2. CASE Request
    <2>1. used'.requests = used.requests + 1 /\ used.requests \in Nat
      BY <1>2, BoundsAssumption DEF Request, Inv, TypeOK
    <2> QED  BY <2>1
  <1>3. ~EnsureScheduled
    BY DEF EnsureScheduled, Unscheduled
  <1>4. Request \/ UNCHANGED job
    BY <1>3 DEF Quiet, RunNow, Migrate, RequestCheck, Reconcile, Configure, SetStorage, Sample,
                SetRunning, Enable, Disable, RequestCancel, Shutdown, Restart
  <1> QED  BY <1>1, <1>2, <1>4

\* The chain of backups never forks by itself: a run that ends, fails for the last time, is deferred
\* or is cancelled frees its own slot before its successor takes one, and the sweep queues a run only
\* when none is pending (backup-run.ts, ensureScheduled()).  What adds a second one is a request, or
\* a shutdown that releases a run whose successor has just been queued.
THEOREM ChainIsOne == Spec => OneChain
  <1> DEFINE Step == Cardinality(Pending') > Cardinality(Pending) /\ Pending # {} =>
                         used'.requests > used.requests \/ ~Up
  <1>1. Inv /\ [Next]_vars => [Step]_vars
    <2> SUFFICES ASSUME Inv, Next, Up, Pending # {}
                 PROVE  ~(Cardinality(Pending') > Cardinality(Pending)) \/ used'.requests > used.requests
      OBVIOUS
    <2>1. Kept => ~(Cardinality(Pending') > Cardinality(Pending))
      <3>1. Cardinality(Pending') \in Nat
        BY JobsAssumption, FS_Subset, FS_CardinalityType DEF Pending
      <3> QED  BY <3>1, PendingFinite DEF Kept
    <2>2. CASE Quiet
      BY <2>1, <2>2, QuietKept
    <2>3. ASSUME NEW j \in Jobs, Claim(j) \/ CallReturns(j) \/ CallThrows(j) PROVE Kept
      BY <2>3, ClaimKept, CallReturnsKept, CallThrowsKept
    <2>4. CASE Crash
      BY <2>1, <2>4, CrashKept
    <2> QED  BY <2>1, <2>2, <2>3, <2>4 DEF Next, Quiet
  <1>2. Spec => [][Step]_vars
    BY <1>1, InvInit, InvNext, PTL DEF Spec
  <1> QED  BY <1>2 DEF OneChain
-----------------------------------------------------------------------------
(* The libraries. *)

\* Handlers that recreate the container do not overlap, with one another or with themselves.
RecreatesAlone == \A i, j \in Recreators : run[i].at # 0 /\ run[j].at # 0 => i = j

\* The row has the library, or should; the container was created with it, or should have been.
Recorded(e) == job[e].steps >= 1 \/ e \in created
Loaded(e) == job[e].steps >= 2 \/ run[e].at >= 4 \/ e \in created

LibraryOf(e) ==
    /\ Recorded(e) => e \in row.preload
    /\ Loaded(e) /\ cont.id # 0 => e \in cont.preload

\* What a handler would give to a container is what the row says.
Current(j) == run[j].at # 0 => run[j].preload = row.preload

\* The inductive invariant: every library of an extension that was created, or whose handler is past
\* that point, is on the row and in the container.
Libraries ==
    /\ \A e \in Extensions : LibraryOf(e)
    /\ \A j \in Recreators : Current(j)

\* A job gets no further with its extension.
NoFurther(e) == (Recorded(e)' => Recorded(e)) /\ (Loaded(e)' => Loaded(e))

\* The container with the name is the one before, or one with the same libraries.
ContainerKept == cont'.id # 0 => cont.id # 0 /\ cont'.preload = cont.preload

LEMMA LibraryKept ==
    ASSUME NEW e \in Extensions, LibraryOf(e), NoFurther(e), row'.preload = row.preload, ContainerKept
    PROVE  LibraryOf(e)'
  BY DEF LibraryOf, NoFurther, ContainerKept

LEMMA StillNoFurther ==
    ASSUME Inv, NEW e \in Extensions, Still(e), e \in created' => e \in created
    PROVE  NoFurther(e)
  <1>1. job[e] \in Row
    BY Kinds DEF Inv, TypeOK, Row
  <1>2. run'[e] = run[e] /\ (job'[e].steps = job[e].steps \/ job'[e].steps = 0)
    <2>1. CASE job'[e] = [job[e] EXCEPT !.cancel = TRUE]
      BY <1>1, <2>1 DEF Row, Still
    <2> QED  BY <2>1 DEF Still
  <1> QED  BY <1>2 DEF NoFurther, Recorded, Loaded

\* A step that changes no handler that recreates the container, no library and no container.
LEMMA AsideLibraries ==
    ASSUME Inv, Libraries, \A k \in Recreators : Still(k), created' \subseteq created,
           row'.preload = row.preload, ContainerKept
    PROVE  Libraries'
  <1>1. ASSUME NEW e \in Extensions PROVE LibraryOf(e)'
    BY <1>1, StillNoFurther, LibraryKept DEF Libraries, Recreators
  <1>2. ASSUME NEW k \in Recreators PROVE Current(k)'
    BY <1>2 DEF Libraries, Current, Still
  <1> QED  BY <1>1, <1>2 DEF Libraries

\* scheduleRun() queues nothing but backups.
LEMMA ScheduledAside ==
    ASSUME NEW jobs \in [Jobs -> Row], NEW k \in Recreators
    PROVE  Scheduled(jobs)[k] = jobs[k]
  BY ScheduledRows, Kinds DEF Recreators

LEMMA QuietLibraries ==
    ASSUME Inv, Libraries, Quiet
    PROVE  Libraries'
  <1>1. job \in [Jobs -> Row]
    BY JobTyped DEF Inv
  <1>2. ASSUME run' = run, job' \in {job, Scheduled(job)}
        PROVE  \A k \in Recreators : Still(k)
    BY <1>1, <1>2, ScheduledAside DEF Still
  <1>3. ASSUME run' = run, NEW j \in Jobs, job[j].state # "running", job' = [job EXCEPT ![j] = Queued]
        PROVE  \A k \in Recreators : Still(k)
    <2>1. \A k \in Jobs : Still(k)
      BY <1>1, <1>3, RowTypes DEF Still
    <2> QED  BY <2>1, Kinds DEF Recreators
  <1>4. ASSUME NEW j \in Jobs, RequestCancel(j)
        PROVE  \A k \in Recreators : Still(k)
    <2>1. /\ Settled(j, "cancelled").steps = 0
          /\ Settled(j, "cancelled").state \notin {"running", "succeeded"}
      BY SettledRow
    <2>2. CASE job[j].state = "running"
      <3>1. job' = [job EXCEPT ![j] = [job[j] EXCEPT !.cancel = TRUE]]
        BY <1>4, <2>2 DEF RequestCancel
      <3>2. \A k \in Jobs : Still(k)
        BY <1>1, <1>4, <3>1 DEF Still, RequestCancel
      <3> QED  BY <3>2, Kinds DEF Recreators
    <2>3. CASE job[j].state # "running"
      <3>1. job' = [job EXCEPT ![j] = Settled(j, "cancelled")]
        BY <1>1, <1>4, <2>3 DEF RequestCancel
      <3>2. \A k \in Jobs : Still(k)
        BY <1>1, <1>4, <2>1, <2>3, <3>1 DEF Still, RequestCancel
      <3> QED  BY <3>2, Kinds DEF Recreators
    <2> QED  BY <2>2, <2>3
  <1>5. \A k \in Recreators : Still(k)
    <2>1. CASE EnsureScheduled \/ RunNow \/ \E on \in BOOLEAN : Configure(on)
      BY <2>1, <1>2 DEF EnsureScheduled, RunNow, Configure
    <2>2. CASE Migrate \/ RequestCheck \/ \E e \in Extensions : Enable(e)
      <3>1. CASE Migrate
        BY <3>1, <1>3, Kinds DEF Migrate
      <3>2. CASE RequestCheck
        BY <3>2, <1>3, Kinds DEF RequestCheck
      <3>3. ASSUME NEW e \in Extensions, Enable(e) PROVE \A k \in Recreators : Still(k)
        BY <3>3, <1>3, Kinds DEF Enable
      <3> QED  BY <2>2, <3>1, <3>2, <3>3
    <2>3. CASE UNCHANGED <<job, run>>
      BY <2>3 DEF Still
    <2>4. \/ Reconcile \/ Shutdown \/ Restart
          \/ \E on \in BOOLEAN : SetStorage(on) \/ Sample(on) \/ SetRunning(on)
          \/ \E e \in Extensions : Disable(e)
          => UNCHANGED <<job, run>>
      BY DEF Reconcile, Shutdown, Restart, SetStorage, Sample, SetRunning, Disable
    <2> QED  BY <1>4, <2>1, <2>2, <2>3, <2>4 DEF Quiet
  <1>6. created' \subseteq created
    BY DEF Quiet, EnsureScheduled, RunNow, Migrate, RequestCheck, Reconcile, Configure, SetStorage,
           Sample, SetRunning, Enable, Disable, RequestCancel, Shutdown, Restart
  <1>7. row'.preload = row.preload
    <2>1. row \in [state : {"running", "stopped", "failed"}, cid : Ids, preload : SUBSET Extensions]
      BY DEF Inv, TypeOK
    <2>2. row' = row \/ \E s : row' = [row EXCEPT !.state = s]
      BY DEF Quiet, EnsureScheduled, RunNow, Migrate, RequestCheck, Reconcile, Configure, SetStorage,
             Sample, SetRunning, Enable, Disable, RequestCancel, Shutdown, Restart
    <2> QED  BY <2>1, <2>2
  <1>8. ContainerKept
    <2>1. cont \in [id : {0} \cup Ids, up : BOOLEAN, repo : {"local", "s3"}, preload : SUBSET Extensions]
      BY DEF Inv, TypeOK
    <2>2. cont' = cont \/ \E up : cont' = [cont EXCEPT !.up = up]
      BY DEF Quiet, EnsureScheduled, RunNow, Migrate, RequestCheck, Reconcile, Configure, SetStorage,
             Sample, SetRunning, Enable, Disable, RequestCancel, Shutdown, Restart
    <2> QED  BY <2>1, <2>2 DEF ContainerKept
  <1> QED  BY <1>5, <1>6, <1>7, <1>8, AsideLibraries

\* What a call does to the container: created, it has every library of the row; else it has what it had.
LEMMA ActsLibraries ==
    ASSUME Inv, Libraries, NEW j \in Jobs, run[j].at # 0, Acts(j), NEW e \in Extensions,
           Loaded(e) \/ (Call(j) = "create" /\ Recorded(e)), cont'.id # 0
    PROVE  e \in cont'.preload
  <1>1. cont' = ContAfter(j)
    BY DEF Acts
  <1>2. cont \in [id : {0} \cup Ids, up : BOOLEAN, repo : {"local", "s3"}, preload : SUBSET Extensions]
    BY DEF Inv, TypeOK
  <1>3. Loaded(e) => Recorded(e)
    BY Kinds DEF Inv, TypeOK, RunsInv, RunOf, Recreators, Loaded, Recorded
  <1>4. CASE Call(j) = "create"
    <2>1. cont'.preload = run[j].preload
      BY <1>1, <1>4 DEF ContAfter
    <2>2. j \in Recreators
      BY <1>4, CallerKinds
    <2>3. run[j].preload = row.preload
      BY <2>2 DEF Libraries, Current
    <2>4. e \in row.preload
      BY <1>3 DEF Libraries, LibraryOf
    <2> QED  BY <2>1, <2>3, <2>4
  <1>5. CASE Call(j) # "create"
    <2>1. cont.id # 0 /\ cont'.preload = cont.preload
      <3>1. CASE Call(j) = "stop"
        BY <1>1, <1>2, <3>1 DEF ContAfter
      <3>2. CASE Call(j) = "remove"
        <4>1. ContAfter(j) = NoContainer \/ ContAfter(j) = cont
          BY <3>2 DEF ContAfter
        <4> QED  BY <1>1, <4>1 DEF NoContainer
      <3>3. CASE Call(j) = "start"
        BY <1>1, <1>2, <3>3 DEF ContAfter
      <3>4. CASE Call(j) \notin {"stop", "remove", "create", "start"}
        BY <1>1, <3>4 DEF ContAfter
      <3> QED  BY <1>5, <3>1, <3>2, <3>3, <3>4
    <2>2. Loaded(e)
      BY <1>5
    <2> QED  BY <2>1, <2>2 DEF Libraries, LibraryOf
  <1> QED  BY <1>4, <1>5

\* An extension is created only by its own handler, whose library is loaded by then.
LEMMA ActsCreated ==
    ASSUME Inv, NEW j \in Jobs, run[j].at # 0, Acts(j), NEW e \in Extensions, e \in created'
    PROVE  Loaded(e) /\ Recorded(e)
  <1>1. CASE e \in created
    BY <1>1 DEF Loaded, Recorded
  <1>2. CASE e \notin created
    <2>1. e = j /\ Call(j) = "extension"
      BY <1>2 DEF Acts
    <2>2. run[e].at \in 1..6 /\ job[e].steps >= 1
      BY <2>1, CallerKinds, Kinds DEF Last, Inv, RunsInv, RunOf, Recreators
    <2>3. run[e].at = 6
      BY <2>1, <2>2, ExtensionCalls
    <2> QED  BY <2>2, <2>3 DEF Loaded, Recorded
  <1> QED  BY <1>1, <1>2

\* Jobs that do not recreate the container leave those that do, the row's libraries and the container alone.
LEMMA OthersLibraries ==
    ASSUME Inv, Libraries, NEW j \in Jobs, j \notin Recreators, Claim(j) \/ CallReturns(j) \/ CallThrows(j)
    PROVE  Libraries'
  <1>1. job \in [Jobs -> Row] /\ run \in [Jobs -> Handler] /\ (j \in BackupJobs \/ j = Check)
    BY JobTyped, Kinds DEF Inv, Recreators
  <1>2. \A k \in Recreators : k \in Jobs /\ k # j
    BY Kinds DEF Recreators
  <1>3. ASSUME NEW rec, job' = [job EXCEPT ![j] = rec]
        PROVE  \A k \in Recreators : job'[k] = job[k]
    BY <1>1, <1>2, <1>3
  <1>4. ASSUME NEW rec \in Row, job' = Scheduled([job EXCEPT ![j] = rec])
        PROVE  \A k \in Recreators : job'[k] = job[k]
    <2>1. PICK jobs \in [Jobs -> Row] : jobs = [job EXCEPT ![j] = rec]
      BY <1>1
    <2>2. \A k \in Recreators : jobs[k] = job[k] /\ job'[k] = jobs[k]
      BY <1>1, <1>2, <1>4, <2>1, ScheduledAside
    <2> QED  BY <2>2
  <1>5. ASSUME NEW r, Goes(j, r)
        PROVE  \A k \in Recreators : run'[k] = run[k]
    BY <1>1, <1>2, <1>5 DEF Goes
  <1>6. CASE Claim(j)
    <2>1. job[j].state = "queued" /\ Begins(j, Claimed(j)) /\ UNCHANGED <<created, cont>>
      BY <1>6 DEF Claim, Claimed
    <2>2. CASE j \in BackupJobs
      <3>1. BeginsBackup(j, Claimed(j)) /\ UNCHANGED row
        BY <2>1, <2>2, Kinds DEF Begins
      <3>2. \/ job' = Scheduled([job EXCEPT ![j] = NoJob])
            \/ \E rec : job' = [job EXCEPT ![j] = rec]
        BY <3>1 DEF BeginsBackup, Becomes
      <3>3. UNCHANGED run \/ \E r : Goes(j, r)
        BY <3>1 DEF BeginsBackup
      <3>4. \A k \in Recreators : Still(k)
        BY <1>3, <1>4, <1>5, <3>2, <3>3, RowTypes DEF Still
      <3> QED  BY <2>1, <3>1, <3>4, AsideLibraries DEF ContainerKept
    <2>3. CASE j = Check
      <3>1. BeginsCheck(Claimed(j)) /\ UNCHANGED row
        BY <2>1, <2>3, Kinds DEF Begins
      <3>2. \E rec : job' = [job EXCEPT ![j] = rec]
        BY <2>3, <3>1 DEF BeginsCheck, Becomes
      <3>3. UNCHANGED run \/ \E r : Goes(j, r)
        BY <2>3, <3>1 DEF BeginsCheck
      <3>4. \A k \in Recreators : Still(k)
        BY <1>3, <1>5, <3>2, <3>3 DEF Still
      <3> QED  BY <2>1, <3>1, <3>4, AsideLibraries DEF ContainerKept
    <2> QED  BY <1>1, <2>2, <2>3
  <1>7. ASSUME run[j].at # 0, Finishes(j) PROVE \A k \in Recreators : Still(k)
    <2>1. \A k \in Recreators : run'[k] = run[k]
      BY <1>5, <1>7 DEF Finishes
    <2>2. FailedAttempt(j) \in Row /\ CancelledAttempt(j) \in Row
      BY <1>7, FailedRow, CancelledRow DEF Inv, RunsInv, RunOf
    <2>3. \/ \E rec \in Row : job' = Scheduled([job EXCEPT ![j] = rec])
          \/ \E rec : job' = [job EXCEPT ![j] = rec]
      <3>1. CASE j \in BackupJobs /\ run[j].failed = "no"
        <4>1. job' = Scheduled([job EXCEPT ![j] = NoJob])
          BY <1>7, <3>1 DEF Finishes
        <4> QED  BY <4>1, RowTypes
      <3>2. CASE j \in BackupJobs /\ run[j].failed = "error"
        <4>1. job' = Rescheduled(j, [job EXCEPT ![j] = FailedAttempt(j)])
          BY <1>7, <3>2, BackupFails
        <4> QED  BY <2>2, <4>1 DEF Rescheduled
      <3>3. CASE j \in BackupJobs /\ run[j].failed \notin {"no", "error"}
        <4>1. job' = Rescheduled(j, [job EXCEPT ![j] = CancelledAttempt(j)])
          BY <1>7, <3>3, BackupFails
        <4> QED  BY <2>2, <4>1 DEF Rescheduled
      <3>4. CASE j = Check
        <4>1. \/ Becomes(j, FailedAttempt(j)) \/ Becomes(j, CancelledAttempt(j))
              \/ Becomes(j, Settled(j, "succeeded"))
          BY <1>7, <3>4, Kinds DEF Finishes
        <4> QED  BY <4>1 DEF Becomes
      <3> QED  BY <1>1, <3>1, <3>2, <3>3, <3>4
    <2> QED  BY <1>3, <1>4, <2>1, <2>3 DEF Still
  <1>8. CASE CallReturns(j)
    <2>1. run[j].at # 0 /\ Acts(j)
      BY <1>8 DEF CallReturns
    <2>2. Call(j) \notin {"stop", "remove", "create", "start", "extension"}
      <3>1. CASE j \in BackupJobs
        <4>1. run[j].at \in 1..3
          BY <2>1, <3>1, CallerKinds DEF Last
        <4> QED  BY <3>1, <4>1, OtherCalls
      <3>2. CASE j = Check
        <4>1. run[j].at \in 1..4
          BY <2>1, <3>2, CallerKinds, Kinds DEF Last
        <4> QED  BY <3>2, <4>1, OtherCalls
      <3> QED  BY <1>1, <3>1, <3>2
    <2>3. cont' = cont /\ created' = created /\ row' = row
      BY <1>8, <2>2 DEF CallReturns, Acts, ContAfter
    <2>4. CASE IsLast(j)
      <3>1. \A k \in Recreators : Still(k)
        BY <1>7, <1>8, <2>1, <2>4 DEF CallReturns
      <3> QED  BY <2>3, <3>1, AsideLibraries DEF ContainerKept
    <2>5. CASE ~IsLast(j)
      <3>1. (\E rec : job' = [job EXCEPT ![j] = rec]) /\ (\E r : Goes(j, r))
        BY <1>8, <2>5 DEF CallReturns, Becomes
      <3>2. \A k \in Recreators : Still(k)
        BY <1>3, <1>5, <3>1 DEF Still
      <3> QED  BY <2>3, <3>2, AsideLibraries DEF ContainerKept
    <2> QED  BY <2>4, <2>5
  <1>9. CASE CallThrows(j)
    <2>1. run[j].at # 0 /\ UNCHANGED <<row, cont, created>>
      BY <1>9 DEF CallThrows
    <2>2. Finishes(j) \/ (UNCHANGED job /\ \E r : Goes(j, r))
      BY <1>1, <1>9 DEF CallThrows
    <2>3. \A k \in Recreators : Still(k)
      BY <1>5, <1>7, <2>1, <2>2 DEF Still
    <2> QED  BY <2>1, <2>3, AsideLibraries DEF ContainerKept
  <1> QED  BY <1>6, <1>8, <1>9

\* A handler that recreates the container starts with what the row says, once it has recorded its own.
LEMMA ClaimLibraries ==
    ASSUME Inv, Libraries, RecreatesAlone', NEW j \in Recreators, Claim(j)
    PROVE  Libraries'
  <1>1. job \in [Jobs -> Row] /\ run \in [Jobs -> Handler] /\ j \in Jobs
    BY JobTyped, Kinds DEF Inv, Recreators
  <1>2. job[j].state = "queued" /\ Begins(j, Claimed(j)) /\ UNCHANGED <<created, cont>>
    BY DEF Claim, Claimed
  <1>3. row \in [state : {"running", "stopped", "failed"}, cid : Ids, preload : SUBSET Extensions]
    BY DEF Inv, TypeOK
  <1>4. Claimed(j).steps = job[j].steps /\ run[j].at = 0
    BY <1>1, <1>2, ClaimedRow
  <1>5. ContainerKept
    BY <1>2 DEF ContainerKept
  <1>6. CASE j = Migration
    <2>1. BeginsMigration(Claimed(Migration)) /\ UNCHANGED row
      BY <1>2, <1>6, Kinds DEF Begins
    <2>2. \A e \in Extensions : job'[e] = job[e] /\ run'[e] = run[e]
      BY <1>1, <1>6, <2>1, Kinds DEF BeginsMigration, Becomes, Goes
    <2>3. run'[Migration] = run[Migration] \/ run'[Migration].preload = row.preload
      <3>1. \/ run' = run
            \/ run' = [run EXCEPT ![Migration] = [at |-> Resume(Claimed(Migration).steps), cid |-> row.cid,
                                                  preload |-> row.preload, failed |-> "no"]]
        BY <2>1 DEF BeginsMigration, Goes
      <3> QED  BY <1>1, <1>6, <3>1
    <2>4. ASSUME NEW e \in Extensions PROVE LibraryOf(e)'
      <3>1. NoFurther(e)
        BY <1>2, <2>2 DEF NoFurther, Recorded, Loaded
      <3> QED  BY <1>5, <2>1, <3>1, LibraryKept DEF Libraries
    <2>5. ASSUME NEW k \in Recreators PROVE Current(k)'
      <3>1. run'[k] = run[k] \/ (k = Migration /\ run'[k].preload = row.preload)
        BY <2>2, <2>3 DEF Recreators
      <3> QED  BY <2>1, <3>1 DEF Libraries, Current
    <2> QED  BY <2>4, <2>5 DEF Libraries
  <1>7. CASE j \in Extensions
    <2>1. BeginsExtension(j, Claimed(j))
      BY <1>2, <1>7, Kinds DEF Begins
    <2>2. /\ job' = [job EXCEPT ![j] = Begun(j)]
          /\ run' = [run EXCEPT ![j] = [at |-> Resume(job[j].steps), cid |-> row.cid,
                                        preload |-> row.preload \cup {j}, failed |-> "no"]]
          /\ row' = IF job[j].steps = 0 THEN [row EXCEPT !.preload = @ \cup {j}] ELSE row
      BY <1>4, <2>1 DEF BeginsExtension, PreloadRecorded, Becomes, Goes, Begun
    <2>3. row'.preload = row.preload \cup {j}
      <3>1. CASE job[j].steps = 0
        BY <1>3, <2>2, <3>1
      <3>2. CASE job[j].steps # 0
        <4>1. job[j].steps >= 1
          BY <1>1, <3>2 DEF Row
        <4>2. j \in row.preload
          BY <1>7, <4>1 DEF Libraries, LibraryOf, Recorded
        <4> QED  BY <2>2, <3>2, <4>2
      <3> QED  BY <3>1, <3>2
    <2>4. /\ job'[j] = Begun(j) /\ run'[j].at = Resume(job[j].steps) /\ run'[j].preload = row'.preload
          /\ run'[j].at # 0
      <3>1. Resume(job[j].steps) \in 1..Last(j)
        BY <1>2, BegunRow
      <3> QED  BY <1>1, <2>2, <2>3, <3>1 DEF Last
    <2>5. \A k \in Jobs : k # j => job'[k] = job[k] /\ run'[k] = run[k]
      BY <1>1, <2>2
    <2>6. ASSUME NEW e \in Extensions, e # j PROVE LibraryOf(e)'
      <3>1. job'[e] = job[e] /\ run'[e] = run[e]
        BY <2>5, <2>6, Kinds
      <3> QED  BY <1>2, <2>3, <3>1 DEF Libraries, LibraryOf, Recorded, Loaded
    <2>7. LibraryOf(j)'
      <3>1. Loaded(j)' => Loaded(j)
        BY <1>2, <2>4, BegunRow DEF Loaded
      <3> QED  BY <1>2, <1>7, <2>3, <3>1 DEF Libraries, LibraryOf
    <2>8. ASSUME NEW k \in Recreators PROVE Current(k)'
      <3>1. k = j \/ run'[k].at = 0
        BY <2>4 DEF RecreatesAlone
      <3> QED  BY <2>4, <3>1 DEF Current
    <2> QED  BY <2>6, <2>7, <2>8 DEF Libraries
  <1> QED  BY <1>6, <1>7 DEF Recreators

\* The row and the handler of a job that recreates the container, once its call has returned.
LEMMA ReturnedRow ==
    ASSUME Inv, NEW j \in Recreators, CallReturns(j)
    PROVE  /\ \A k \in Recreators : k # j => job'[k] = job[k] /\ run'[k] = run[k]
           /\ run'[j].at # 0 => run'[j].preload = run[j].preload
           /\ job'[j].steps >= 2 => job[j].steps >= 2 \/ run[j].at >= 4
           /\ run'[j].at >= 4 => run[j].at >= 3
  <1>1. /\ job \in [Jobs -> Row] /\ run \in [Jobs -> Handler] /\ j \in Jobs
        /\ j \notin BackupJobs /\ j # Check /\ \A k \in Recreators : k \in Jobs
    BY JobTyped, Kinds DEF Inv, Recreators
  <1>2. run[j].at # 0 /\ run[j].at \in 1..Last(j)
    BY <1>1, CallerKinds DEF CallReturns
  <1>3. CASE IsLast(j)
    <2>1. job' = [job EXCEPT ![j] = Settled(j, "succeeded")] /\ run' = [run EXCEPT ![j] = NoRun]
      BY <1>1, <1>3 DEF CallReturns, Finishes, Becomes, Goes
    <2>2. Settled(j, "succeeded").steps = 0 /\ NoRun.at = 0
      BY <1>1, SettledRow, RowTypes
    <2> QED  BY <1>1, <2>1, <2>2
  <1>4. CASE ~IsLast(j)
    <2>1. /\ job' = [job EXCEPT ![j] = [job[j] EXCEPT !.steps = StepsAfter(j)]]
          /\ run' = [run EXCEPT ![j] = [run[j] EXCEPT !.at = run[j].at + 1,
                                            !.cid = IF Call(j) = "create" THEN Fresh ELSE run[j].cid]]
      BY <1>4 DEF CallReturns, Becomes, Goes
    <2>2. /\ job'[j] = [job[j] EXCEPT !.steps = StepsAfter(j)]
          /\ run'[j] = [run[j] EXCEPT !.at = run[j].at + 1,
                                      !.cid = IF Call(j) = "create" THEN Fresh ELSE run[j].cid]
          /\ \A k \in Recreators : k # j => job'[k] = job[k] /\ run'[k] = run[k]
      BY <1>1, <2>1
    <2>3. job'[j].steps = StepsAfter(j) /\ run'[j].at = run[j].at + 1 /\ run'[j].preload = run[j].preload
      BY <1>1, <2>2 DEF Row, Handler
    <2>4. run[j].at <= 3 => StepsAfter(j) = job[j].steps
      <3>1. CASE j = Migration
        BY <1>2, <1>4, <3>1, IsLastAt, StepsBound, Kinds
      <3>2. CASE j \in Extensions
        <4>1. run[j].at \in 1..6
          BY <1>2, <3>2, Kinds DEF Last
        <4>2. run[j].at <= 3 => Call(j) \notin {"start", "stanza", "wait", "check", "extension"}
          BY <3>2, <4>1, ExtensionCalls
        <4> QED  BY <4>2 DEF StepsAfter
      <3> QED  BY <3>1, <3>2 DEF Recreators
    <2> QED  BY <1>2, <2>2, <2>3, <2>4 DEF Last
  <1> QED  BY <1>3, <1>4

LEMMA ReturnLibraries ==
    ASSUME Inv, Libraries, RecreatesAlone, NEW j \in Recreators, CallReturns(j)
    PROVE  Libraries'
  <1>1. j \in Jobs /\ run[j].at # 0 /\ Acts(j)
        /\ row' = IF Call(j) = "start" THEN [row EXCEPT !.cid = run[j].cid] ELSE row
    BY Kinds DEF CallReturns, Recreators
  <1>2. row'.preload = row.preload
    BY <1>1 DEF Inv, TypeOK
  <1>3. /\ \A k \in Recreators : k # j => job'[k] = job[k] /\ run'[k] = run[k]
        /\ run'[j].at # 0 => run'[j].preload = run[j].preload
        /\ job'[j].steps >= 2 => job[j].steps >= 2 \/ run[j].at >= 4
        /\ run'[j].at >= 4 => run[j].at >= 3
    BY ReturnedRow
  <1>4. ASSUME NEW e \in Extensions PROVE LibraryOf(e)'
    <2>1. e \in created' => Loaded(e) /\ Recorded(e)
      BY <1>1, ActsCreated
    <2>2. Recorded(e)' => Recorded(e)
      <3>1. CASE e = j
        <4>1. job[e].steps >= 1
          BY <1>1, <3>1 DEF Inv, RunsInv, RunOf
        <4> QED  BY <4>1 DEF Recorded
      <3>2. CASE e # j
        BY <1>3, <2>1, <3>2 DEF Recorded, Recreators
      <3> QED  BY <3>1, <3>2
    <2>3. Loaded(e)' => Loaded(e) \/ (Call(j) = "create" /\ Recorded(e))
      <3>1. CASE e = j
        <4>1. job[e].steps >= 1 /\ run[e].at \in 1..6
          BY <1>1, <3>1, CallerKinds, Kinds DEF Inv, RunsInv, RunOf, Last
        <4>2. run[e].at >= 3 => run[e].at >= 4 \/ Call(e) = "create"
          BY <4>1, ExtensionCalls
        <4> QED  BY <1>3, <2>1, <3>1, <4>1, <4>2 DEF Loaded, Recorded
      <3>2. CASE e # j
        BY <1>3, <2>1, <3>2 DEF Loaded, Recreators
      <3> QED  BY <3>1, <3>2
    <2>4. Loaded(e)' /\ cont'.id # 0 => e \in cont'.preload
      BY <1>1, <2>3, ActsLibraries
    <2> QED  BY <1>2, <2>2, <2>4 DEF Libraries, LibraryOf
  <1>5. ASSUME NEW k \in Recreators PROVE Current(k)'
    <2>1. CASE k = j
      BY <1>1, <1>2, <1>3, <2>1 DEF Libraries, Current
    <2>2. CASE k # j
      BY <1>2, <1>3, <2>2 DEF Libraries, Current
    <2> QED  BY <2>1, <2>2
  <1> QED  BY <1>4, <1>5 DEF Libraries

LEMMA ThrowLibraries ==
    ASSUME Inv, Libraries, NEW j \in Recreators, CallThrows(j)
    PROVE  Libraries'
  <1>1. /\ job \in [Jobs -> Row] /\ run \in [Jobs -> Handler] /\ j \in Jobs
        /\ j \notin BackupJobs \cup {Check} /\ \A k \in Recreators : k \in Jobs
    BY JobTyped, Kinds DEF Inv, Recreators
  <1>2. run[j].at # 0 /\ UNCHANGED <<row, cont, created>>
    BY DEF CallThrows
  <1>3. Goes(j, NoRun) /\ (Becomes(j, CancelledAttempt(j)) \/ Becomes(j, FailedAttempt(j)))
    <2>1. Goes(j, NoRun) /\ Becomes(j, IF Why(j) = "cancel" THEN CancelledAttempt(j) ELSE FailedAttempt(j))
      BY <1>1 DEF CallThrows, Why
    <2> QED  BY <2>1
  <1>4. CancelledAttempt(j).steps \in {0, job[j].steps} /\ FailedAttempt(j).steps \in {0, job[j].steps}
    BY <1>1, <1>2, CancelledRow, FailedRow DEF Inv, RunsInv, RunOf
  <1>5. /\ job'[j].steps \in {0, job[j].steps} /\ run'[j].at = 0
        /\ \A k \in Recreators : k # j => job'[k] = job[k] /\ run'[k] = run[k]
    BY <1>1, <1>3, <1>4, RowTypes DEF Becomes, Goes
  <1>6. ASSUME NEW e \in Extensions PROVE LibraryOf(e)'
    <2>1. NoFurther(e)
      <3>1. CASE e = j
        BY <1>2, <1>5, <3>1 DEF NoFurther, Recorded, Loaded
      <3>2. CASE e # j
        BY <1>2, <1>5, <3>2 DEF NoFurther, Recorded, Loaded, Recreators
      <3> QED  BY <3>1, <3>2
    <2> QED  BY <1>2, <2>1, LibraryKept DEF Libraries, ContainerKept
  <1>7. ASSUME NEW k \in Recreators PROVE Current(k)'
    <2>1. k = j \/ run'[k] = run[k]
      BY <1>5
    <2> QED  BY <1>2, <1>5, <2>1 DEF Libraries, Current
  <1> QED  BY <1>6, <1>7 DEF Libraries

LEMMA CrashLibraries ==
    ASSUME Inv, Libraries, Crash
    PROVE  Libraries'
  <1>1. /\ job' = [j \in Jobs |-> IF run[j].at = 0 THEN job[j] ELSE FailedAttempt(j)]
        /\ run' = [j \in Jobs |-> NoRun]
        /\ UNCHANGED row
    BY DEF Crash
  <1>2. \A k \in Recreators : run'[k].at = 0
    BY <1>1, RowTypes, Kinds DEF Recreators
  <1>3. ASSUME NEW e \in Extensions PROVE LibraryOf(e)'
    <2>1. e \in Jobs /\ run'[e].at = 0
      BY <1>2, Kinds DEF Recreators
    <2>2. job'[e].steps \in {0, job[e].steps}
      <3>1. CASE run[e].at = 0
        BY <1>1, <2>1, <3>1
      <3>2. CASE run[e].at # 0
        <4>1. job'[e] = FailedAttempt(e)
          BY <1>1, <2>1, <3>2
        <4> QED  BY <2>1, <4>1, FailedRow DEF Inv
      <3> QED  BY <3>1, <3>2
    <2>3. CASE UNCHANGED <<cont, created>>
      <3>1. NoFurther(e)
        BY <2>1, <2>2, <2>3 DEF NoFurther, Recorded, Loaded
      <3> QED  BY <1>1, <2>3, <3>1, LibraryKept DEF Libraries, ContainerKept
    <2>4. ASSUME NEW j \in Jobs, run[j].at # 0, Acts(j) PROVE LibraryOf(e)'
      <3>1. e \in created' => Loaded(e) /\ Recorded(e)
        BY <2>4, ActsCreated
      <3>2. (Recorded(e)' => Recorded(e)) /\ (Loaded(e)' => Loaded(e))
        BY <2>1, <2>2, <3>1 DEF Recorded, Loaded
      <3>3. Loaded(e)' /\ cont'.id # 0 => e \in cont'.preload
        BY <2>4, <3>2, ActsLibraries
      <3> QED  BY <1>1, <3>2, <3>3 DEF Libraries, LibraryOf
    <2> QED  BY <2>3, <2>4 DEF Crash
  <1> QED  BY <1>2, <1>3 DEF Libraries, Current

\* An extension that was created has its library in every container since, for any number of
\* extensions, backups, crashes and cancellations, as long as the handlers that recreate the
\* container do not overlap (extension-enable.ts: "a container recreated for any other reason
\* afterwards keeps the setting").  When they overlap, one that has read the row's libraries
\* before another recorded its own may be the one that creates the container.
THEOREM LibrariesStay == Spec /\ []RecreatesAlone => []LibrariesAreKept
  <1>1. Init => Libraries
    <2>1. SUFFICES ASSUME Init PROVE Libraries
      OBVIOUS
    <2>2. \A k \in Recreators : job[k].steps = 0 /\ run[k].at = 0
      BY <2>1, RowTypes, Kinds DEF Init, Recreators
    <2>3. created = {}
      BY <2>1 DEF Init
    <2> QED  BY <2>2, <2>3 DEF Libraries, LibraryOf, Recorded, Loaded, Current, Recreators
  <1>2. Inv /\ Libraries /\ RecreatesAlone /\ RecreatesAlone' /\ [Next]_vars => Libraries'
    <2> SUFFICES ASSUME Inv, Libraries, RecreatesAlone, RecreatesAlone', [Next]_vars PROVE Libraries'
      OBVIOUS
    <2>1. CASE Quiet
      BY <2>1, QuietLibraries
    <2>2. ASSUME NEW j \in Jobs, Claim(j) \/ CallReturns(j) \/ CallThrows(j) PROVE Libraries'
      <3>1. CASE j \notin Recreators
        BY <2>2, <3>1, OthersLibraries
      <3>2. CASE j \in Recreators
        BY <2>2, <3>2, ClaimLibraries, ReturnLibraries, ThrowLibraries
      <3> QED  BY <3>1, <3>2
    <2>3. CASE Crash
      BY <2>3, CrashLibraries
    <2>4. CASE UNCHANGED vars
      BY <2>4 DEF vars, Libraries, LibraryOf, Recorded, Loaded, Current
    <2> QED  BY <2>1, <2>2, <2>3, <2>4 DEF Next, Quiet
  <1>3. Inv /\ Libraries => LibrariesAreKept
    BY DEF Libraries, LibraryOf, Loaded, LibrariesAreKept, Inv, TypeOK
  <1> QED  BY <1>1, <1>2, <1>3, InvInit, InvNext, PTL DEF Spec
=============================================================================
