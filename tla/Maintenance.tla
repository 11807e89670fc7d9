---------------------------- MODULE Maintenance ----------------------------
(***************************************************************************)
(* The jobs that work on a running project: backup.run and its schedule    *)
(* (backups/service.ts), backup.migrate to object storage, extension.enable*)
(* with its restart (projects/container.ts), and restore.verify; beside    *)
(* them the operator, who configures backups and object storage, starts,   *)
(* stops and cancels, the disk monitor and the reconciler.                 *)
(*                                                                         *)
(* One step is an awaited call and the code up to the next await.  Jobs    *)
(* follow the life cycle that JobQueue implements.  Backup jobs that are   *)
(* settled are forgotten, so that a slot stands for any number of them.    *)
(***************************************************************************)
EXTENDS Integers, Sequences, FiniteSets

CONSTANTS
    BackupJobs,   \* slots for backup.run jobs that are queued or running
    Migration,    \* the backup.migrate job
    Extensions,   \* extension.enable jobs, one for each extension that preloads a library
    Check,        \* the restore.verify job
    Concurrency,  \* jobs the worker runs at a time
    MaxAttempts,  \* of each job
    MaxRequests,  \* bound: requests of the operator and samples of the disk
    MaxFaults     \* bound: crashes, shutdowns and calls that fail for reasons of their own

Jobs == BackupJobs \cup {Migration, Check} \cup Extensions

ASSUME JobsAssumption == /\ IsFiniteSet(BackupJobs) /\ IsFiniteSet(Extensions)
                         /\ Extensions \cap BackupJobs = {}
                         /\ {Migration, Check} \cap (BackupJobs \cup Extensions) = {}
                         /\ Migration # Check
ASSUME AttemptsAssumption == MaxAttempts \in [Jobs -> Nat \ {0}]
ASSUME BoundsAssumption == {Concurrency, MaxRequests, MaxFaults} \subseteq Nat

VARIABLES
    row,      \* the project's row: state, containerId, preloadLibraries
    cfg,      \* its backup configuration
    repos,    \* what its two possible repositories hold
    cont,     \* the container with its name
    created,  \* the extensions created in the database
    job,      \* its jobs
    run,      \* the handlers that are running
    scratch,  \* what a verification has on the host
    host,     \* object storage settings, disk headroom, the process
    used      \* how much of each bound is used up

vars == <<row, cfg, repos, cont, created, job, run, scratch, host, used>>

NoJob == [state |-> "none", attempts |-> 0, steps |-> 0, cancel |-> FALSE]
NoRun == [at |-> 0, cid |-> 0, preload |-> {}, failed |-> "no"]
NoContainer == [id |-> 0, up |-> FALSE, repo |-> "local", preload |-> {}]
Ids == 1..(3 + Cardinality(Jobs))

TypeOK ==
    /\ row \in [state : {"running", "stopped", "failed"}, cid : Ids, preload : SUBSET Extensions]
    /\ cfg \in [enabled : BOOLEAN, repo : {"local", "s3"}, awaitingFirstBackup : BOOLEAN]
    /\ repos \in [{"local", "s3"} -> {"empty", "stanza", "backup"}]
    /\ cont \in [id : {0} \cup Ids, up : BOOLEAN, repo : {"local", "s3"}, preload : SUBSET Extensions]
    /\ created \subseteq Extensions
    /\ job \in [Jobs -> [state : {"none", "queued", "running", "succeeded", "failed", "cancelled"},
                         attempts : Nat, steps : 0..5, cancel : BOOLEAN]]
    /\ run \in [Jobs -> [at : 0..7, cid : {0} \cup Ids, preload : SUBSET Extensions,
                         failed : {"no", "error", "cancel"}]]
    /\ scratch \subseteq {"volume", "container"}
    /\ host \in [storage : BOOLEAN, headroom : BOOLEAN, process : {"up", "stopping"}]
    /\ used \in [requests : 0..MaxRequests, faults : 0..MaxFaults]

\* A project just provisioned: a stanza, and its first backup queued.
Init ==
    /\ row = [state |-> "running", cid |-> 1, preload |-> {}]
    /\ cfg = [enabled |-> TRUE, repo |-> "local", awaitingFirstBackup |-> TRUE]
    /\ repos = [r \in {"local", "s3"} |-> IF r = "local" THEN "stanza" ELSE "empty"]
    /\ cont = [id |-> 1, up |-> TRUE, repo |-> "local", preload |-> {}]
    /\ created = {}
    /\ job = [j \in Jobs |-> NoJob]
    /\ run = [j \in Jobs |-> NoRun]
    /\ scratch = {}
    /\ host = [storage |-> FALSE, headroom |-> TRUE, process |-> "up"]
    /\ used = [requests |-> 0, faults |-> 0]

-----------------------------------------------------------------------------
(* The schedule. *)

Up == host.process = "up"

\* A request reaches the process.
Request == Up /\ used.requests < MaxRequests /\ used' = [used EXCEPT !.requests = @ + 1]
Pending == {j \in BackupJobs : job[j].state \in {"queued", "running"}}
Queued == [NoJob EXCEPT !.state = "queued"]

Settled(j, outcome) == IF j \in BackupJobs THEN NoJob ELSE [NoJob EXCEPT !.state = outcome]

\* scheduleRun(): one more backup.run.  Its run time is not modelled: it may be claimed any time.
\* Bound: none when every slot is taken.
Scheduled(jobs) == LET free == {j \in BackupJobs : jobs[j].state = "none"}
                   IN IF free = {} THEN jobs ELSE [jobs EXCEPT ![CHOOSE j \in free : TRUE] = Queued]

\* Mutant: a run that is under way does not count.
NoneQueued == row.state = "running" /\ cfg.enabled
              /\ \A j \in BackupJobs : job[j].state # "queued"

\* Mutant: only a project without a backup yet.
NeverBackedUp == row.state = "running" /\ cfg.enabled /\ Pending = {} /\ cfg.awaitingFirstBackup

\* A project for which ensureScheduled() queues a run.
Unscheduled == row.state = "running" /\ cfg.enabled /\ Pending = {}

EnsureScheduled ==
    /\ Up /\ Unscheduled
    /\ job' = Scheduled(job)
    /\ UNCHANGED <<row, cfg, repos, cont, created, run, scratch, host, used>>

\* POST /backups/run.  Bound: beside at most one run that is pending.
RunNow ==
    /\ Request /\ Cardinality(Pending) <= 1
    /\ job' = Scheduled(job)
    /\ UNCHANGED <<row, cfg, repos, cont, created, run, scratch, host>>

\* PATCH /backups; enabling runs the sweep at once.
Configure(enabled) ==
    /\ Request /\ enabled # cfg.enabled
    /\ cfg' = [cfg EXCEPT !.enabled = enabled]
    /\ job' = IF enabled /\ row.state = "running" /\ Pending = {} THEN Scheduled(job) ELSE job
    /\ UNCHANGED <<row, repos, cont, created, run, scratch, host>>

\* POST /backups/migrate, refused once the row says object storage.
Migrate ==
    /\ Request /\ host.storage /\ cfg.repo # "s3" /\ job[Migration].state = "none"
    /\ job' = [job EXCEPT ![Migration] = Queued]
    /\ UNCHANGED <<row, cfg, repos, cont, created, run, scratch, host>>

\* enable() of an extension that needs a restart.
Enable(e) ==
    /\ Request /\ row.state = "running" /\ cont.up /\ job[e].state = "none"
    /\ job' = [job EXCEPT ![e] = Queued]
    /\ UNCHANGED <<row, cfg, repos, cont, created, run, scratch, host>>

\* disable(): the library stays preloaded.
Disable(e) ==
    /\ Request /\ row.state = "running" /\ cont.up /\ e \in created
    /\ created' = created \ {e}
    /\ UNCHANGED <<row, cfg, repos, cont, job, run, scratch, host>>

\* scheduleDueRestoreChecks(), or a request: one check at a time.
RequestCheck ==
    /\ Request /\ row.state = "running" /\ cfg.enabled /\ ~cfg.awaitingFirstBackup
    /\ job[Check].state \in {"none", "succeeded"}
    /\ job' = [job EXCEPT ![Check] = Queued]
    /\ UNCHANGED <<row, cfg, repos, cont, created, run, scratch, host>>

\* The operator saves or clears the object storage settings.
SetStorage(on) ==
    /\ Request /\ on # host.storage
    /\ host' = [host EXCEPT !.storage = on]
    /\ UNCHANGED <<row, cfg, repos, cont, created, job, run, scratch>>

\* A sample of the disk monitor finds room, or none.
Sample(room) ==
    /\ Request /\ room # host.headroom
    /\ host' = [host EXCEPT !.headroom = room]
    /\ UNCHANGED <<row, cfg, repos, cont, created, job, run, scratch>>

SetRunning(up) ==
    /\ Request /\ cont.id = row.cid /\ cont.up # up
    /\ cont' = [cont EXCEPT !.up = up]
    /\ row' = [row EXCEPT !.state = IF up THEN "running" ELSE "stopped"]
    /\ UNCHANGED <<cfg, repos, created, job, run, scratch, host>>

Reconcile ==
    /\ Up /\ row.state # "failed" /\ cont.id # row.cid
    /\ row' = [row EXCEPT !.state = "failed"]
    /\ UNCHANGED <<cfg, repos, cont, created, job, run, scratch, host, used>>

RequestCancel(j) ==
    /\ Request /\ job[j].state \in {"queued", "running"}
    /\ job' = [job EXCEPT ![j] = IF @.state = "running" THEN [@ EXCEPT !.cancel = TRUE]
                                 ELSE Settled(j, "cancelled")]
    /\ UNCHANGED <<row, cfg, repos, cont, created, run, scratch, host>>

-----------------------------------------------------------------------------
(* The handlers. *)

\* Their awaited calls, with recreateProjectContainer() in two of them.  The last call of backup.run
\* is made only after a failure.
Recreate == <<"stop", "remove", "create", "start">>
BackupPath == <<"backup", "expire", "check">>
MigrationPath == Recreate \o <<"stanza", "check", "first">>
ExtensionPath == Recreate \o <<"wait", "extension">>
CheckPath == <<"volume", "restore", "ask", "clean">>

Path(j) == CASE j \in BackupJobs -> BackupPath
             [] j = Migration -> MigrationPath
             [] j = Check -> CheckPath
             [] OTHER -> ExtensionPath

Call(j) == Path(j)[run[j].at]

\* The steps that are checkpointed once a call has returned.
StepsAfter(j) == CASE Call(j) = "start" -> 2
                   [] Call(j) \in {"stanza", "wait"} -> 3
                   [] Call(j) \in {"check", "extension"} -> 4
                   [] OTHER -> job[j].steps

\* The call an attempt resumes at.
Resume(steps) == IF steps <= 1 THEN 1 ELSE steps + 3

Aborted(j) == host.process = "stopping" \/ job[j].cancel

\* throwIfCancelled(), or a wait that watches the signal, precedes these calls.
Cancelled(j) == /\ Aborted(j) /\ run[j].failed = "no"
                /\ \/ run[j].at = 1
                   \/ Call(j) \in {"stanza", "check", "first", "wait", "extension", "ask"}

FailedAttempt(j) == IF job[j].attempts >= MaxAttempts[j] THEN Settled(j, "failed")
                    ELSE [job[j] EXCEPT !.state = "queued"]

CancelledAttempt(j) == IF job[j].cancel /\ Up THEN Settled(j, "cancelled")
                       ELSE [job[j] EXCEPT !.state = "queued", !.attempts = @ - 1]

\* Mutant: the settings of the installation, whatever the row says.
GlobalRepo == IF host.storage THEN "s3" ELSE "local"

\* repoSpec(): a row without a repository of its own takes the one for new projects.
RepoSpec == IF cfg.repo = "s3" \/ host.storage THEN "s3" ELSE "local"

Fresh == CHOOSE i \in Ids : i # cont.id /\ i # row.cid /\ \A j \in Jobs : i # run[j].cid

Reaches(j) == cont.id = run[j].cid /\ cont.up

Succeeds(j) ==
    CASE Call(j) \in {"backup", "first", "check"} -> Reaches(j) /\ repos[cont.repo] # "empty"
      [] Call(j) \in {"expire", "stanza", "wait"} -> Reaches(j)
      [] Call(j) \in {"stop", "start"} -> cont.id = run[j].cid
      [] Call(j) = "create" -> cont.id = 0
      [] Call(j) = "extension" -> cont.up
      [] Call(j) = "restore" -> repos["local"] = "backup"
      [] Call(j) = "ask" -> "container" \notin scratch
      [] OTHER -> TRUE

\* The container after a call.
ContAfter(j) ==
    CASE Call(j) = "stop" -> [cont EXCEPT !.up = FALSE]
      [] Call(j) = "remove" /\ cont.id = run[j].cid -> NoContainer
      [] Call(j) = "create" -> [id |-> Fresh, up |-> FALSE, repo |-> RepoSpec, preload |-> run[j].preload]
      [] Call(j) = "start" -> [cont EXCEPT !.up = TRUE]
      [] OTHER -> cont

\* The repositories: pgBackRest works on the one the container was created for.
ReposAfter(j) ==
    CASE Call(j) \in {"backup", "first"} -> [repos EXCEPT ![cont.repo] = "backup"]
      [] Call(j) = "stanza" /\ repos[cont.repo] = "empty" -> [repos EXCEPT ![cont.repo] = "stanza"]
      [] OTHER -> repos

\* What a verification has set up; it mounts the project's local repository, whatever its type.
ScratchAfter(j) ==
    CASE Call(j) = "volume" -> scratch \cup {"volume"}
      [] Call(j) = "ask" -> scratch \cup {"container"}
      [] Call(j) = "clean" -> {}
      [] OTHER -> scratch

Acts(j) ==
    /\ cont' = ContAfter(j)
    /\ repos' = ReposAfter(j)
    /\ created' = IF Call(j) = "extension" THEN created \cup {j} ELSE created
    /\ scratch' = ScratchAfter(j)

Goes(j, r) == run' = [run EXCEPT ![j] = r]
Becomes(j, rec) == job' = [job EXCEPT ![j] = rec]

\* backupBlockedReason(): the installation's own setting says whether the repository is on the
\* disk, whatever the project's row says.
BackupBlocked == ~host.headroom

\* backup.run starts: it needs a running project, backups that are enabled, and room on the disk.
BeginsBackup(j, jb) ==
    \/ /\ row.state # "running"
       /\ job' = [job EXCEPT ![j] = IF jb.attempts >= MaxAttempts[j] THEN NoJob
                                    ELSE [jb EXCEPT !.state = "queued"]]
       /\ UNCHANGED run
    \/ /\ row.state = "running" /\ ~cfg.enabled
       /\ Becomes(j, NoJob) /\ UNCHANGED run
    \/ /\ row.state = "running" /\ cfg.enabled /\ BackupBlocked
       /\ job' = Scheduled([job EXCEPT ![j] = NoJob]) /\ UNCHANGED run
    \/ /\ row.state = "running" /\ cfg.enabled /\ ~BackupBlocked
       /\ Becomes(j, jb) /\ Goes(j, [NoRun EXCEPT !.at = 1, !.cid = row.cid])

\* backup.migrate starts by pointing the row at the bucket.
BeginsMigration(jb) ==
    IF host.storage
    THEN /\ Becomes(Migration, [jb EXCEPT !.steps = IF @ = 0 THEN 1 ELSE @])
         /\ cfg' = IF jb.steps = 0 THEN [cfg EXCEPT !.repo = "s3", !.awaitingFirstBackup = TRUE] ELSE cfg
         /\ Goes(Migration, [at |-> Resume(jb.steps), cid |-> row.cid, preload |-> row.preload,
                             failed |-> "no"])
    ELSE Becomes(Migration, Settled(Migration, "failed")) /\ UNCHANGED <<cfg, run>>

\* Mutant: the library is given to the container and not recorded.
PreloadUnrecorded(j, jb) == row

\* extension.enable records the library on the row first.  evict() waits for no longer than the
\* old container takes to stop, so that the container id read after it is the one read here.
PreloadRecorded(j, jb) == IF jb.steps = 0 THEN [row EXCEPT !.preload = @ \cup {j}] ELSE row

BeginsExtension(j, jb) ==
    /\ Becomes(j, [jb EXCEPT !.steps = IF @ = 0 THEN 1 ELSE @])
    /\ row' = PreloadRecorded(j, jb)
    /\ Goes(j, [at |-> Resume(jb.steps), cid |-> row.cid, preload |-> row.preload \cup {j}, failed |-> "no"])

\* restore.verify has nothing to do for a project without a backup.
BeginsCheck(jb) ==
    IF cfg.awaitingFirstBackup
    THEN Becomes(Check, Settled(Check, "succeeded")) /\ UNCHANGED run
    ELSE Becomes(Check, jb) /\ Goes(Check, [NoRun EXCEPT !.at = 1])

\* An attempt starts; the code up to the first await.
Begins(j, jb) ==
    \/ j \in BackupJobs /\ BeginsBackup(j, jb) /\ UNCHANGED <<row, cfg>>
    \/ j = Migration /\ BeginsMigration(jb) /\ UNCHANGED row
    \/ j \in Extensions /\ BeginsExtension(j, jb) /\ UNCHANGED cfg
    \/ j = Check /\ BeginsCheck(jb) /\ UNCHANGED <<row, cfg>>

Claim(j) ==
    /\ Up /\ job[j].state = "queued"
    /\ Cardinality({k \in Jobs : run[k].at # 0}) < Concurrency
    /\ Begins(j, [job[j] EXCEPT !.state = "running", !.attempts = @ + 1])
    /\ UNCHANGED <<repos, cont, created, scratch, host, used>>

\* backup.run queues its successor after a failed last attempt.
Rescheduled(j, jobs) == IF job[j].attempts >= MaxAttempts[j] THEN Scheduled(jobs) ELSE jobs

\* The last call of a handler has returned.
Finishes(j) ==
    /\ Goes(j, NoRun)
    /\ CASE j \in BackupJobs /\ run[j].failed = "no" ->
                job' = Scheduled([job EXCEPT ![j] = NoJob])
         [] j \in BackupJobs /\ run[j].failed # "no" ->
                job' = Rescheduled(j, [job EXCEPT ![j] = IF run[j].failed = "error" THEN FailedAttempt(j)
                                                         ELSE CancelledAttempt(j)])
         [] j = Check /\ run[j].failed = "error" -> Becomes(j, FailedAttempt(j))
         [] j = Check /\ run[j].failed = "cancel" -> Becomes(j, CancelledAttempt(j))
         [] OTHER -> Becomes(j, Settled(j, "succeeded"))
    /\ cfg' = IF j = Migration \/ (j \in BackupJobs /\ run[j].failed = "no")
              THEN [cfg EXCEPT !.awaitingFirstBackup = FALSE] ELSE cfg

IsLast(j) == \/ run[j].at = Len(Path(j))
             \/ Call(j) = "expire" /\ run[j].failed = "no"

CallReturns(j) ==
    /\ run[j].at # 0 /\ ~Cancelled(j) /\ Succeeds(j)
    /\ Acts(j)
    /\ row' = IF Call(j) = "start" THEN [row EXCEPT !.cid = run[j].cid] ELSE row
    /\ IF IsLast(j) THEN Finishes(j)
       ELSE /\ Becomes(j, [job[j] EXCEPT !.steps = StepsAfter(j)])
            /\ Goes(j, [run[j] EXCEPT !.at = @ + 1, !.cid = IF Call(j) = "create" THEN Fresh ELSE @])
            /\ UNCHANGED cfg
    /\ UNCHANGED <<host, used>>

\* A call fails or the handler notices the cancellation.  backup.run then checks the archiving and
\* restore.verify cleans up before they throw; the check's own failure is swallowed.
CallThrows(j) ==
    /\ run[j].at # 0
    /\ \/ Cancelled(j) /\ UNCHANGED used
       \/ ~Succeeds(j) /\ ~Cancelled(j) /\ UNCHANGED used
       \/ /\ Succeeds(j) /\ ~Cancelled(j) /\ used.faults < MaxFaults
          /\ used' = [used EXCEPT !.faults = @ + 1]
    /\ LET failed == IF run[j].failed # "no" THEN run[j].failed
                     ELSE IF Cancelled(j) THEN "cancel" ELSE "error"
       IN IF j \in BackupJobs \cup {Check}
          THEN IF run[j].at = Len(Path(j)) THEN Finishes(j)
               ELSE /\ Goes(j, [run[j] EXCEPT !.at = Len(Path(j)), !.failed = failed])
                    /\ UNCHANGED <<job, cfg>>
          ELSE /\ Goes(j, NoRun)
               /\ Becomes(j, IF failed = "cancel" THEN CancelledAttempt(j) ELSE FailedAttempt(j))
               /\ UNCHANGED cfg
    /\ UNCHANGED <<row, repos, cont, created, scratch, host>>

-----------------------------------------------------------------------------
(* The process. *)

\* It dies, with the calls under way done or not; leases expire and exhausted jobs are swept.
Crash ==
    /\ used.faults < MaxFaults
    /\ \/ UNCHANGED <<cont, repos, created, scratch>>
       \/ \E j \in Jobs : run[j].at # 0 /\ Succeeds(j) /\ Acts(j)
    /\ used' = [used EXCEPT !.faults = @ + 1]
    /\ job' = [j \in Jobs |-> IF run[j].at = 0 THEN job[j] ELSE FailedAttempt(j)]
    /\ run' = [j \in Jobs |-> NoRun]
    /\ host' = [host EXCEPT !.process = "up"]
    /\ UNCHANGED <<row, cfg>>

\* A shutdown aborts the handlers; a new process starts when they have ended.
Shutdown ==
    /\ Up /\ used.faults < MaxFaults
    /\ host' = [host EXCEPT !.process = "stopping"]
    /\ used' = [used EXCEPT !.faults = @ + 1]
    /\ UNCHANGED <<row, cfg, repos, cont, created, job, run, scratch>>

Restart ==
    /\ host.process = "stopping" /\ \A j \in Jobs : run[j].at = 0
    /\ host' = [host EXCEPT !.process = "up"]
    /\ UNCHANGED <<row, cfg, repos, cont, created, job, run, scratch, used>>

Next ==
    \/ EnsureScheduled \/ RunNow \/ Migrate \/ RequestCheck \/ Reconcile
    \/ \E on \in BOOLEAN : Configure(on) \/ SetStorage(on) \/ Sample(on) \/ SetRunning(on)
    \/ \E e \in Extensions : Enable(e) \/ Disable(e)
    \/ \E j \in Jobs : RequestCancel(j) \/ Claim(j) \/ CallReturns(j) \/ CallThrows(j)
    \/ Crash \/ Shutdown \/ Restart

Spec == Init /\ [][Next]_vars

\* The sweep's timer fires, the worker claims, calls return or throw, the process is restarted.
FairSpec == /\ Spec /\ WF_vars(EnsureScheduled) /\ WF_vars(Restart)
            /\ \A j \in Jobs : WF_vars(Claim(j)) /\ WF_vars(CallReturns(j) \/ CallThrows(j))

-----------------------------------------------------------------------------
(* Properties. *)

\* The chain of backups never forks by itself, through retries, deferrals, last attempts, crashes and
\* the sweep: while one is pending, only a request by hand, or a shutdown that releases the run it
\* has queued a successor for, adds another (backup-run.ts: each run queues its successor).
OneChain ==
    [][Cardinality(Pending') > Cardinality(Pending) /\ Pending # {} =>
           used'.requests > used.requests \/ ~Up]_vars

\* A migration that succeeded left a container that archives to the bucket and a backup in it, also
\* when it was interrupted and resumed (backup-migrate.ts).
MigrationDelivers ==
    job[Migration].state = "succeeded" =>
        cfg.repo = "s3" /\ repos["s3"] = "backup" /\ (cont.id # 0 => cont.repo = "s3")

\* An extension that was created has its library loaded in every container since
\* (extension-enable.ts: "a container recreated for any other reason afterwards keeps the setting").
LibrariesAreKept == cont.id # 0 => created \subseteq cont.preload

\* Backups never end for good: while the project runs with backups enabled a run is pending again
\* and again, whatever failed, was cancelled or was interrupted (ensureScheduled()).
BackupsGoOn == []<>(Pending # {} \/ row.state # "running" \/ ~cfg.enabled)
============================================================================
