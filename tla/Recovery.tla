------------------------------ MODULE Recovery ------------------------------
(***************************************************************************)
(* A project and the copy that is made of it: restore.run and branch.run   *)
(* (backups/restore.ts, branches/service.ts and their handlers), promote(),*)
(* expiry and deletion, on the two data stores of storage/datastore.ts.    *)
(*                                                                         *)
(* Promoting swaps ref and port of the two projects; their containers and  *)
(* volumes keep the names they were created with.  Here an object is named *)
(* by the project it was created for, and a ref (with its port) by the     *)
(* project that had it first, so that "derived from the ref" and "stored   *)
(* on the row" are two different names once refs are swapped.              *)
(*                                                                         *)
(* One step is an awaited call and the code up to the next await.          *)
(***************************************************************************)
EXTENDS Integers, Sequences, FiniteSets

CONSTANTS
    Source, Restored,  \* the two projects
    Copying,           \* the restore.run or branch.run job; a project stands for its deletion
    MaxAttempts,       \* of each job
    MaxFaults,         \* bound: crashes, shutdowns and calls that fail for reasons of their own
    Promotes           \* may the copy be promoted?

Projects == {Source, Restored}
Jobs == Projects \cup {Copying}
Other(p) == IF p = Source THEN Restored ELSE Source

ASSUME ProjectsAssumption == Cardinality(Jobs) = 3
ASSUME AttemptsAssumption == MaxAttempts \in [Jobs -> Nat \ {0}]
ASSUME BoundsAssumption == MaxFaults \in Nat /\ Promotes \in BOOLEAN

VARIABLES
    store,    \* the data store: plain volumes or copy-on-write
    row,      \* the projects' rows
    data,     \* their data directories
    repo,     \* their backup volumes
    net,      \* their networks
    cont,     \* their containers
    job, run, \* their jobs, and the handlers that are running
    promo,    \* the call that promote() is waiting for, 0 when it is not running
    process,  \* the control plane: up or stopping
    faults    \* how many there were

vars == <<store, row, data, repo, net, cont, job, run, promo, process, faults>>

\* Ten are in use at most, so that one is always fresh.
Ids == 1..11
NoContainer == [id |-> 0, up |-> FALSE, port |-> Source, src |-> FALSE]
NoJob == [state |-> "none", attempts |-> 0, steps |-> 0, cancel |-> FALSE]
NoRun == [at |-> 0, cid |-> 0, old |-> 0, ref |-> Source, again |-> FALSE]

TypeOK ==
    /\ store \in {"volume", "cow"}
    /\ row \in [Projects -> [state : {"absent", "creating", "running", "stopped", "failed", "deleting"},
                             ref : Projects, cid : {0} \cup Ids, method : {"latest", "late", "cow"},
                             sourceRepo : BOOLEAN, expires : BOOLEAN, deleted : BOOLEAN]]
    /\ data \in [Projects -> {"none", "empty", "latest", "late", "database"}]
    /\ repo \in [Projects -> {"none", "empty", "stanza", "backup"}]
    /\ net \subseteq Projects
    /\ cont \in [Projects -> [id : {0} \cup Ids, up : BOOLEAN, port : Projects, src : BOOLEAN]]
    /\ job \in [Jobs -> [state : {"none", "queued", "running", "succeeded", "failed", "cancelled"},
                         attempts : Nat, steps : 0..6, cancel : BOOLEAN]]
    /\ run \in [Jobs -> [at : 0..17, cid : {0} \cup Ids, old : {0} \cup Ids, ref : Projects, again : BOOLEAN]]
    /\ promo \in 0..12 /\ process \in {"up", "stopping"} /\ faults \in 0..MaxFaults

\* A project that runs and has a backup.
Init ==
    /\ store \in {"volume", "cow"}
    /\ row = [p \in Projects |->
                 [state |-> IF p = Source THEN "running" ELSE "absent", ref |-> p,
                  cid |-> IF p = Source THEN 1 ELSE 0, method |-> "latest",
                  sourceRepo |-> FALSE, expires |-> FALSE, deleted |-> FALSE]]
    /\ data = [p \in Projects |-> IF p = Source THEN "database" ELSE "none"]
    /\ repo = [p \in Projects |-> IF p = Source THEN "backup" ELSE "none"]
    /\ net = {Source}
    /\ cont = [p \in Projects |-> IF p = Source THEN [NoContainer EXCEPT !.id = 1, !.up = TRUE]
                                  ELSE NoContainer]
    /\ job = [j \in Jobs |-> NoJob] /\ run = [j \in Jobs |-> NoRun]
    /\ promo = 0 /\ process = "up" /\ faults = 0

-----------------------------------------------------------------------------
(* The awaited calls, and the step that is checkpointed after each.        *)

RestoreCalls == <<"data", "repo", "net", "chown", "files", "list", "create", "start", "await",
                  "own", "backup", "stop", "remove", "create", "start">>

RestoreSteps == <<0, 0, 1, 0, 2, 0, 0, 3, 4, 0, 5, 0, 0, 0, 6>>

BranchCalls == <<"checkpoint", "snapshot", "repo", "net", "list", "create", "start", "await", "own", "backup">>
BranchSteps == <<1, 0, 0, 2, 0, 0, 3, 4, 0, 5>>

\* Mutant: the backup volume is forgotten.
DeleteCallsKeepingBackups == <<"stop", "remove", "rmdata", "rmnet", "rmnet">>

DeleteCalls == <<"stop", "remove", "rmdata", "rmrepo", "rmnet">>

DeleteSteps == <<1, 2, 0, 3, 4>>

\* Where restore.run stops the container whose target cannot be reached, starts one, waits,
\* and detaches from the source's repository.
Fallback == 16
StartAt == 8
AwaitAt == 9
DetachAt == 12

Branching == row[Restored].method = "cow"
Calls(j) == IF j # Copying THEN DeleteCalls
            ELSE IF Branching THEN BranchCalls ELSE RestoreCalls \o <<"stop", "remove">>
StepAfter(j, i) == IF j # Copying THEN DeleteSteps[i]
                   ELSE IF Branching THEN BranchSteps[i] ELSE RestoreSteps[i]
PathEnd(j) == IF j = Copying /\ ~Branching THEN DetachAt + 3 ELSE Len(Calls(j))
Call(j) == Calls(j)[run[j].at]

\* The project a job works on.
Of(j) == IF j = Copying THEN Restored ELSE j

\* The call an attempt resumes at.
Entry(j, done) == IF done = 0 THEN 1
                  ELSE 1 + CHOOSE i \in 1..PathEnd(j) : StepAfter(j, i) = done

\* promote() releases both containers and recreates both.
PromoteCalls == <<[p |-> Restored, call |-> "stop"], [p |-> Restored, call |-> "remove"],
                  [p |-> Source, call |-> "stop"], [p |-> Source, call |-> "remove"],
                  [p |-> Restored, call |-> "stop"], [p |-> Restored, call |-> "remove"],
                  [p |-> Restored, call |-> "create"], [p |-> Restored, call |-> "start"],
                  [p |-> Source, call |-> "stop"], [p |-> Source, call |-> "remove"],
                  [p |-> Source, call |-> "create"], [p |-> Source, call |-> "start"]>>

-----------------------------------------------------------------------------
(* Docker and the data store. *)

Fresh == CHOOSE i \in Ids : \A p \in Projects, j \in Jobs :
             i \notin {cont[p].id, row[p].cid, run[j].cid, run[j].old}

\* The data store makes a directory of a name, or a snapshot of one.  Creating a plain volume that
\* exists is no error, a subvolume that exists is.
CanCreate(ref) == store = "volume" \/ data[ref] = "none"
CanSnapshot(ref) == data[row[Source].ref] # "none" /\ data[ref] = "none"

\* It removes one: Docker refuses a volume that a container mounts, the copy-on-write store does
\* not look.
CanRemove(ref) == store = "cow" \/ cont[ref].id = 0

\* awaitPromotion(): the server replays what was restored from the source's repository.
Replays(p) == data[p] = "database" \/ (data[p] = "latest" /\ repo[Source] = "backup")

\* When a call for project p succeeds.  Stopping a container that is gone is an error (404), as is
\* starting one that runs (304).
Able(p, call, cid, ref) ==
    CASE call = "stop" -> cont[p].id = cid
      [] call = "create" -> cont[p].id = 0
      [] call = "start" -> /\ cont[p].id = cid /\ ~cont[p].up /\ p \in net
                           /\ ~(cont[Other(p)].up /\ cont[Other(p)].port = cont[p].port)
      [] call = "data" -> CanCreate(ref)
      [] call = "snapshot" -> CanSnapshot(ref)
      [] call = "files" -> repo[Source] = "backup"
      [] call = "await" -> cont[p].id = cid /\ cont[p].up /\ Replays(p)
      [] call = "own" -> cont[p].id = cid /\ cont[p].up
      [] call = "backup" -> cont[p].id = cid /\ cont[p].up /\ repo[p] # "empty"
      [] call = "rmdata" -> CanRemove(ref)
      [] call = "rmrepo" -> cont[p].id = 0 /\ ~(p = Source /\ cont[Restored].src)
      [] call = "rmnet" -> ~cont[p].up
      [] OTHER -> TRUE

Filled(d) == IF d = "none" THEN "empty" ELSE d

\* The containers after a call.
ContAfter(p, call, cid, src) ==
    CASE call = "stop" -> [cont EXCEPT ![p].up = @ /\ cont[p].id # cid]
      [] call = "remove" /\ cont[p].id = cid -> [cont EXCEPT ![p] = NoContainer]
      [] call = "create" -> [cont EXCEPT ![p] = [id |-> Fresh, up |-> FALSE, port |-> row[p].ref, src |-> src]]
      [] call = "start" -> [cont EXCEPT ![p].up = TRUE]
      [] OTHER -> cont

\* restoreFiles(): to the target time, or to the end of the WAL.
RestoredFiles(p) == IF row[p].method = "late" /\ ~run[Copying].again THEN "late" ELSE "latest"

\* The data directories.  A container that mounts a volume that does not exist creates it.
DataAfter(p, call, ref) ==
    CASE call = "data" -> [data EXCEPT ![ref] = Filled(@)]
      [] call = "snapshot" -> [data EXCEPT ![ref] = data[row[Source].ref]]
      [] call = "files" -> [data EXCEPT ![ref] = RestoredFiles(p)]
      [] call = "await" -> [data EXCEPT ![p] = "database"]
      [] call = "create" -> [data EXCEPT ![p] = Filled(@)]
      [] call = "rmdata" -> [data EXCEPT ![ref] = "none"]
      [] OTHER -> data

\* The backup volumes, and those a container mounts.
RepoAfter(p, call, ref, src) ==
    CASE call = "repo" -> [repo EXCEPT ![ref] = Filled(@)]
      [] call = "own" -> [repo EXCEPT ![p] = IF @ = "empty" THEN "stanza" ELSE @]
      [] call = "backup" -> [repo EXCEPT ![p] = "backup"]
      [] call = "create" -> [q \in Projects |-> IF q = p \/ src THEN Filled(repo[q]) ELSE repo[q]]
      [] call = "rmrepo" -> [repo EXCEPT ![p] = "none"]
      [] OTHER -> repo

NetAfter(p, call, ref) ==
    CASE call = "net" -> net \cup {ref}
      [] call = "rmnet" -> net \ {p}
      [] OTHER -> net

Acts(p, call, cid, ref, src) ==
    /\ cont' = ContAfter(p, call, cid, src)
    /\ data' = DataAfter(p, call, ref)
    /\ repo' = RepoAfter(p, call, ref, src)
    /\ net' = NetAfter(p, call, ref)

Untouched == UNCHANGED <<cont, data, repo, net>>
Fault == faults < MaxFaults /\ faults' = faults + 1

-----------------------------------------------------------------------------
(* Requests. *)

Up == process = "up"
Queued == [NoJob EXCEPT !.state = "queued"]
Unsettled(j) == job[j].state \in {"queued", "running"}

\* The copy's row and its job.
Copies(method, expires) ==
    /\ row' = [row EXCEPT ![Restored] = [@ EXCEPT !.state = "creating", !.method = method, !.expires = expires]]
    /\ job' = [job EXCEPT ![Copying] = Queued]
    /\ UNCHANGED <<store, data, repo, net, cont, run, promo, process, faults>>

Copyable == Up /\ row[Restored].state = "absent" /\ ~row[Source].deleted

\* assertWithinWindow(): there is a backup to start from.
Restorable == repo[Source] = "backup"

\* start() of a restore, which is also how a branch is made of a moment in the past or without
\* copy-on-write.  The window is looked at when a target time is asked for.
StartRestore(method, expires) ==
    /\ Copyable /\ (method = "late" => Restorable)
    /\ Copies(method, expires)

\* planFor(): a branch of the present is a snapshot where the data store can make one.
Snapshots == store = "cow"

\* create() of a branch from a snapshot.
CreateBranch(expires) ==
    /\ Copyable /\ Snapshots /\ row[Source].state = "running"
    /\ Copies("cow", expires)

\* Deleting, by request or because expireDue() found the copy's time to be up.  Bound: a project
\* is deleted when no other job works on it, and once.
Delete(p) ==
    /\ Up /\ row[p].state \notin {"absent", "deleting"} /\ ~row[p].deleted
    /\ job[p].state = "none" /\ (p = Restored => ~Unsettled(Copying))
    /\ row' = [row EXCEPT ![p].state = "deleting"]
    /\ job' = [job EXCEPT ![p] = Queued]
    /\ UNCHANGED <<store, data, repo, net, cont, run, promo, process, faults>>

Expired == row[Restored].expires /\ ~row[Restored].deleted
           /\ row[Restored].state \notin {"creating", "deleting"}

ExpireDue == Expired /\ Delete(Restored)

SetExpiry ==
    /\ Up /\ row[Restored].state # "absent" /\ ~row[Restored].deleted /\ row[Restored].expires
    /\ row' = [row EXCEPT ![Restored].expires = FALSE]
    /\ UNCHANGED <<store, data, repo, net, cont, job, run, promo, process, faults>>

SetRunning(p, up) ==
    /\ Up /\ row[p].state \in {"running", "stopped", "failed"} /\ row[p].cid # 0
    /\ LET call == IF up THEN "start" ELSE "stop"
       IN Able(p, call, row[p].cid, p) /\ Acts(p, call, row[p].cid, p, FALSE)
    /\ row' = [row EXCEPT ![p].state = IF up THEN "running" ELSE "stopped"]
    /\ UNCHANGED <<store, job, run, promo, process, faults>>

Reconcile(p) ==
    /\ Up /\ row[p].state \in {"running", "stopped"} /\ ~row[p].deleted /\ cont[p].id # row[p].cid
    /\ row' = [row EXCEPT ![p].state = "failed"]
    /\ UNCHANGED <<store, data, repo, net, cont, job, run, promo, process, faults>>

RequestCancel ==
    /\ Up /\ Unsettled(Copying) /\ ~job[Copying].cancel
    /\ job' = [job EXCEPT ![Copying].cancel = TRUE, ![Copying].state = IF @ = "queued" THEN "cancelled" ELSE @]
    /\ UNCHANGED <<store, row, data, repo, net, cont, run, promo, process, faults>>

-----------------------------------------------------------------------------
(* promote(). *)

\* What promote() asks of the two projects.
Promotable == /\ Up /\ Promotes /\ promo = 0
              /\ row[Restored].state = "running" /\ ~row[Restored].deleted
              /\ ~row[Source].deleted /\ ~row[Restored].sourceRepo

\* The swap, in one transaction.  Bound: it happens once.
Promote ==
    /\ Promotable /\ row[Restored].ref = Restored
    /\ row' = [p \in Projects |-> [row[p] EXCEPT !.ref = row[Other(p)].ref]]
    /\ promo' = 1
    /\ UNCHANGED <<store, data, repo, net, cont, job, run, process, faults>>

\* A call of it returns; the row keeps the id of the container that was released.
PromoteReturns ==
    /\ promo # 0
    /\ LET p == PromoteCalls[promo].p  call == PromoteCalls[promo].call
           id == IF call = "start" THEN cont[p].id ELSE row[p].cid
           skips == call \in {"stop", "remove"} /\ id = 0
       IN /\ skips \/ Able(p, call, id, p)
          /\ IF skips THEN Untouched ELSE Acts(p, call, id, p, FALSE)
          /\ row' = CASE call = "start" /\ promo < 12 -> [row EXCEPT ![p].cid = id]
                      [] promo = 12 -> [q \in Projects |-> [row[q] EXCEPT !.state = "running",
                                                            !.cid = IF q = p THEN id ELSE @]]
                      [] OTHER -> row
    /\ promo' = (promo + 1) % 13
    /\ UNCHANGED <<store, job, run, process, faults>>

PromoteThrows ==
    /\ promo # 0
    /\ LET p == PromoteCalls[promo].p  call == PromoteCalls[promo].call
           id == IF call = "start" THEN cont[p].id ELSE row[p].cid
       IN \/ Fault
          \/ ~(call \in {"stop", "remove"} /\ id = 0) /\ ~Able(p, call, id, p) /\ UNCHANGED faults
    /\ promo' = 0
    /\ Untouched /\ UNCHANGED <<store, row, job, run, process>>

-----------------------------------------------------------------------------
(* The handlers. *)

FailedAttempt(j) == [job[j] EXCEPT !.state = IF job[j].attempts >= MaxAttempts[j] THEN "failed" ELSE "queued"]
CancelledAttempt(j) == IF job[j].cancel /\ Up THEN [job[j] EXCEPT !.state = "cancelled"]
                       ELSE [job[j] EXCEPT !.state = "queued", !.attempts = @ - 1]

\* An attempt starts.  branch.run refuses a source that is deleted; restore.run does not look.
Claim(j) ==
    /\ Up /\ job[j].state = "queued"
    /\ LET jb == [job[j] EXCEPT !.state = "running", !.attempts = @ + 1]
           refused == j = Copying /\ Branching /\ row[Source].deleted
       IN /\ job' = [job EXCEPT ![j] = IF ~refused THEN jb
                                       ELSE [jb EXCEPT !.state = IF jb.attempts >= MaxAttempts[j]
                                                                 THEN "failed" ELSE "queued"]]
          /\ run' = IF refused THEN run
                    ELSE [run EXCEPT ![j] = [NoRun EXCEPT !.at = Entry(j, jb.steps), !.ref = row[Of(j)].ref,
                                                          !.cid = row[Of(j)].cid]]
          /\ row' = IF j = Copying /\ ~refused THEN [row EXCEPT ![Restored].state = "creating"] ELSE row
    /\ Untouched /\ UNCHANGED <<store, promo, process, faults>>

\* The calls that a step of a handler starts with.
StepStarts(j) == {1} \cup {i \in 2..PathEnd(j) : StepAfter(j, i - 1) # 0}

AwaitCall == IF Branching THEN 8 ELSE AwaitAt

\* throwIfCancelled() before each step of a copy, and the waits that watch the signal.
Cancelled(j) == /\ j = Copying /\ (~Up \/ job[j].cancel)
                /\ run[j].at \in {AwaitCall} \cup (IF run[j].again THEN {} ELSE StepStarts(j))

\* A step that finds nothing to do: no container to stop, one to adopt, nothing to detach from.
Skipped(j) == \/ j # Copying /\ Call(j) \in {"stop", "remove"} /\ run[j].cid = 0
              \/ j = Copying /\ ~Branching /\ run[j].at = DetachAt /\ ~row[Restored].sourceRepo

\* Mutant: the id of the container that replaced the first one is not recorded.
RecordsOnce(j, id) ==
    [row EXCEPT ![Restored].cid = IF run[j].again THEN @ ELSE id,
                ![Restored].sourceRepo = IF run[j].at > DetachAt THEN FALSE ELSE IF run[j].again THEN @ ELSE TRUE]

\* Mutant: the source's repository is mounted and not recorded.
RecordsNoSource(j, id) == [row EXCEPT ![Restored].cid = id]

\* The row once restore.run has started a container: the first, the one after a target that
\* could not be reached, and the one without the source's repository.
Records(j, id) ==
    [row EXCEPT ![Restored].cid = id,
                ![Restored].sourceRepo = IF run[j].at > DetachAt THEN FALSE ELSE IF run[j].again THEN @ ELSE TRUE]

\* The handler has done its last call.
Finishes(j) ==
    /\ job' = [job EXCEPT ![j].state = "succeeded", ![j].steps = 0]
    /\ run' = [run EXCEPT ![j] = NoRun]

\* It goes on to call i, having checkpointed what was done.  After the fallback the code goes on
\* with the container id it read before it.
GoesTo(j, i, cid) ==
    LET at == run[j].at
        step == IF at > PathEnd(j) \/ (run[j].again /\ at < AwaitAt) THEN 0 ELSE StepAfter(j, at)
    IN /\ job' = [job EXCEPT ![j].steps = IF step = 0 THEN @ ELSE step]
       /\ run' = [run EXCEPT ![j] = IF at = AwaitAt /\ run[j].again
                                    THEN [@ EXCEPT !.at = i, !.again = FALSE, !.cid = run[j].old]
                                    ELSE [@ EXCEPT !.at = i, !.cid = cid]]

CallReturns(j) ==
    /\ run[j].at # 0 /\ ~Cancelled(j) /\ ~Skipped(j)
    /\ LET p == Of(j)  at == run[j].at
           \* "list" finds a container to adopt
           cid == CASE Call(j) = "list" -> cont[p].id
                    [] Call(j) = "create" -> Fresh
                    [] OTHER -> run[j].cid
       IN /\ Able(p, Call(j), run[j].cid, run[j].ref)
          /\ Acts(p, Call(j), run[j].cid, run[j].ref, j = Copying /\ ~Branching /\ at < DetachAt)
          /\ IF at = PathEnd(j)
             THEN /\ Finishes(j)
                  /\ row' = CASE j # Copying -> [row EXCEPT ![j].deleted = TRUE, ![j].cid = 0]
                              [] j = Copying /\ Branching -> [row EXCEPT ![p].state = "running"]
                              [] OTHER -> [Records(j, cid) EXCEPT ![p].state = "running"]
             ELSE /\ GoesTo(j, CASE at = Fallback + 1 -> 4
                                 [] Call(j) = "list" /\ cid # 0 -> at + 2
                                 [] OTHER -> at + 1, cid)
                  /\ row' = CASE j = Copying /\ Branching /\ Call(j) = "create" -> [row EXCEPT ![p].cid = cid]
                              [] j = Copying /\ Branching /\ Call(j) = "list" /\ cid # 0 -> [row EXCEPT ![p].cid = cid]
                              [] j = Copying /\ ~Branching /\ at = StartAt -> Records(j, cid)
                              [] OTHER -> row
    /\ UNCHANGED <<store, promo, process, faults>>

StepSkipped(j) ==
    /\ run[j].at # 0 /\ ~Cancelled(j) /\ Skipped(j)
    /\ IF j = Copying THEN Finishes(j) /\ row' = [row EXCEPT ![Restored].state = "running"]
       ELSE GoesTo(j, run[j].at + 1, 0) /\ UNCHANGED row
    /\ Untouched /\ UNCHANGED <<store, promo, process, faults>>

\* awaitPromotion() finds that the target time is past the end of the WAL.
Late == /\ run[Copying].at = AwaitAt /\ ~Branching /\ ~Cancelled(Copying)
        /\ cont[Restored].id = run[Copying].cid /\ cont[Restored].up /\ data[Restored] = "late"

\* Everything is restored instead.
TargetUnreachable ==
    /\ Late
    /\ run' = [run EXCEPT ![Copying].at = Fallback, ![Copying].again = TRUE, ![Copying].old = run[Copying].cid]
    /\ Untouched /\ UNCHANGED <<store, row, job, promo, process, faults>>

\* A call throws.  A copy records the error on its row, unless it was cancelled; a failed checkpoint
\* of the source, and a failed stop before the fallback, are passed over.
CallThrows(j) ==
    /\ run[j].at # 0
    /\ \/ Cancelled(j) /\ UNCHANGED faults
       \/ ~Cancelled(j) /\ ~Skipped(j) /\ UNCHANGED faults
          /\ ~Able(Of(j), Call(j), run[j].cid, run[j].ref) /\ ~(j = Copying /\ Late)
       \/ ~Cancelled(j) /\ ~Skipped(j) /\ Fault
    /\ IF ~Cancelled(j) /\ (Call(j) = "checkpoint" \/ run[j].at = Fallback)
       THEN GoesTo(j, run[j].at + 1, run[j].cid) /\ UNCHANGED row
       ELSE /\ run' = [run EXCEPT ![j] = NoRun]
            /\ job' = [job EXCEPT ![j] = IF Cancelled(j) THEN CancelledAttempt(j) ELSE FailedAttempt(j)]
            /\ row' = IF j # Copying \/ Cancelled(j) THEN row
                      ELSE [row EXCEPT ![Restored].state = IF job[j].attempts >= MaxAttempts[j]
                                                           THEN "failed" ELSE "creating"]
    /\ Untouched /\ UNCHANGED <<store, promo, process>>

-----------------------------------------------------------------------------
(* The process. *)

\* It dies, with a call under way done or not; exhausted jobs are swept.
Crash ==
    /\ Fault
    /\ \/ Untouched
       \/ \E j \in Jobs : /\ run[j].at # 0 /\ Able(Of(j), Call(j), run[j].cid, run[j].ref)
                          /\ Acts(Of(j), Call(j), run[j].cid, run[j].ref,
                                  j = Copying /\ ~Branching /\ run[j].at < DetachAt)
    /\ job' = [j \in Jobs |-> IF run[j].at = 0 THEN job[j] ELSE FailedAttempt(j)]
    /\ run' = [j \in Jobs |-> NoRun] /\ promo' = 0 /\ process' = "up"
    /\ UNCHANGED <<store, row>>

Shutdown ==
    /\ Up /\ Fault /\ process' = "stopping"
    /\ Untouched /\ UNCHANGED <<store, row, job, run, promo>>

Restart ==
    /\ ~Up /\ promo = 0 /\ \A j \in Jobs : run[j].at = 0
    /\ process' = "up"
    /\ Untouched /\ UNCHANGED <<store, row, job, run, promo, faults>>

Next ==
    \/ \E e \in BOOLEAN : CreateBranch(e) \/ \E m \in {"latest", "late"} : StartRestore(m, e)
    \/ ExpireDue \/ SetExpiry \/ RequestCancel \/ Promote \/ PromoteReturns \/ PromoteThrows
    \/ \E p \in Projects : Delete(p) \/ Reconcile(p) \/ \E up \in BOOLEAN : SetRunning(p, up)
    \/ \E j \in Jobs : Claim(j) \/ CallReturns(j) \/ StepSkipped(j) \/ CallThrows(j)
    \/ TargetUnreachable \/ Crash \/ Shutdown \/ Restart

Spec == Init /\ [][Next]_vars

\* The worker claims, calls return or throw, the process is restarted.
FairSpec ==
    /\ Spec /\ WF_vars(Restart) /\ WF_vars(PromoteReturns \/ PromoteThrows)
    /\ \A j \in Jobs : WF_vars(Claim(j))
                       /\ WF_vars(CallReturns(j) \/ StepSkipped(j) \/ CallThrows(j) \/ (j = Copying /\ TargetUnreachable))

-----------------------------------------------------------------------------
(* Properties. *)

Swapped == row[Restored].ref # Restored

\* A copy that runs and may be promoted needs nothing of its source: its container does not mount
\* the source's repository, its data directory holds the database and, if it was restored, its own
\* repository a backup; also when attempts failed, were interrupted or went through the fallback
\* (restore-run.ts: "otherwise deleting the source project would break the restored one").
CopyIsIndependent ==
    row[Restored].state = "running" /\ ~row[Restored].sourceRepo /\ ~Swapped =>
        /\ data[Restored] = "database" \/ Branching
        /\ ~cont[Restored].src
        /\ ~Branching => repo[Restored] = "backup"

\* A project that is retired left no container, data or backup on the host, as long as the refs were
\* not swapped; in particular no container that a job created and did not record (project-delete.ts).
RetiredMeansGone ==
    ~Swapped => \A p \in Projects :
        row[p].deleted => cont[p].id = 0 /\ data[p] = "none" /\ repo[p] \in {"none", "empty"}

\* Unless something fails on the host, promoting ends with the copy's data answering on the ref and
\* port of its source (restore.ts: "the restored data answers where the application is already looking").
PromotedServes ==
    Swapped /\ promo = 0 /\ faults = 0 /\ row[Restored].state = "running"
        => cont[Restored].up /\ cont[Restored].port = Source

\* A restore that nobody interferes with succeeds, also one to a moment past the end of the WAL,
\* although the attempt that falls back goes on with the container it removed.
RestoreSucceeds ==
    row[Restored].state = "creating" ~>
        \/ row[Restored].state = "running"
        \/ faults > 0 \/ job[Copying].cancel \/ row[Source].state = "deleting"
============================================================================
