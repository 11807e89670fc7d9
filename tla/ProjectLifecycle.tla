-------------------------- MODULE ProjectLifecycle --------------------------
(***************************************************************************)
(* The life of one project: its row (projects/service.ts), the jobs that   *)
(* provision and tear down its runtime (handlers/project-create.ts and     *)
(* project-delete.ts), the start/stop/restart requests, the reconciler     *)
(* (projects/reconciler.ts) and the Docker objects they all work on.       *)
(*                                                                         *)
(* Everything runs in one control-plane process, which may crash or be     *)
(* restarted at any await.  The code between two awaits is one step: a     *)
(* call takes effect in Docker first, and the continuation of its await    *)
(* runs later, on rows that may have changed in the meantime.  Jobs follow *)
(* the life cycle that JobQueue implements (JobLifecycle); a lease is lost *)
(* only with the process that held it.                                     *)
(*                                                                         *)
(* Data directories are Docker volumes (VolumeDataStore).                  *)
(***************************************************************************)
EXTENDS Integers, Sequences, FiniteSets

CONSTANTS
    Creation,     \* the project.create job
    Deletions,    \* project.delete jobs that may be enqueued
    MaxAttempts,  \* of each job
    MaxDowns,     \* bound: crashes and shutdowns of the control plane
    Cancels,      \* bound: the jobs that may be cancelled
    Failures,     \* may Docker calls fail for reasons of their own?
    Outside       \* may containers stop or disappear on their own?

Jobs == {Creation} \cup Deletions

ASSUME JobsAssumption == Creation \notin Deletions
ASSUME AttemptsAssumption == MaxAttempts \in [Jobs -> Nat \ {0}]
ASSUME DownsAssumption == MaxDowns \in Nat
ASSUME CancelsAssumption == Cancels \subseteq Jobs
ASSUME SwitchesAssumption == {Failures, Outside} \subseteq BOOLEAN

VARIABLES
    row,      \* the project's row
    job,      \* the project's rows of the jobs table
    run,      \* the handlers that are running
    api,      \* a setRunning() request in progress
    rec,      \* the reconciler's visit to the project
    docker,   \* the project's objects on the host
    process,  \* the control plane: up, stopping, down
    downs     \* how many times it went down

vars == <<row, job, run, api, rec, docker, process, downs>>

Transient == {"creating", "deleting"}
Objects == {"data", "backup", "network"}

\* The awaited calls of the two handlers, the checkpoint that follows each (0: none), and the
\* call a handler starts at when it resumes from a checkpoint.
CreateCalls == <<"pull", "data", "backup", "network", "list", "container", "start", "ready", "archive">>
CreateSteps == <<1, 0, 2, 3, 0, 4, 5, 6, 7>>
DeleteCallsSameVolume == <<"stop", "remove", "rmdata", "rmdata", "rmnetwork">>   \* mutant
DeleteCalls == <<"stop", "remove", "rmdata", "rmbackup", "rmnetwork">>
DeleteSteps == <<1, 2, 0, 3, 4>>

Calls(k) == IF k = Creation THEN CreateCalls ELSE DeleteCalls
StepAfter(k, i) == IF k = Creation THEN CreateSteps[i] ELSE DeleteSteps[i]

\* Mutant: the step after the next one.
EntrySkipping(k, done) == IF done = 0 THEN 1
                          ELSE 2 + CHOOSE i \in 1..Len(Calls(k)) : StepAfter(k, i) = done

Entry(k, done) == IF done = 0 THEN 1
                  ELSE 1 + CHOOSE i \in 1..Len(Calls(k)) : StepAfter(k, i) = done
Last(k) == Len(Calls(k))

\* alone is history: nothing else was under way when the job was asked for.
NoJob == [state |-> "absent", attempts |-> 0, completedSteps |-> 0, cancelRequested |-> FALSE,
          alone |-> FALSE]
NoRun == [pc |-> "off", call |-> 0, cid |-> 0]
NoRequest == [pc |-> "off", todo |-> <<>>, target |-> "running", cid |-> 0]
NoVisit == [pc |-> "off", state |-> "running", cid |-> 0]

TypeOK ==
    /\ row \in [state : {"absent", "running", "stopped", "failed"} \cup Transient,
                containerId : Nat, backups : BOOLEAN, deleted : BOOLEAN]
    /\ job \in [Jobs -> [state : {"absent", "queued", "running", "succeeded", "failed", "cancelled"},
                         attempts : Nat, completedSteps : 0..7, cancelRequested : BOOLEAN,
                         alone : BOOLEAN]]
    /\ run \in [Jobs -> [pc : {"off", "call", "ok", "error", "refused", "done"}, call : 0..9, cid : Nat]]
    /\ api \in [pc : {"off", "call", "write"}, todo : Seq({"start", "stop"}),
                target : {"running", "stopped"}, cid : Nat]
    /\ rec \in [pc : {"off", "inspect", "write"}, state : {"running", "stopped", "failed"},
                cid : Nat]
    /\ docker \in [container : Nat, up : BOOLEAN, objects : SUBSET Objects, made : Nat]
    /\ process \in {"up", "stopping", "down"}
    /\ downs \in 0..MaxDowns

Init ==
    /\ row = [state |-> "absent", containerId |-> 0, backups |-> FALSE, deleted |-> FALSE]
    /\ job = [k \in Jobs |-> NoJob]
    /\ run = [k \in Jobs |-> NoRun]
    /\ api = NoRequest /\ rec = NoVisit
    /\ docker = [container |-> 0, up |-> FALSE, objects |-> {}, made |-> 0]
    /\ process = "up" /\ downs = 0

-----------------------------------------------------------------------------
(* Docker.  container is the container with the project's name and labels, *)
(* 0 when there is none; ids are never used again.                         *)

\* When a call succeeds.  Starting a container that runs is an error (304), as is stopping one
\* that is gone (404); a volume that a container mounts cannot be removed.
Succeeds(call, cid) ==
    CASE call = "container" -> docker.container = 0
      [] call = "start" -> docker.container = cid /\ ~docker.up /\ "network" \in docker.objects
      [] call \in {"ready", "archive"} -> docker.container = cid /\ docker.up
      [] call = "stop" -> cid = 0 \/ docker.container = cid
      [] call \in {"rmdata", "rmbackup"} -> docker.container = 0
      [] call = "rmnetwork" -> ~docker.up
      [] OTHER -> TRUE

\* What it does.  Docker creates a named volume that a new container mounts.
Effect(call, cid) ==
    CASE call \in Objects -> [docker EXCEPT !.objects = @ \cup {call}]
      [] call = "container" -> [container |-> docker.made + 1, up |-> FALSE,
                                objects |-> docker.objects \cup {"data", "backup"},
                                made |-> docker.made + 1]
      [] call = "start" -> [docker EXCEPT !.up = TRUE]
      [] call = "stop" -> [docker EXCEPT !.up = @ /\ docker.container # cid]
      [] call = "remove" /\ docker.container = cid -> [docker EXCEPT !.container = 0, !.up = FALSE]
      [] call = "rmdata" -> [docker EXCEPT !.objects = @ \ {"data"}]
      [] call = "rmbackup" -> [docker EXCEPT !.objects = @ \ {"backup"}]
      [] call = "rmnetwork" -> [docker EXCEPT !.objects = @ \ {"network"}]
      [] OTHER -> docker

\* A container is killed, comes back by its restart policy, or is removed by hand.
ContainerStops ==
    /\ Outside /\ docker.up
    /\ docker' = [docker EXCEPT !.up = FALSE]
    /\ UNCHANGED <<row, job, run, api, rec, process, downs>>

ContainerRestarts ==
    /\ Outside /\ docker.container # 0 /\ ~docker.up /\ "network" \in docker.objects
    /\ docker' = [docker EXCEPT !.up = TRUE]
    /\ UNCHANGED <<row, job, run, api, rec, process, downs>>

ContainerRemoved ==
    /\ Outside /\ docker.container # 0
    /\ docker' = [docker EXCEPT !.container = 0, !.up = FALSE]
    /\ UNCHANGED <<row, job, run, api, rec, process, downs>>

-----------------------------------------------------------------------------
(* Requests. *)

Unsettled(k) == job[k].state \in {"queued", "running"}

\* Nothing is being done to the project.
AtRest == api.pc = "off" /\ \A k \in Jobs : ~Unsettled(k) /\ run[k].pc = "off"

Queued == [NoJob EXCEPT !.state = "queued", !.alone = AtRest]

\* The row is inserted and the job enqueued, in two transactions.
Create ==
    /\ process = "up" /\ row.state = "absent"
    /\ row' = [row EXCEPT !.state = "creating"]
    /\ job' = [job EXCEPT ![Creation] = Queued]
    /\ UNCHANGED <<run, api, rec, docker, process, downs>>

Delete(k) ==
    /\ process = "up" /\ row.state \notin {"absent", "deleting"} /\ ~row.deleted
    /\ k \in Deletions /\ job[k].state = "absent"
    /\ row' = [row EXCEPT !.state = "deleting"]
    /\ job' = [job EXCEPT ![k] = Queued]
    /\ UNCHANGED <<run, api, rec, docker, process, downs>>

\* POST /jobs/:id/cancel.
RequestCancel(k) ==
    /\ k \in Cancels /\ process = "up" /\ Unsettled(k)
    /\ job' = [job EXCEPT ![k].cancelRequested = TRUE,
                          ![k].state = IF @ = "queued" THEN "cancelled" ELSE @]
    /\ UNCHANGED <<row, run, api, rec, docker, process, downs>>

\* setRunning(), up to its first await.  Bound: it is asked for when nothing is under way.
SetRunning(action) ==
    /\ process = "up" /\ AtRest
    /\ row.state \notin Transient \cup {"absent"} /\ ~row.deleted
    /\ row.containerId # 0
    /\ api' = [pc |-> "call", cid |-> row.containerId,
               todo |-> IF action = "restart" THEN <<"stop", "start">> ELSE <<action>>,
               target |-> IF action = "stop" THEN "stopped" ELSE "running"]
    /\ UNCHANGED <<row, job, run, rec, docker, process, downs>>

\* A call of it returns or throws.
SetRunningCall ==
    /\ api.pc = "call"
    /\ \/ /\ Succeeds(Head(api.todo), api.cid)
          /\ docker' = Effect(Head(api.todo), api.cid)
          /\ api' = [api EXCEPT !.todo = Tail(@),
                                !.pc = IF Len(api.todo) = 1 THEN "write" ELSE "call"]
       \/ /\ Failures \/ ~Succeeds(Head(api.todo), api.cid)
          /\ api' = NoRequest
          /\ UNCHANGED docker
    /\ UNCHANGED <<row, job, run, rec, process, downs>>

SetRunningWrites ==
    /\ api.pc = "write"
    /\ row' = [row EXCEPT !.state = api.target]
    /\ api' = NoRequest
    /\ UNCHANGED <<job, run, rec, docker, process, downs>>

-----------------------------------------------------------------------------
(* Jobs. *)

Claimed(j) == [j EXCEPT !.state = "running", !.attempts = @ + 1]
Released(j) == [j EXCEPT !.state = "queued", !.attempts = @ - 1]

\* Mutant: one retry too many.
FailedAttemptOffByOne(k, j) ==
    [j EXCEPT !.state = IF j.attempts > MaxAttempts[k] THEN "failed" ELSE "queued"]

FailedAttempt(k, j) == [j EXCEPT !.state = IF j.attempts >= MaxAttempts[k] THEN "failed" ELSE "queued"]

\* The handler's attempt is over and the job is now j.
Ends(k, j) ==
    /\ run' = [run EXCEPT ![k] = NoRun]
    /\ job' = [job EXCEPT ![k] = j]

\* An error: project.create records it on the row, project.delete does not.
Throws(k, rw, j) ==
    /\ Ends(k, FailedAttempt(k, j))
    /\ row' = IF k = Creation
              THEN [rw EXCEPT !.state = IF j.attempts >= MaxAttempts[k] THEN "failed" ELSE "creating"]
              ELSE rw

\* A JobCancelledError, which neither handler records on the row.
ThrowsCancelled(k, rw, j) ==
    /\ Ends(k, IF j.cancelRequested /\ process = "up"
               THEN [j EXCEPT !.state = "cancelled"] ELSE Released(j))
    /\ row' = rw

\* The handler is about to make call i, or has made them all.
Goes(k, i, cid, rw, j) ==
    /\ job' = [job EXCEPT ![k] = j]
    /\ \/ /\ i <= Last(k)
          /\ run' = [run EXCEPT ![k] = [pc |-> "call", call |-> i, cid |-> cid]]
          /\ row' = rw
       \/ /\ i > Last(k)
          /\ run' = [run EXCEPT ![k] = [pc |-> "done", call |-> Last(k), cid |-> cid]]
          /\ row' = IF k = Creation THEN [rw EXCEPT !.state = "running"]
                    ELSE [rw EXCEPT !.deleted = TRUE, !.containerId = 0]

\* project.create reads the container id back from the row after its fourth step.
ReadsBack(k, i) == k = Creation /\ CreateSteps[i - 1] = 4

\* Mutant: a job left running by a process that died is not taken up again.
ClaimableOnlyQueued(k) ==
    run[k].pc = "off" /\ job[k].state = "queued" /\ job[k].attempts < MaxAttempts[k]

\* Queued, or running with nobody renewing its lease.
Claimable(k) == run[k].pc = "off" /\ Unsettled(k) /\ job[k].attempts < MaxAttempts[k]

\* Claim, and the handler up to its first await.
Claim(k) ==
    /\ process = "up" /\ Claimable(k)
    /\ LET j == Claimed(job[k])
           i == Entry(k, job[k].completedSteps)
           rw == IF k = Creation THEN [row EXCEPT !.state = "creating"] ELSE row
       IN \/ /\ row.deleted
             /\ run' = [run EXCEPT ![k] = [NoRun EXCEPT !.pc = IF k = Creation THEN "refused" ELSE "done"]]
             /\ job' = [job EXCEPT ![k] = j] /\ UNCHANGED row
          \/ /\ ~row.deleted
             /\ IF k = Creation /\ job[k].completedSteps >= 4 /\ row.containerId = 0
                THEN /\ run' = [run EXCEPT ![k] = [NoRun EXCEPT !.pc = "error"]]
                     /\ job' = [job EXCEPT ![k] = j] /\ row' = rw
                ELSE Goes(k, i, IF k # Creation \/ job[k].completedSteps >= 4
                                THEN row.containerId ELSE 0, rw, j)
    /\ UNCHANGED <<api, rec, docker, process, downs>>

\* sweepExhausted(): the last attempt died with its process.
Sweep(k) ==
    /\ process = "up" /\ run[k].pc = "off"
    /\ job[k].state = "running" /\ job[k].attempts >= MaxAttempts[k]
    /\ job' = [job EXCEPT ![k].state = "failed"]
    /\ UNCHANGED <<row, run, api, rec, docker, process, downs>>

\* Docker carries out the call, or refuses to.
CallReturns(k) ==
    /\ run[k].pc = "call"
    /\ LET call == Calls(k)[run[k].call]
           cid == run[k].cid
       IN \/ /\ Succeeds(call, cid)
             /\ docker' = Effect(call, cid)
             /\ run' = [run EXCEPT ![k].pc = "ok",
                                   ![k].cid = IF call \in {"list", "container"}
                                              THEN docker'.container ELSE @]
          \/ /\ Failures \/ ~Succeeds(call, cid)
             /\ run' = [run EXCEPT ![k].pc = "error"]
             /\ UNCHANGED docker
    /\ UNCHANGED <<row, job, api, rec, process, downs>>

\* What the continuation of call i writes to the project's row.
Recorded(k, i, cid) ==
    CASE Calls(k)[i] = "container" -> [row EXCEPT !.containerId = cid]
      [] Calls(k)[i] = "archive" -> [row EXCEPT !.backups = TRUE]
      [] OTHER -> row

\* The continuation of a call that succeeded: record, checkpoint, and on to the next call.
\* project.create looks at its abort signal before each step; a shutdown sets it at once, a
\* cancellation at the next heartbeat.
Continue(k) ==
    /\ run[k].pc = "ok"
    /\ LET i == run[k].call
           cid == run[k].cid
           adopts == Calls(k)[i] = "list" /\ cid # 0
           at == IF adopts THEN i + 1 ELSE i
           step == StepAfter(k, at)
           rw == Recorded(k, at, cid)
           j == IF step = 0 THEN job[k] ELSE [job[k] EXCEPT !.completedSteps = step]
           checks == k = Creation /\ step # 0 /\ at < Last(k)
       IN IF ReadsBack(k, at + 1) /\ rw.containerId = 0
          THEN Throws(k, rw, j)
          ELSE \/ /\ checks /\ (process = "stopping" \/ j.cancelRequested)
                  /\ ThrowsCancelled(k, rw, j)
               \/ /\ ~(checks /\ process = "stopping")
                  /\ Goes(k, at + 1, IF ReadsBack(k, at + 1) THEN rw.containerId ELSE cid, rw, j)
    /\ UNCHANGED <<api, rec, docker, process, downs>>

\* A call threw; project.create found its project deleted; its wait for Postgres was aborted.
CallThrows(k) ==
    /\ run[k].pc = "error"
    /\ Throws(k, row, job[k])
    /\ UNCHANGED <<api, rec, docker, process, downs>>

Refuses(k) ==
    /\ run[k].pc = "refused"
    /\ Ends(k, FailedAttempt(k, job[k])) /\ UNCHANGED row
    /\ UNCHANGED <<api, rec, docker, process, downs>>

WaitAborted ==
    /\ run[Creation].pc = "call" /\ CreateCalls[run[Creation].call] = "ready"
    /\ process = "stopping" \/ job[Creation].cancelRequested
    /\ ThrowsCancelled(Creation, row, job[Creation])
    /\ UNCHANGED <<api, rec, docker, process, downs>>

Return(k) ==
    /\ run[k].pc = "done"
    /\ Ends(k, [job[k] EXCEPT !.state = "succeeded",
                              !.completedSteps = IF k = Creation THEN 7 ELSE 5])
    /\ UNCHANGED <<row, api, rec, docker, process, downs>>

-----------------------------------------------------------------------------
(* The reconciler. *)

\* runOnce() reads the rows that no job owns ...
Visit ==
    /\ process = "up" /\ rec.pc = "off"
    /\ row.state \notin Transient \cup {"absent"} /\ ~row.deleted
    /\ rec' = [NoVisit EXCEPT !.pc = "inspect", !.state = row.state, !.cid = row.containerId]
    /\ UNCHANGED <<row, job, run, api, docker, process, downs>>

Verdict(state, info) ==
    CASE info = "missing" -> "failed"
      [] info = "running" /\ state = "stopped" -> "running"
      [] info = "exited" /\ state = "running" -> "stopped"
      [] OTHER -> state

\* ... comes to this one, after awaits of its own, inspects its container, and is done with it
\* when the state it read is right ...
Inspect ==
    /\ rec.pc = "inspect"
    /\ LET info == IF rec.cid = 0 \/ docker.container # rec.cid THEN "missing"
                   ELSE IF docker.up THEN "running"
                   ELSE "exited"
           verdict == Verdict(rec.state, info)
       IN  \/ rec' = IF verdict = rec.state THEN NoVisit
                     ELSE [NoVisit EXCEPT !.pc = "write", !.state = verdict]
           \/ Failures /\ rec.cid # 0 /\ rec' = NoVisit
    /\ UNCHANGED <<row, job, run, api, docker, process, downs>>

\* ... and otherwise corrects it.
Correct ==
    /\ rec.pc = "write"
    /\ row' = [row EXCEPT !.state = rec.state]
    /\ rec' = NoVisit
    /\ UNCHANGED <<job, run, api, docker, process, downs>>

-----------------------------------------------------------------------------
(* The process. *)

\* Everything in memory is lost; jobs that were running keep their rows.
Down ==
    /\ downs < MaxDowns
    /\ process' = "down" /\ downs' = downs + 1
    /\ run' = [k \in Jobs |-> NoRun]
    /\ api' = NoRequest /\ rec' = NoVisit
    /\ UNCHANGED docker

Crash == process = "up" /\ Down /\ UNCHANGED <<row, job>>

\* It dies between the two transactions of create() or delete().
CreateDies == process = "up" /\ row.state = "absent" /\ Down
              /\ row' = [row EXCEPT !.state = "creating"] /\ UNCHANGED job

DeleteDies == process = "up" /\ row.state \notin {"absent", "deleting"} /\ ~row.deleted /\ Down
              /\ row' = [row EXCEPT !.state = "deleting"] /\ UNCHANGED job

\* SIGTERM: requests are finished first; then handlers are told, and waited for up to ten
\* seconds.
Shutdown ==
    /\ process = "up" /\ downs < MaxDowns
    /\ api.pc = "off"
    /\ process' = "stopping"
    /\ UNCHANGED <<row, job, run, api, rec, docker, downs>>

Exit == process = "stopping" /\ Down /\ UNCHANGED <<row, job>>

Restart ==
    /\ process = "down"
    /\ process' = "up"
    /\ UNCHANGED <<row, job, run, api, rec, docker, downs>>

-----------------------------------------------------------------------------

Next ==
    \/ Create \/ \E k \in Deletions : Delete(k)
    \/ \E action \in {"start", "stop", "restart"} : SetRunning(action)
    \/ SetRunningCall \/ SetRunningWrites
    \/ \E k \in Jobs : \/ RequestCancel(k) \/ Claim(k) \/ Sweep(k) \/ CallReturns(k)
                       \/ Continue(k) \/ CallThrows(k) \/ Refuses(k) \/ Return(k)
    \/ WaitAborted
    \/ Visit \/ Inspect \/ Correct
    \/ Crash \/ CreateDies \/ DeleteDies \/ Shutdown \/ Exit \/ Restart
    \/ ContainerStops \/ ContainerRestarts \/ ContainerRemoved

Spec == Init /\ [][Next]_vars

(***************************************************************************)
(* Fairness: the process is started again, the worker's timer fires,       *)
(* Docker answers, and continuations run.  Nobody has to ask for anything, *)
(* no call has to fail, and nothing depends on the reconciler.             *)
(***************************************************************************)
Fairness ==
    /\ WF_vars(Restart) /\ WF_vars(Exit)
    /\ \A k \in Jobs : /\ WF_vars(Claim(k)) /\ WF_vars(Sweep(k)) /\ WF_vars(CallReturns(k))
                       /\ WF_vars(Continue(k)) /\ WF_vars(CallThrows(k)) /\ WF_vars(Refuses(k))
                       /\ WF_vars(Return(k))
    /\ WF_vars(SetRunningCall) /\ WF_vars(SetRunningWrites)

FairSpec == Spec /\ Fairness

-----------------------------------------------------------------------------
(* Safety. *)

NoDeletion == row.state # "deleting" /\ ~row.deleted /\ \A k \in Deletions : job[k].state = "absent"

\* Once project.create has succeeded, whatever it went through, the project is whole: its
\* volumes and network exist, its container is the one on the row (or gone from the host),
\* and archiving is set up.
ProvisionedForReal ==
    job[Creation].state = "succeeded" /\ NoDeletion =>
        /\ docker.objects = Objects /\ row.backups
        /\ row.containerId # 0 /\ docker.container \in {0, row.containerId}

\* A deleted project leaves nothing on the host, unless its deletion was asked for while it was
\* still being created or started: the row is retired last, so it never "claims the data is
\* gone while the volume is still on disk" (project-delete.ts:28-30).
DeletedMeansGone ==
    row.deleted /\ (\A k \in Deletions : job[k].state # "absent" => job[k].alone) =>
        docker.container = 0 /\ docker.objects = {}

\* The project's jobs follow the life cycle that the queue implements.
JobsLifecycle == INSTANCE JobLifecycle
    WITH state <- [k \in Jobs |-> job[k].state], attempts <- [k \in Jobs |-> job[k].attempts]
JobsFollowLifecycle == JobsLifecycle!Spec

-----------------------------------------------------------------------------
(* Liveness. *)

\* Provisioning and deletion come to an end, and provisioning leaves no project in creating,
\* through failing calls and containers that stop or vanish, unless the job was cancelled or its last
\* attempt was cut off by the end of the process (service.ts:108-109, project-create.ts catch).
JobsEnd ==
    /\ Unsettled(Creation) ~> \/ (row.state # "creating" \/ row.deleted) /\ ~Unsettled(Creation)
                              \/ job[Creation].state = "cancelled"
                              \/ job[Creation].state = "failed" /\ downs > 0
    /\ \A k \in Deletions : Unsettled(k) ~> row.deleted \/ job[k].state \in {"failed", "cancelled"}
=============================================================================
