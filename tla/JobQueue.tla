------------------------------ MODULE JobQueue ------------------------------
(***************************************************************************)
(* The durable job queue of the control plane (jobs/queue.ts) and the      *)
(* worker that drains it (jobs/worker.ts), running handlers of the shape   *)
(* of jobs/handlers/noop.ts: a sequence of steps, a cancellation check     *)
(* before each, a checkpoint after each.                                   *)
(*                                                                         *)
(* The jobs table is the only durable state and every queue method is one  *)
(* SQLite transaction, hence one atomic update here.  A worker process is  *)
(* single-threaded: it is in the middle of a synchronous tick, or of a     *)
(* chain of promise continuations, or idle in its event loop (Turn).  It   *)
(* may crash between any two transactions, and several processes may share *)
(* the table.                                                              *)
(*                                                                         *)
(* Clock readings are abstracted to two flags per row: expired             *)
(* (leaseExpiresAt < now) and due (runAt <= now).                          *)
(***************************************************************************)
EXTENDS Integers, FiniteSets

CONSTANTS
    Jobs,         \* rows that are ever enqueued
    Workers,      \* process instances, each with its own instanceId; a restart is a new one
    Execs,        \* slots for concurrent calls of execute(): the bound on them
    None,         \* SQL null, and a missing Map entry
    Priority,     \* Priority[j]
    MaxAttempts,  \* MaxAttempts[j]
    Poison,       \* jobs with no handler, or a payload that fails its schema
    Steps,        \* steps in a handler's loop
    Concurrency,  \* config.jobs.concurrency
    Stalls        \* may a live process fail to heartbeat for a whole lease?

ASSUME NoneAssumption == None \notin Workers /\ None \notin Execs
ASSUME PriorityAssumption == Priority \in [Jobs -> Int]
ASSUME MaxAttemptsAssumption == MaxAttempts \in [Jobs -> Nat \ {0}]
ASSUME PoisonAssumption == Poison \subseteq Jobs
ASSUME StepsAssumption == Steps \in Nat \ {0}
ASSUME ConcurrencyAssumption == Concurrency \in Nat \ {0}
ASSUME StallsAssumption == Stalls \in BOOLEAN

VARIABLES
    jobs,       \* the jobs table
    phase,      \* of each process: unborn, running, stopping, dead
    ticking,    \* is the process inside the claim loop of tick()?
    inFlight,   \* the worker's Map from job id to the AbortController of an execution
    exec,       \* the executions in progress
    performed   \* history: the steps of each job whose work was ever completed

vars == <<jobs, phase, ticking, inFlight, exec, performed>>

Terminal == {"succeeded", "failed", "cancelled"}
Live == {"start", "work", "done"}

Row == [state : {"absent", "queued", "running"} \cup Terminal,
        attempts : Nat,
        leaseOwner : Workers \cup {None},
        expired : BOOLEAN,
        due : BOOLEAN,
        completedSteps : 0..Steps,
        cancelRequested : BOOLEAN,
        finished : BOOLEAN]

Execution == [pc : {"start", "work", "done", "unwound"},
              w : Workers, j : Jobs, step : 1..(Steps + 1), aborted : BOOLEAN]

Free == [pc |-> "free"]

TypeOK ==
    /\ jobs \in [Jobs -> Row]
    /\ phase \in [Workers -> {"unborn", "running", "stopping", "dead"}]
    /\ ticking \in [Workers -> BOOLEAN]
    /\ inFlight \in [Workers -> [Jobs -> Execs \cup {None}]]
    /\ exec \in [Execs -> Execution \cup {Free}]
    /\ performed \in [Jobs -> SUBSET (1..Steps)]

NoRow == [state |-> "absent", attempts |-> 0, leaseOwner |-> None, expired |-> FALSE,
          due |-> FALSE, completedSteps |-> 0, cancelRequested |-> FALSE, finished |-> FALSE]

Init ==
    /\ jobs = [j \in Jobs |-> NoRow]
    /\ phase = [w \in Workers |-> "unborn"]
    /\ ticking = [w \in Workers |-> FALSE]
    /\ inFlight = [w \in Workers |-> [j \in Jobs |-> None]]
    /\ exec = [e \in Execs |-> Free]
    /\ performed = [j \in Jobs |-> {}]

-----------------------------------------------------------------------------
(* What each queue method writes to a row. *)

Enqueued(due) == [NoRow EXCEPT !.state = "queued", !.due = due]

Claimed(r, w) ==
    [r EXCEPT !.state = "running", !.leaseOwner = w, !.expired = FALSE,
              !.attempts = @ + 1]

Settled(r, s) ==
    [r EXCEPT !.state = s, !.leaseOwner = None, !.expired = FALSE, !.finished = TRUE]

Succeeded(r) == [Settled(r, "succeeded") EXCEPT !.completedSteps = Steps]

\* Mutant: one retry too many.
FailedAttemptOffByOne(r, max) ==
    IF r.attempts > max
    THEN Settled(r, "failed")
    ELSE [r EXCEPT !.state = "queued", !.leaseOwner = None, !.expired = FALSE,
                   !.due = FALSE, !.finished = FALSE]

FailedAttempt(r, max) ==
    IF r.attempts >= max
    THEN Settled(r, "failed")
    ELSE [r EXCEPT !.state = "queued", !.leaseOwner = None, !.expired = FALSE,
                   !.due = FALSE, !.finished = FALSE]

\* Mutant: shutting down costs the job an attempt.
ReleasedWithoutRefund(r) ==
    [r EXCEPT !.state = "queued", !.leaseOwner = None, !.expired = FALSE, !.due = TRUE]

Released(r) ==
    [r EXCEPT !.state = "queued", !.leaseOwner = None, !.expired = FALSE, !.due = TRUE,
              !.attempts = IF @ > 0 THEN @ - 1 ELSE 0]

\* Mutant: a handler that skips a step.
SkipsAStep(r) == r.completedSteps + 2

\* The first step of a handler's loop, from the progress that claim() returned.
ResumeStep(r) == r.completedSteps + 1

\* Mutant: whoever is running it, a running job can be claimed.
RunnableIgnoringLease(j) ==
    /\ jobs[j].attempts < MaxAttempts[j]
    /\ \/ jobs[j].state = "queued" /\ jobs[j].due
       \/ jobs[j].state = "running"

\* The rows claim() selects from ...
Runnable(j) ==
    /\ jobs[j].attempts < MaxAttempts[j]
    /\ \/ jobs[j].state = "queued" /\ jobs[j].due
       \/ jobs[j].state = "running" /\ jobs[j].expired

\* ... and the ones its ORDER BY can put first (runAt, the tie-break, is abstracted).
Candidate(j) ==
    /\ Runnable(j)
    /\ \A k \in Jobs : Runnable(k) => Priority[k] <= Priority[j]

\* Mutant: the sweep waits for an attempt that claim() will never make.
ExhaustedTooLate(j) ==
    /\ jobs[j].state = "running" /\ jobs[j].expired
    /\ jobs[j].attempts > MaxAttempts[j]

\* The rows sweepExhausted() fails.
Exhausted(j) ==
    /\ jobs[j].state = "running" /\ jobs[j].expired
    /\ jobs[j].attempts >= MaxAttempts[j]

Swept == [j \in Jobs |-> IF Exhausted(j) THEN Settled(jobs[j], "failed") ELSE jobs[j]]

-----------------------------------------------------------------------------
(* The API and the clock. *)

Enqueue(j) ==
    /\ jobs[j].state = "absent"
    /\ \E due \in BOOLEAN : jobs' = [jobs EXCEPT ![j] = Enqueued(due)]
    /\ UNCHANGED <<phase, ticking, inFlight, exec, performed>>

CancelQueued(j) ==
    /\ jobs[j].state = "queued"
    /\ jobs' = [jobs EXCEPT ![j].state = "cancelled", ![j].cancelRequested = TRUE,
                            ![j].finished = TRUE]
    /\ UNCHANGED <<phase, ticking, inFlight, exec, performed>>

CancelRunning(j) ==
    /\ jobs[j].state = "running"
    /\ jobs' = [jobs EXCEPT ![j].cancelRequested = TRUE]
    /\ UNCHANGED <<phase, ticking, inFlight, exec, performed>>

RequestCancel(j) == CancelQueued(j) \/ CancelRunning(j)

BackoffElapses(j) ==
    /\ jobs[j].state = "queued" /\ ~jobs[j].due
    /\ jobs' = [jobs EXCEPT ![j].due = TRUE]
    /\ UNCHANGED <<phase, ticking, inFlight, exec, performed>>

\* A lease nobody renews: its owner is gone, or no longer runs the job.
Orphaned(j) ==
    /\ jobs[j].state = "running"
    /\ \A e \in Execs : exec[e].pc \in Live /\ exec[e].j = j => exec[e].w # jobs[j].leaseOwner

LeaseExpires(j) ==
    /\ jobs[j].state = "running" /\ ~jobs[j].expired
    /\ Stalls \/ Orphaned(j)
    /\ jobs' = [jobs EXCEPT ![j].expired = TRUE]
    /\ UNCHANGED <<phase, ticking, inFlight, exec, performed>>

-----------------------------------------------------------------------------
(* The worker process. *)

\* The event loop of w is free to run its next timer or I/O callback.
Turn(w) ==
    /\ phase[w] \in {"running", "stopping"}
    /\ ~ticking[w]
    /\ \A e \in Execs : exec[e].pc \in {"start", "done", "unwound"} => exec[e].w # w

\* start() ends with a first tick(), which begins with sweepExhausted().
Start(w) ==
    /\ phase[w] = "unborn"
    /\ phase' = [phase EXCEPT ![w] = "running"]
    /\ jobs' = Swept
    /\ ticking' = [ticking EXCEPT ![w] = TRUE]
    /\ UNCHANGED <<inFlight, exec, performed>>

Tick(w) ==
    /\ Turn(w) /\ phase[w] = "running"
    /\ jobs' = Swept
    /\ ticking' = [ticking EXCEPT ![w] = TRUE]
    /\ UNCHANGED <<phase, inFlight, exec, performed>>

HasRoom(w) == Cardinality({j \in Jobs : inFlight[w][j] # None}) < Concurrency

\* claim(), then execute() up to the registry lookup.
Claim(w, j, e) ==
    /\ ticking[w] /\ HasRoom(w)
    /\ \A f \in Execs : exec[f].pc = "start" => exec[f].w # w
    /\ Candidate(j)
    /\ exec[e].pc = "free"
    /\ jobs' = [jobs EXCEPT ![j] = Claimed(jobs[j], w)]
    /\ inFlight' = [inFlight EXCEPT ![w][j] = e]
    /\ exec' = [exec EXCEPT ![e] = [pc |-> "start", w |-> w, j |-> j,
                                    step |-> ResumeStep(jobs[j]), aborted |-> FALSE]]
    /\ UNCHANGED <<phase, ticking, performed>>

\* The loop ends: no room, or claim() returned null.
TickEnds(w) ==
    /\ ticking[w]
    /\ \A f \in Execs : exec[f].pc = "start" => exec[f].w # w
    /\ ~HasRoom(w) \/ \A j \in Jobs : ~Runnable(j)
    /\ ticking' = [ticking EXCEPT ![w] = FALSE]
    /\ UNCHANGED <<jobs, phase, inFlight, exec, performed>>

\* SIGTERM.  Some other instance is up or will be: the container is restarted.
Stop(w) ==
    /\ Turn(w) /\ phase[w] = "running"
    /\ \E v \in Workers \ {w} : phase[v] \in {"unborn", "running"}
    /\ phase' = [phase EXCEPT ![w] = "stopping"]
    /\ exec' = [e \in Execs |->
                  IF exec[e].pc # "free" /\ exec[e].w = w /\ inFlight[w][exec[e].j] = e
                  THEN [exec[e] EXCEPT !.aborted = TRUE] ELSE exec[e]]
    /\ UNCHANGED <<jobs, ticking, inFlight, performed>>

\* The memory of process w is gone; its leases are not.
Vanish(w) ==
    /\ phase' = [phase EXCEPT ![w] = "dead"]
    /\ ticking' = [ticking EXCEPT ![w] = FALSE]
    /\ inFlight' = [inFlight EXCEPT ![w] = [j \in Jobs |-> None]]
    /\ exec' = [e \in Execs |->
                  IF exec[e].pc # "free" /\ exec[e].w = w THEN Free ELSE exec[e]]
    /\ UNCHANGED <<jobs, performed>>

\* stop() returns once nothing is in flight, or after its ten-second deadline.
Exit(w) == phase[w] = "stopping" /\ Turn(w) /\ Vanish(w)

Crash(w) ==
    /\ phase[w] \in {"running", "stopping"}
    /\ \E v \in Workers \ {w} : phase[v] \in {"unborn", "running"}
    /\ Vanish(w)

-----------------------------------------------------------------------------
(* One execution: execute(), its heartbeat timer, and the handler's loop. *)

Owns(e) == jobs[exec[e].j].leaseOwner = exec[e].w

\* The finally block: by job id, whichever execution the entry belongs to.
Unwind(e) ==
    /\ exec' = [exec EXCEPT ![e] = Free]
    /\ inFlight' = [inFlight EXCEPT ![exec[e].w][exec[e].j] = None]

\* Still inside the tick: validation, then the handler up to its first await.
Begin(e) ==
    /\ exec[e].pc = "start"
    /\ LET j == exec[e].j IN
       IF j \in Poison
       THEN /\ jobs' = IF Owns(e) THEN [jobs EXCEPT ![j] = Settled(jobs[j], "failed")] ELSE jobs
            /\ exec' = [exec EXCEPT ![e].pc = "unwound"]
       ELSE /\ exec' = [exec EXCEPT ![e].pc = IF exec[e].step > Steps THEN "done" ELSE "work"]
            /\ UNCHANGED jobs
    /\ UNCHANGED <<phase, ticking, inFlight, performed>>

Unwound(e) ==
    /\ exec[e].pc = "unwound" /\ ~ticking[exec[e].w]
    /\ Unwind(e)
    /\ UNCHANGED <<jobs, phase, ticking, performed>>

\* The timer of setInterval in execute().
Heartbeat(e) ==
    /\ exec[e].pc = "work" /\ Turn(exec[e].w)
    /\ LET j == exec[e].j
           held == Owns(e) /\ jobs[j].state = "running"
       IN /\ jobs' = IF held THEN [jobs EXCEPT ![j].expired = FALSE] ELSE jobs
          /\ exec' = [exec EXCEPT ![e].aborted = @ \/ ~held \/ jobs[j].cancelRequested]
    /\ UNCHANGED <<phase, ticking, inFlight, performed>>

\* Mutant: any aborted execution cancels its job.
AbortMeansCancelled(e, rows) ==
    IF rows[exec[e].j].leaseOwner = exec[e].w
    THEN [rows EXCEPT ![exec[e].j] = Settled(rows[exec[e].j], "cancelled")]
    ELSE rows

\* handleFailure() on a JobCancelledError, on rows that already hold the step's checkpoint.
AfterCancelledError(e, rows) ==
    LET j == exec[e].j
        w == exec[e].w
        r == rows[j]
        held == r.leaseOwner = w /\ r.state = "running"
        wasCancelled == r.state = "cancelled" \/ (held /\ r.cancelRequested)
    IN IF wasCancelled /\ phase[w] # "stopping"
       THEN IF r.leaseOwner = w THEN [rows EXCEPT ![j] = Settled(r, "cancelled")] ELSE rows
       ELSE IF held THEN [rows EXCEPT ![j] = Released(r)] ELSE rows

\* The abort signal rejects the promise the handler is waiting for.
Interrupted(e) ==
    /\ exec[e].pc = "work" /\ Turn(exec[e].w)
    /\ exec[e].aborted
    /\ jobs' = AfterCancelledError(e, jobs)
    /\ Unwind(e)
    /\ UNCHANGED <<phase, ticking, performed>>

\* The work of the step throws: queue.fail().
StepFails(e) ==
    /\ exec[e].pc = "work" /\ Turn(exec[e].w)
    /\ LET j == exec[e].j IN
       jobs' = IF Owns(e) THEN [jobs EXCEPT ![j] = FailedAttempt(jobs[j], MaxAttempts[j])]
               ELSE jobs
    /\ Unwind(e)
    /\ UNCHANGED <<phase, ticking, performed>>

\* Mutants: the checkpoint counts the step about to start; it is not fenced by the lease.
CheckpointedEarly(e) ==
    IF Owns(e) THEN [jobs EXCEPT ![exec[e].j].completedSteps = exec[e].step + 1] ELSE jobs
CheckpointedUnfenced(e) == [jobs EXCEPT ![exec[e].j].completedSteps = exec[e].step]

\* The row after checkpoint(): guarded by the owner, not by the state.
Checkpointed(e) ==
    IF Owns(e) THEN [jobs EXCEPT ![exec[e].j].completedSteps = exec[e].step] ELSE jobs

\* The work of the step is done: checkpoint, then throwIfCancelled() of the next one.
StepDone(e) ==
    /\ exec[e].pc = "work" /\ Turn(exec[e].w)
    /\ performed' = [performed EXCEPT ![exec[e].j] = @ \cup {exec[e].step}]
    /\ \/ /\ exec[e].step = Steps
          /\ jobs' = Checkpointed(e)
          /\ exec' = [exec EXCEPT ![e].pc = "done"]
          /\ UNCHANGED inFlight
       \/ /\ exec[e].step < Steps /\ ~exec[e].aborted
          /\ jobs' = Checkpointed(e)
          /\ exec' = [exec EXCEPT ![e].step = @ + 1]
          /\ UNCHANGED inFlight
       \/ /\ exec[e].step < Steps /\ exec[e].aborted
          /\ jobs' = AfterCancelledError(e, Checkpointed(e))
          /\ Unwind(e)
    /\ UNCHANGED <<phase, ticking>>

\* The handler returned: queue.succeed(), in the continuation of the await.
Return(e) ==
    /\ exec[e].pc = "done" /\ ~ticking[exec[e].w]
    /\ LET j == exec[e].j IN
       jobs' = IF Owns(e) THEN [jobs EXCEPT ![j] = Succeeded(jobs[j])] ELSE jobs
    /\ Unwind(e)
    /\ UNCHANGED <<phase, ticking, performed>>

ExecStep(e) ==
    \/ Begin(e) \/ Unwound(e) \/ Heartbeat(e) \/ Interrupted(e)
    \/ StepFails(e) \/ StepDone(e) \/ Return(e)

-----------------------------------------------------------------------------

Next ==
    \/ \E j \in Jobs : Enqueue(j) \/ RequestCancel(j) \/ BackoffElapses(j) \/ LeaseExpires(j)
    \/ \E w \in Workers : Start(w) \/ Tick(w) \/ TickEnds(w) \/ Stop(w) \/ Exit(w) \/ Crash(w)
    \/ \E w \in Workers, j \in Jobs, e \in Execs : Claim(w, j, e)
    \/ \E e \in Execs : ExecStep(e)

Spec == Init /\ [][Next]_vars

(***************************************************************************)
(* Fairness: the timers of a live process fire (tick, heartbeat), promises *)
(* settle (the work of a step ends, one way or the other), the clock moves *)
(* on, and the container runtime starts the process again (docker-compose: *)
(* restart: unless-stopped).  Enqueueing, cancelling, stopping and         *)
(* crashing are never assumed to happen, nor is a stall of a live process. *)
(* Callbacks of one process take turns, so theirs is strong fairness: the  *)
(* event loop runs every ready callback before it comes round again, and a *)
(* tick that keeps firing cannot shut the others out.                      *)
(***************************************************************************)
Fairness ==
    /\ \A w \in Workers : /\ WF_vars(Start(w)) /\ WF_vars(TickEnds(w))
                          /\ WF_vars(\E j \in Jobs, e \in Execs : Claim(w, j, e))
                          /\ SF_vars(Tick(w)) /\ SF_vars(Exit(w))
    /\ \A e \in Execs : /\ WF_vars(Begin(e)) /\ WF_vars(Unwound(e)) /\ WF_vars(Return(e))
                        /\ SF_vars(StepDone(e) \/ StepFails(e) \/ Interrupted(e))
                        /\ SF_vars(Heartbeat(e))
    /\ \A j \in Jobs : WF_vars(BackoffElapses(j)) /\ WF_vars(LeaseExpires(j) /\ Orphaned(j))

FairSpec == Spec /\ Fairness

-----------------------------------------------------------------------------
(* Safety, with or without stalls. *)

\* A row is leased exactly while it is running, and only a lease can be expired: a lost
\* or repeated succeed/fail/release/cancel never leaves a lease behind (queue.ts guards
\* every settling update by leaseOwner).
LeasedIffRunning ==
    \A j \in Jobs : /\ jobs[j].leaseOwner # None <=> jobs[j].state = "running"
                    /\ jobs[j].expired => jobs[j].state = "running"

\* No job is stranded: a queued one always has an attempt left, so claim() will select it
\* when it is due, and a running one is within its budget, so that once its lease has
\* expired either claim() or sweepExhausted() picks it up (queue.ts:308-314).
NoneStranded ==
    \A j \in Jobs : /\ jobs[j].state = "queued" => jobs[j].attempts < MaxAttempts[j]
                    /\ jobs[j].state = "running" => jobs[j].attempts \in 1..MaxAttempts[j]

\* A checkpoint never claims work that was not done, however many executions of the job
\* were interrupted, resumed or ran side by side; and a job is only reported succeeded
\* when every one of its steps was done.
ResumeIsSound ==
    \A j \in Jobs : /\ 1..jobs[j].completedSteps \subseteq performed[j]
                    /\ jobs[j].state = "succeeded" => performed[j] = 1..Steps

\* finishedAt is set exactly on settled rows, and a job ends up cancelled only if somebody
\* asked for it: neither a lost lease nor a shutdown is mistaken for a user's cancel
\* (worker.ts:186-198).
OutcomeIsExplained ==
    \A j \in Jobs : /\ jobs[j].finished <=> jobs[j].state \in Terminal
                    /\ jobs[j].state = "cancelled" => jobs[j].cancelRequested

\* A settled job stays settled, with the progress it had: a stale execution that comes back
\* after its lease was taken over cannot revive or overwrite it.
SettledForGood ==
    [][\A j \in Jobs : jobs[j].state \in Terminal =>
          jobs'[j].state = jobs[j].state /\ jobs'[j].completedSteps = jobs[j].completedSteps]_vars

\* The queue implements the life cycle its callers rely on.
Lifecycle == INSTANCE JobLifecycle
    WITH state <- [j \in Jobs |-> jobs[j].state], attempts <- [j \in Jobs |-> jobs[j].attempts]
LifecycleSpec == Lifecycle!Spec

-----------------------------------------------------------------------------
(* Safety as long as a live process renews its leases in time (~Stalls). *)

\* At most one execution of a job is alive in all the processes together.
OneExecution ==
    \A d, e \in Execs :
        exec[d].pc \in Live /\ exec[e].pc \in Live /\ exec[d].j = exec[e].j => d = e

-----------------------------------------------------------------------------
(* Liveness. *)

\* Every job that was enqueued is settled in the end, whatever crashes, shutdowns, failed
\* attempts and cancellations it meets on the way.
EveryJobSettles ==
    \A j \in Jobs : jobs[j].state = "queued" ~> jobs[j].state \in Terminal
=============================================================================
