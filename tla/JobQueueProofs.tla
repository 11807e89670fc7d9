--------------------------- MODULE JobQueueProofs ---------------------------
(***************************************************************************)
(* Proofs about JobQueue for every set of jobs, workers and executions,    *)
(* every attempt budget and every number of steps.                         *)
(*                                                                         *)
(* The argument is about one row at a time.  RowInv is what each row       *)
(* satisfies, RowStep what one transaction may do to it; the lemmas of the *)
(* first part show that every update of queue.ts takes a row satisfying    *)
(* RowInv to one that does, by a RowStep.  The type invariant, the safety  *)
(* invariants on rows and the refinement of JobLifecycle follow from that. *)
(*                                                                         *)
(* The second part is about executions: at most one is alive per job as    *)
(* long as live processes renew their leases in time, and a checkpoint     *)
(* never claims work that was not done, stalls or not.                     *)
(***************************************************************************)
EXTENDS JobQueue, TLAPS

RowInv(r, max) ==
    /\ r \in Row
    /\ r.leaseOwner # None <=> r.state = "running"
    /\ r.expired => r.state = "running"
    /\ r.state = "queued" => r.attempts < max
    /\ r.state = "running" => r.attempts \in 1..max
    /\ r.finished <=> r.state \in Terminal
    /\ r.state = "cancelled" => r.cancelRequested

RowStep(r, s, max) ==
    /\ r.state \in Terminal => s.state = r.state /\ s.completedSteps = r.completedSteps
    /\ \/ s.state = r.state /\ s.attempts = r.attempts
       \/ r.state = "absent" /\ s.state = "queued" /\ s.attempts = 0
       \/ /\ r.state \in {"queued", "running"} /\ s.state = "running"
          /\ r.attempts < max /\ s.attempts = r.attempts + 1
       \/ r.state = "running" /\ s.state = "queued" /\ r.attempts > 0 /\ s.attempts = r.attempts - 1
       \/ r.state = "running" /\ s.state = "queued" /\ r.attempts < max /\ s.attempts = r.attempts
       \/ r.state = "running" /\ s.state \in Terminal /\ s.attempts = r.attempts
       \/ r.state = "queued" /\ s.state = "cancelled" /\ s.attempts = r.attempts

WorkInRange == \A e \in Execs : exec[e].pc = "work" => exec[e].step \in 1..Steps

IInv ==
    /\ TypeOK
    /\ WorkInRange
    /\ \A j \in Jobs : RowInv(jobs[j], MaxAttempts[j])

-----------------------------------------------------------------------------
(* Every update of a row. *)

LEMMA NoRowTyped == NoRow \in Row
  BY StepsAssumption DEF NoRow, Row

LEMMA EnqueuedRow ==
    ASSUME NEW max \in Nat \ {0}, NEW due \in BOOLEAN
    PROVE  RowInv(Enqueued(due), max) /\ RowStep(NoRow, Enqueued(due), max)
  <1> DEFINE s == Enqueued(due)
  <1>1. s \in Row
    BY NoRowTyped DEF Enqueued, Row
  <1>2. /\ s.state = "queued" /\ s.attempts = 0 /\ s.leaseOwner = None
        /\ s.expired = FALSE /\ s.finished = FALSE /\ NoRow.state = "absent"
    BY DEF Enqueued, NoRow
  <1> QED  BY <1>1, <1>2 DEF RowInv, RowStep, Terminal

LEMMA ClaimedRow ==
    ASSUME NEW max \in Nat \ {0}, NEW r, RowInv(r, max), NEW w \in Workers,
           r.attempts < max, r.state \in {"queued", "running"}
    PROVE  RowInv(Claimed(r, w), max) /\ RowStep(r, Claimed(r, w), max)
  <1> DEFINE s == Claimed(r, w)
  <1>1. r \in Row /\ r.attempts + 1 \in Nat /\ ~r.finished
    BY DEF RowInv, Row, Terminal
  <1>2. s \in Row
    BY <1>1 DEF Claimed, Row
  <1>3. /\ s.state = "running" /\ s.leaseOwner = w /\ s.expired = FALSE
        /\ s.attempts = r.attempts + 1 /\ s.finished = r.finished
    BY <1>1 DEF Claimed, Row
  <1>4. s.attempts \in 1..max /\ r.attempts \in Nat
    BY <1>1, <1>3 DEF Row
  <1> QED  BY <1>1, <1>2, <1>3, <1>4, NoneAssumption DEF RowInv, RowStep, Terminal

LEMMA SettledRow ==
    ASSUME NEW max \in Nat \ {0}, NEW r, RowInv(r, max), r.state = "running",
           NEW s \in Terminal, s = "cancelled" => r.cancelRequested
    PROVE  RowInv(Settled(r, s), max) /\ RowStep(r, Settled(r, s), max)
  BY NoneAssumption DEF RowInv, RowStep, Settled, Row, Terminal

LEMMA SucceededRow ==
    ASSUME NEW max \in Nat \ {0}, NEW r, RowInv(r, max), r.state = "running"
    PROVE  RowInv(Succeeded(r), max) /\ RowStep(r, Succeeded(r), max)
  <1> DEFINE s == Succeeded(r)
  <1>1. r \in Row
    BY DEF RowInv
  <1>2. s \in Row
    <2>1. Settled(r, "succeeded") \in Row
      BY <1>1 DEF Settled, Row, Terminal
    <2>2. Steps \in 0..Steps
      BY StepsAssumption
    <2> QED  BY <2>1, <2>2 DEF Succeeded, Row
  <1>3. /\ s.state = "succeeded" /\ s.leaseOwner = None /\ s.expired = FALSE
        /\ s.attempts = r.attempts /\ s.finished = TRUE
    BY <1>1 DEF Succeeded, Settled, Row
  <1> QED  BY <1>2, <1>3 DEF RowInv, RowStep, Terminal

LEMMA FailedAttemptRow ==
    ASSUME NEW max \in Nat \ {0}, NEW r, RowInv(r, max), r.state = "running"
    PROVE  RowInv(FailedAttempt(r, max), max) /\ RowStep(r, FailedAttempt(r, max), max)
  <1> DEFINE s == FailedAttempt(r, max)
  <1>1. r \in Row /\ r.attempts \in Nat
    BY DEF RowInv, Row
  <1>2. CASE r.attempts >= max
    BY <1>2, SettledRow DEF FailedAttempt, Terminal
  <1>3. CASE ~(r.attempts >= max)
    <2>1. s = [r EXCEPT !.state = "queued", !.leaseOwner = None, !.expired = FALSE,
                        !.due = FALSE, !.finished = FALSE]
      BY <1>3 DEF FailedAttempt
    <2>2. s \in Row
      BY <1>1, <2>1 DEF Row
    <2>3. /\ s.state = "queued" /\ s.leaseOwner = None /\ s.expired = FALSE
          /\ s.attempts = r.attempts /\ s.finished = FALSE
      BY <1>1, <2>1 DEF Row
    <2> QED  BY <1>1, <1>3, <2>2, <2>3 DEF RowInv, RowStep, Terminal
  <1> QED  BY <1>2, <1>3

LEMMA ReleasedRow ==
    ASSUME NEW max \in Nat \ {0}, NEW r, RowInv(r, max), r.state = "running"
    PROVE  RowInv(Released(r), max) /\ RowStep(r, Released(r), max)
  <1> DEFINE s == Released(r)
  <1>1. r \in Row /\ r.attempts \in 1..max /\ ~r.finished
    BY DEF RowInv, Terminal
  <1>2. r.attempts > 0 /\ r.attempts - 1 \in Nat /\ r.attempts - 1 < max
    BY <1>1
  <1>3. s = [r EXCEPT !.state = "queued", !.leaseOwner = None, !.expired = FALSE, !.due = TRUE,
                      !.attempts = r.attempts - 1]
    BY <1>1, <1>2 DEF Released, Row
  <1>4. s \in Row
    BY <1>1, <1>2, <1>3 DEF Row
  <1>5. /\ s.state = "queued" /\ s.leaseOwner = None /\ s.expired = FALSE
        /\ s.attempts = r.attempts - 1 /\ s.finished = r.finished
    BY <1>1, <1>3 DEF Row
  <1> QED  BY <1>1, <1>2, <1>4, <1>5 DEF RowInv, RowStep, Terminal

\* Updates that leave the state of the row, its lease and its attempts alone.
LEMMA RestingRow ==
    ASSUME NEW max \in Nat \ {0}, NEW r, RowInv(r, max)
    PROVE  /\ RowStep(r, r, max)
           /\ r.state = "running" =>
                /\ RowInv([r EXCEPT !.cancelRequested = TRUE], max)
                /\ RowStep(r, [r EXCEPT !.cancelRequested = TRUE], max)
           /\ RowInv([r EXCEPT !.due = TRUE], max) /\ RowStep(r, [r EXCEPT !.due = TRUE], max)
           /\ RowInv([r EXCEPT !.expired = FALSE], max)
           /\ RowStep(r, [r EXCEPT !.expired = FALSE], max)
           /\ r.state = "running" =>
                /\ RowInv([r EXCEPT !.expired = TRUE], max)
                /\ RowStep(r, [r EXCEPT !.expired = TRUE], max)
           /\ \A n \in 0..Steps : r.state = "running" =>
                /\ RowInv([r EXCEPT !.completedSteps = n], max)
                /\ RowStep(r, [r EXCEPT !.completedSteps = n], max)
           /\ r.state = "queued" =>
                /\ RowInv([r EXCEPT !.state = "cancelled", !.cancelRequested = TRUE,
                                    !.finished = TRUE], max)
                /\ RowStep(r, [r EXCEPT !.state = "cancelled", !.cancelRequested = TRUE,
                                        !.finished = TRUE], max)
  BY DEF RowInv, RowStep, Row, Terminal

-----------------------------------------------------------------------------
(* Every step of the specification. *)

RowsStep ==
    /\ jobs' \in [Jobs -> Row]
    /\ \A j \in Jobs : /\ RowInv(jobs'[j], MaxAttempts[j])
                      /\ RowStep(jobs[j], jobs'[j], MaxAttempts[j])

LEMMA Budget == ASSUME NEW j \in Jobs PROVE MaxAttempts[j] \in Nat \ {0}
  BY MaxAttemptsAssumption

LEMMA NoRowChanges ==
    ASSUME IInv, jobs' = jobs
    PROVE  RowsStep
  <1> SUFFICES ASSUME NEW j \in Jobs
               PROVE  RowStep(jobs[j], jobs[j], MaxAttempts[j])
    BY DEF RowsStep, IInv, TypeOK
  <1> QED  BY Budget, RestingRow DEF IInv

LEMMA OneRowChanges ==
    ASSUME IInv, NEW j \in Jobs, NEW s, RowInv(s, MaxAttempts[j]),
           RowStep(jobs[j], s, MaxAttempts[j]), jobs' = [jobs EXCEPT ![j] = s]
    PROVE  RowsStep
  <1>1. jobs \in [Jobs -> Row] /\ s \in Row
    BY DEF IInv, TypeOK, RowInv
  <1>2. jobs' \in [Jobs -> Row] /\ jobs'[j] = s /\ \A k \in Jobs : k # j => jobs'[k] = jobs[k]
    BY <1>1
  <1>3. ASSUME NEW k \in Jobs
        PROVE  RowInv(jobs'[k], MaxAttempts[k]) /\ RowStep(jobs[k], jobs'[k], MaxAttempts[k])
    <2>1. CASE k = j
      BY <1>2, <2>1
    <2>2. CASE k # j
      <3>1. RowInv(jobs[k], MaxAttempts[k]) /\ jobs'[k] = jobs[k]
        BY <1>2, <2>2 DEF IInv
      <3> QED  BY <3>1, Budget, RestingRow
    <2> QED  BY <2>1, <2>2
  <1> QED  BY <1>2, <1>3 DEF RowsStep

LEMMA SweepRows ==
    ASSUME IInv, jobs' = Swept
    PROVE  RowsStep
  <1>1. jobs' = [j \in Jobs |-> IF Exhausted(j) THEN Settled(jobs[j], "failed") ELSE jobs[j]]
    BY DEF Swept
  <1>2. ASSUME NEW j \in Jobs
        PROVE  RowInv(jobs'[j], MaxAttempts[j]) /\ RowStep(jobs[j], jobs'[j], MaxAttempts[j])
    <2>1. RowInv(jobs[j], MaxAttempts[j]) /\ MaxAttempts[j] \in Nat \ {0}
      BY Budget DEF IInv
    <2>2. CASE Exhausted(j)
      <3>1. jobs'[j] = Settled(jobs[j], "failed") /\ jobs[j].state = "running"
        BY <1>1, <2>2 DEF Exhausted
      <3> QED  BY <2>1, <3>1, SettledRow DEF Terminal
    <2>3. CASE ~Exhausted(j)
      <3>1. jobs'[j] = jobs[j]
        BY <1>1, <2>3
      <3> QED  BY <2>1, <3>1, RestingRow
    <2> QED  BY <2>2, <2>3
  <1>3. jobs' \in [Jobs -> Row]
    BY <1>1, <1>2 DEF RowInv
  <1> QED  BY <1>2, <1>3 DEF RowsStep

\* A running execution is a record of Execution, not a free slot.
LEMMA BusyExec ==
    ASSUME IInv, NEW e \in Execs, exec[e].pc # "free"
    PROVE  exec[e] \in Execution
  BY DEF IInv, TypeOK, Free

\* Whoever owns a row finds it running: the lease is gone the moment the row is settled.
LEMMA OwnedIsRunning ==
    ASSUME IInv, NEW j \in Jobs, NEW w \in Workers, jobs[j].leaseOwner = w
    PROVE  jobs[j].state = "running"
  BY NoneAssumption DEF IInv, RowInv

LEMMA CheckpointRows ==
    ASSUME IInv, NEW e \in Execs, exec[e].pc = "work", jobs' = Checkpointed(e)
    PROVE  RowsStep
  <1>1. exec[e] \in Execution /\ exec[e].step \in 0..Steps
    BY BusyExec, StepsAssumption DEF IInv, WorkInRange
  <1>2. exec[e].j \in Jobs /\ exec[e].w \in Workers
    BY <1>1 DEF Execution
  <1>3. CASE Owns(e)
    <2> DEFINE j == exec[e].j
               s == [jobs[j] EXCEPT !.completedSteps = exec[e].step]
    <2>1. jobs[j].state = "running"
      BY <1>2, <1>3, OwnedIsRunning DEF Owns
    <2>2. RowInv(s, MaxAttempts[j]) /\ RowStep(jobs[j], s, MaxAttempts[j])
      BY <1>1, <1>2, <2>1, Budget, RestingRow DEF IInv
    <2>3. jobs' = [jobs EXCEPT ![j] = s]
      BY <1>3 DEF Checkpointed
    <2> HIDE DEF s
    <2> QED  BY <1>2, <2>2, <2>3, OneRowChanges
  <1>4. CASE ~Owns(e)
    BY <1>4, NoRowChanges DEF Checkpointed
  <1> QED  BY <1>3, <1>4

\* handleFailure() on the current row and on the one that was just checkpointed.
LEMMA CancelledErrorRows ==
    ASSUME IInv, NEW e \in Execs, exec[e].pc = "work", NEW rows,
           rows = jobs \/ rows = Checkpointed(e), jobs' = AfterCancelledError(e, rows)
    PROVE  RowsStep
  <1> DEFINE j == exec[e].j
             w == exec[e].w
             r == rows[j]
             max == MaxAttempts[j]
  <1>1. exec[e] \in Execution /\ exec[e].step \in 0..Steps
    BY BusyExec, StepsAssumption DEF IInv, WorkInRange
  <1>2. j \in Jobs /\ w \in Workers /\ max \in Nat \ {0}
    BY <1>1, MaxAttemptsAssumption DEF Execution
  <1>3. RowInv(jobs[j], max) /\ jobs \in [Jobs -> Row]
    BY <1>2 DEF IInv, TypeOK
  \* Only an owned row is checkpointed, and what changed in it is the progress alone.
  <1>4. /\ RowInv(r, max)
        /\ r.state = jobs[j].state /\ r.attempts = jobs[j].attempts
        /\ r.leaseOwner = jobs[j].leaseOwner
        /\ r.leaseOwner # w => rows = jobs
        /\ \A x : [rows EXCEPT ![j] = x] = [jobs EXCEPT ![j] = x]
    <2>1. CASE rows = jobs
      BY <1>3, <2>1
    <2>2. CASE rows = Checkpointed(e) /\ ~Owns(e)
      BY <1>3, <2>2 DEF Checkpointed
    <2>3. CASE rows = Checkpointed(e) /\ Owns(e)
      <3>1. rows = [jobs EXCEPT ![j].completedSteps = exec[e].step] /\ jobs[j].state = "running"
        BY <1>2, <2>3, OwnedIsRunning DEF Checkpointed, Owns
      <3>2. r = [jobs[j] EXCEPT !.completedSteps = exec[e].step]
        BY <1>2, <1>3, <3>1
      <3>3. RowInv(r, max)
        BY <1>1, <1>2, <1>3, <3>1, <3>2, RestingRow
      <3>4. r.state = jobs[j].state /\ r.attempts = jobs[j].attempts
            /\ r.leaseOwner = jobs[j].leaseOwner
        BY <1>2, <1>3, <3>2 DEF Row
      <3> QED  BY <1>2, <1>3, <2>3, <3>1, <3>3, <3>4 DEF Owns
    <2> QED  BY <2>1, <2>2, <2>3
  <1>5. r.leaseOwner = w => r.state = "running" /\ r.state # "cancelled"
    BY <1>2, <1>4, NoneAssumption DEF RowInv
  <1>6. PICK x : /\ \/ x = Settled(r, "cancelled") /\ r.leaseOwner = w /\ r.cancelRequested
                    \/ x = Released(r) /\ r.leaseOwner = w
                    \/ x = r /\ r.leaseOwner # w
                 /\ \/ r.leaseOwner = w /\ jobs' = [rows EXCEPT ![j] = x]
                    \/ r.leaseOwner # w /\ jobs' = rows
    BY <1>5 DEF AfterCancelledError
  <1>7. CASE r.leaseOwner # w
    BY <1>4, <1>6, <1>7, NoRowChanges
  <1>8. CASE r.leaseOwner = w
    <2>1. jobs' = [jobs EXCEPT ![j] = x]
      BY <1>4, <1>6, <1>8
    <2>2. RowInv(x, max) /\ RowStep(r, x, max)
      BY <1>2, <1>4, <1>5, <1>6, <1>8, SettledRow, ReleasedRow DEF Terminal
    <2>3. RowStep(jobs[j], x, max)
      BY <1>4, <1>5, <1>8, <2>2 DEF RowStep, Terminal
    <2> QED  BY <1>2, <2>1, <2>2, <2>3, OneRowChanges
  <1> QED  BY <1>7, <1>8

LEMMA EveryStepOnRows ==
    ASSUME IInv, [Next]_vars
    PROVE  RowsStep
  <1>1. CASE UNCHANGED vars
    BY <1>1, NoRowChanges DEF vars
  <1>2. ASSUME NEW j \in Jobs, Enqueue(j) PROVE RowsStep
    <2>1. PICK due \in BOOLEAN : jobs' = [jobs EXCEPT ![j] = Enqueued(due)]
      BY <1>2 DEF Enqueue
    <2>2. jobs[j].state = "absent" /\ RowInv(jobs[j], MaxAttempts[j])
      BY <1>2 DEF Enqueue, IInv
    <2>3. RowInv(Enqueued(due), MaxAttempts[j]) /\ RowStep(NoRow, Enqueued(due), MaxAttempts[j])
      BY Budget, EnqueuedRow
    <2>4. Enqueued(due).state = "queued" /\ Enqueued(due).attempts = 0
      BY DEF Enqueued, NoRow
    <2>5. RowStep(jobs[j], Enqueued(due), MaxAttempts[j])
      BY <2>2, <2>4 DEF RowStep, Terminal
    <2> QED  BY <2>1, <2>3, <2>5, OneRowChanges
  <1>3. ASSUME NEW j \in Jobs, RequestCancel(j) PROVE RowsStep
    <2>1. CASE CancelQueued(j)
      <3> DEFINE s == [jobs[j] EXCEPT !.state = "cancelled", !.cancelRequested = TRUE,
                                      !.finished = TRUE]
      <3>1. RowInv(s, MaxAttempts[j]) /\ RowStep(jobs[j], s, MaxAttempts[j])
        BY <2>1, Budget, RestingRow DEF CancelQueued, IInv
      <3>2. jobs' = [jobs EXCEPT ![j] = s]
        BY <2>1 DEF CancelQueued, IInv, TypeOK
      <3> HIDE DEF s
      <3> QED  BY <3>1, <3>2, OneRowChanges
    <2>2. CASE CancelRunning(j)
      <3> DEFINE s == [jobs[j] EXCEPT !.cancelRequested = TRUE]
      <3>1. RowInv(s, MaxAttempts[j]) /\ RowStep(jobs[j], s, MaxAttempts[j])
        BY <2>2, Budget, RestingRow DEF CancelRunning, IInv
      <3>2. jobs' = [jobs EXCEPT ![j] = s]
        BY <2>2 DEF CancelRunning
      <3> HIDE DEF s
      <3> QED  BY <3>1, <3>2, OneRowChanges
    <2> QED  BY <1>3, <2>1, <2>2 DEF RequestCancel
  <1>4. ASSUME NEW j \in Jobs, BackoffElapses(j) PROVE RowsStep
    <2> DEFINE s == [jobs[j] EXCEPT !.due = TRUE]
    <2>1. RowInv(s, MaxAttempts[j]) /\ RowStep(jobs[j], s, MaxAttempts[j])
      BY Budget, RestingRow DEF IInv
    <2>2. jobs' = [jobs EXCEPT ![j] = s]
      BY <1>4 DEF BackoffElapses
    <2> HIDE DEF s
    <2> QED  BY <2>1, <2>2, OneRowChanges
  <1>5. ASSUME NEW j \in Jobs, LeaseExpires(j) PROVE RowsStep
    <2> DEFINE s == [jobs[j] EXCEPT !.expired = TRUE]
    <2>1. RowInv(s, MaxAttempts[j]) /\ RowStep(jobs[j], s, MaxAttempts[j])
      BY <1>5, Budget, RestingRow DEF LeaseExpires, IInv
    <2>2. jobs' = [jobs EXCEPT ![j] = s]
      BY <1>5 DEF LeaseExpires
    <2> HIDE DEF s
    <2> QED  BY <2>1, <2>2, OneRowChanges
  <1>6. ASSUME NEW w \in Workers, Start(w) \/ Tick(w) PROVE RowsStep
    BY <1>6, SweepRows DEF Start, Tick
  <1>7. ASSUME NEW w \in Workers, TickEnds(w) \/ Stop(w) \/ Exit(w) \/ Crash(w) PROVE RowsStep
    BY <1>7, NoRowChanges DEF TickEnds, Stop, Exit, Crash, Vanish
  <1>8. ASSUME NEW w \in Workers, NEW j \in Jobs, NEW e \in Execs, Claim(w, j, e) PROVE RowsStep
    <2>1. jobs[j].attempts < MaxAttempts[j] /\ jobs[j].state \in {"queued", "running"}
      BY <1>8 DEF Claim, Candidate, Runnable
    <2>2. /\ RowInv(Claimed(jobs[j], w), MaxAttempts[j])
          /\ RowStep(jobs[j], Claimed(jobs[j], w), MaxAttempts[j])
      BY <2>1, Budget, ClaimedRow DEF IInv
    <2> QED  BY <1>8, <2>2, OneRowChanges DEF Claim
  <1>9. ASSUME NEW e \in Execs, ExecStep(e) PROVE RowsStep
    <2> DEFINE j == exec[e].j
    <2>1. exec[e].pc # "free" /\ exec[e] \in Execution /\ j \in Jobs /\ exec[e].w \in Workers
      <3>1. exec[e].pc # "free"
        BY <1>9 DEF ExecStep, Begin, Unwound, Heartbeat, Interrupted, StepFails, StepDone, Return
      <3> QED  BY <3>1, BusyExec DEF Execution
    <2>2. RowInv(jobs[j], MaxAttempts[j]) /\ MaxAttempts[j] \in Nat \ {0}
      BY <2>1, MaxAttemptsAssumption DEF IInv
    <2>3. Owns(e) => jobs[j].state = "running"
      BY <2>1, OwnedIsRunning DEF Owns
    <2>4. CASE Begin(e)
      <3>1. CASE j \in Poison /\ Owns(e)
        BY <2>1, <2>2, <2>3, <2>4, <3>1, SettledRow, OneRowChanges DEF Begin, Terminal
      <3>2. CASE ~(j \in Poison /\ Owns(e))
        BY <2>4, <3>2, NoRowChanges DEF Begin
      <3> QED  BY <3>1, <3>2
    <2>5. CASE Unwound(e)
      BY <2>5, NoRowChanges DEF Unwound
    <2>6. CASE Heartbeat(e)
      <3> DEFINE s == [jobs[j] EXCEPT !.expired = FALSE]
      <3>1. RowInv(s, MaxAttempts[j]) /\ RowStep(jobs[j], s, MaxAttempts[j])
        BY <2>2, RestingRow
      <3>2. jobs' = [jobs EXCEPT ![j] = s] \/ jobs' = jobs
        BY <2>6 DEF Heartbeat
      <3> HIDE DEF s
      <3> QED  BY <2>1, <3>1, <3>2, OneRowChanges, NoRowChanges
    <2>7. CASE Interrupted(e)
      BY <2>7, CancelledErrorRows DEF Interrupted
    <2>8. CASE StepFails(e)
      <3>1. CASE Owns(e)
        BY <2>1, <2>2, <2>3, <2>8, <3>1, FailedAttemptRow, OneRowChanges DEF StepFails
      <3>2. CASE ~Owns(e)
        BY <2>8, <3>2, NoRowChanges DEF StepFails
      <3> QED  BY <3>1, <3>2
    <2>9. CASE StepDone(e)
      BY <2>9, CheckpointRows, CancelledErrorRows DEF StepDone
    <2>10. CASE Return(e)
      <3>1. CASE Owns(e)
        BY <2>1, <2>2, <2>3, <2>10, <3>1, SucceededRow, OneRowChanges DEF Return
      <3>2. CASE ~Owns(e)
        BY <2>10, <3>2, NoRowChanges DEF Return
      <3> QED  BY <3>1, <3>2
    <2> QED
      BY <1>9, <2>4, <2>5, <2>6, <2>7, <2>8, <2>9, <2>10 DEF ExecStep
  <1> QED
    BY <1>1, <1>2, <1>3, <1>4, <1>5, <1>6, <1>7, <1>8, <1>9 DEF Next

-----------------------------------------------------------------------------
(* The rest of the state. *)

\* Executions stay well typed, and those at work stay within the handler's loop.
ExecsOK == exec \in [Execs -> Execution \cup {Free}] /\ WorkInRange

LEMMA ExecStepsTyped ==
    ASSUME IInv, NEW e \in Execs, ExecStep(e)
    PROVE  ExecsOK' /\ inFlight' \in [Workers -> [Jobs -> Execs \cup {None}]]
                   /\ performed' \in [Jobs -> SUBSET (1..Steps)]
  <1>1. exec[e].pc # "free"
    BY DEF ExecStep, Begin, Unwound, Heartbeat, Interrupted, StepFails, StepDone, Return
  <1>2. exec[e] \in Execution /\ exec[e].j \in Jobs /\ exec[e].w \in Workers
    BY <1>1, BusyExec DEF Execution
  <1>3. /\ exec \in [Execs -> Execution \cup {Free}] /\ WorkInRange
        /\ inFlight \in [Workers -> [Jobs -> Execs \cup {None}]]
        /\ performed \in [Jobs -> SUBSET (1..Steps)]
    BY DEF IInv, TypeOK
  \* What can become of execution e.
  <1>4. ASSUME NEW x \in Execution \cup {Free}, x.pc = "work" => x.step \in 1..Steps,
               exec' = [exec EXCEPT ![e] = x]
        PROVE  ExecsOK'
    BY <1>3, <1>4 DEF ExecsOK, WorkInRange
  <1>5. Unwind(e) => ExecsOK' /\ inFlight' \in [Workers -> [Jobs -> Execs \cup {None}]]
    <2> SUFFICES ASSUME Unwind(e)
                 PROVE  ExecsOK' /\ inFlight' \in [Workers -> [Jobs -> Execs \cup {None}]]
      OBVIOUS
    <2>1. Free.pc # "work"
      BY DEF Free
    <2> QED  BY <1>2, <1>3, <1>4, <2>1 DEF Unwind
  <1>6. CASE Begin(e)
    <2> DEFINE x(p) == [exec[e] EXCEPT !.pc = p]
    <2>1. x("unwound") \in Execution /\ x("done") \in Execution /\ x("work") \in Execution
      BY <1>2 DEF Execution
    <2>2. x("unwound").pc = "unwound" /\ x("done").pc = "done" /\ x("work").step = exec[e].step
      BY <1>2 DEF Execution
    <2>3. exec[e].step > Steps \/ exec[e].step \in 1..Steps
      BY <1>2, StepsAssumption DEF Execution
    <2>4. \/ exec' = [exec EXCEPT ![e] = x("unwound")] \/ exec' = [exec EXCEPT ![e] = x("done")]
          \/ exec[e].step \in 1..Steps /\ exec' = [exec EXCEPT ![e] = x("work")]
      BY <1>6, <2>3 DEF Begin
    <2>5. ExecsOK'
      BY <1>4, <2>1, <2>2, <2>4
    <2> QED  BY <1>3, <1>6, <2>5 DEF Begin
  <1>7. CASE Unwound(e) \/ Interrupted(e) \/ StepFails(e) \/ Return(e)
    BY <1>3, <1>5, <1>7 DEF Unwound, Interrupted, StepFails, Return
  <1>8. CASE Heartbeat(e)
    <2>1. PICK b \in BOOLEAN : exec' = [exec EXCEPT ![e] = [exec[e] EXCEPT !.aborted = b]]
      BY <1>2, <1>8 DEF Heartbeat, Execution
    <2>2. /\ [exec[e] EXCEPT !.aborted = b] \in Execution
          /\ [exec[e] EXCEPT !.aborted = b].pc = exec[e].pc
          /\ [exec[e] EXCEPT !.aborted = b].step = exec[e].step
      BY <1>2 DEF Execution
    <2>3. exec[e].pc = "work" => exec[e].step \in 1..Steps
      BY <1>3 DEF WorkInRange
    <2>4. ExecsOK'
      BY <1>4, <2>1, <2>2, <2>3
    <2> QED  BY <1>3, <1>8, <2>4 DEF Heartbeat
  <1>9. CASE StepDone(e)
    <2>1. exec[e].step \in 1..Steps
      BY <1>3, <1>9 DEF StepDone, WorkInRange
    <2>2. performed' \in [Jobs -> SUBSET (1..Steps)]
      BY <1>2, <1>3, <1>9, <2>1 DEF StepDone
    <2>3. CASE exec' = [exec EXCEPT ![e].pc = "done"] /\ UNCHANGED inFlight
      <3>1. [exec[e] EXCEPT !.pc = "done"] \in Execution /\ [exec[e] EXCEPT !.pc = "done"].pc = "done"
        BY <1>2 DEF Execution
      <3> QED  BY <1>3, <1>4, <2>2, <2>3, <3>1
    <2>4. CASE /\ exec[e].step < Steps /\ exec' = [exec EXCEPT ![e].step = @ + 1]
               /\ UNCHANGED inFlight
      <3> DEFINE x == [exec[e] EXCEPT !.step = exec[e].step + 1]
      <3>1. exec[e].step + 1 \in 1..Steps /\ exec[e].step + 1 \in 1..(Steps + 1)
        BY <2>1, <2>4, StepsAssumption
      <3>2. x \in Execution /\ x.step = exec[e].step + 1
        BY <1>2, <3>1 DEF Execution
      <3>3. exec' = [exec EXCEPT ![e] = x]
        BY <2>4
      <3> QED  BY <1>3, <1>4, <2>2, <2>4, <3>1, <3>2, <3>3
    <2>5. CASE Unwind(e)
      BY <1>5, <2>2, <2>5
    <2> QED  BY <1>9, <2>3, <2>4, <2>5 DEF StepDone
  <1> QED
    BY <1>6, <1>7, <1>8, <1>9 DEF ExecStep

LEMMA InitInv == Init => IInv
  <1> SUFFICES ASSUME Init PROVE IInv
    OBVIOUS
  <1>1. TypeOK
    BY NoRowTyped DEF Init, TypeOK
  <1>2. WorkInRange
    BY DEF Init, WorkInRange, Free
  <1>3. ASSUME NEW j \in Jobs PROVE RowInv(jobs[j], MaxAttempts[j])
    <2>1. jobs[j] = NoRow
      BY DEF Init
    <2>2. RowInv(NoRow, MaxAttempts[j])
      <3>1. NoRow.state = "absent" /\ NoRow.leaseOwner = None /\ NoRow.expired = FALSE
            /\ NoRow.finished = FALSE
        BY DEF NoRow
      <3> QED  BY <3>1, NoRowTyped DEF RowInv, Terminal
    <2> QED  BY <2>1, <2>2
  <1> QED  BY <1>1, <1>2, <1>3 DEF IInv

LEMMA NextInv == IInv /\ [Next]_vars => IInv'
  <1> SUFFICES ASSUME IInv, [Next]_vars PROVE IInv'
    OBVIOUS
  <1>1. jobs' \in [Jobs -> Row] /\ \A j \in Jobs : RowInv(jobs'[j], MaxAttempts[j])
    BY EveryStepOnRows DEF RowsStep
  <1> DEFINE Rest == /\ phase' \in [Workers -> {"unborn", "running", "stopping", "dead"}]
                     /\ ticking' \in [Workers -> BOOLEAN]
                     /\ inFlight' \in [Workers -> [Jobs -> Execs \cup {None}]]
                     /\ performed' \in [Jobs -> SUBSET (1..Steps)]
                     /\ ExecsOK'
  <1>2. TypeOK /\ WorkInRange
    BY DEF IInv
  <1>3. ASSUME UNCHANGED vars PROVE Rest
    BY <1>2, <1>3 DEF vars, TypeOK, WorkInRange, ExecsOK
  <1>4. ASSUME NEW j \in Jobs,
               Enqueue(j) \/ RequestCancel(j) \/ BackoffElapses(j) \/ LeaseExpires(j)
        PROVE  Rest
    BY <1>2, <1>4 DEF TypeOK, WorkInRange, ExecsOK, Enqueue, RequestCancel, CancelQueued,
                      CancelRunning, BackoffElapses, LeaseExpires
  <1>5. ASSUME NEW w \in Workers, Start(w) \/ Tick(w) \/ TickEnds(w) PROVE Rest
    BY <1>2, <1>5 DEF TypeOK, WorkInRange, ExecsOK, Start, Tick, TickEnds
  <1>6. ASSUME NEW w \in Workers, Stop(w) PROVE Rest
    <2>1. ASSUME NEW e \in Execs, exec[e].pc # "free"
          PROVE  /\ [exec[e] EXCEPT !.aborted = TRUE] \in Execution
                 /\ [exec[e] EXCEPT !.aborted = TRUE].pc = exec[e].pc
                 /\ [exec[e] EXCEPT !.aborted = TRUE].step = exec[e].step
      BY <2>1, BusyExec DEF Execution
    <2>2. ExecsOK'
      BY <1>2, <1>6, <2>1 DEF Stop, ExecsOK, WorkInRange, TypeOK
    <2> QED  BY <1>2, <1>6, <2>2 DEF Stop, TypeOK
  <1>7. ASSUME NEW w \in Workers, Exit(w) \/ Crash(w) PROVE Rest
    <2>1. /\ phase' = [phase EXCEPT ![w] = "dead"] /\ ticking' = [ticking EXCEPT ![w] = FALSE]
          /\ inFlight' = [inFlight EXCEPT ![w] = [j \in Jobs |-> None]]
          /\ exec' = [e \in Execs |->
                        IF exec[e].pc # "free" /\ exec[e].w = w THEN Free ELSE exec[e]]
          /\ performed' = performed
      BY <1>7 DEF Exit, Crash, Vanish
    <2>2. Free.pc # "work"
      BY DEF Free
    <2>3. ExecsOK'
      BY <1>2, <2>1, <2>2 DEF ExecsOK, WorkInRange, TypeOK
    <2> QED  BY <1>2, <2>1, <2>3 DEF TypeOK
  <1>8. ASSUME NEW w \in Workers, NEW j \in Jobs, NEW e \in Execs, Claim(w, j, e) PROVE Rest
    <2> DEFINE x == [pc |-> "start", w |-> w, j |-> j, step |-> ResumeStep(jobs[j]),
                     aborted |-> FALSE]
    <2>1. ResumeStep(jobs[j]) \in 1..(Steps + 1)
      BY <1>2, StepsAssumption DEF TypeOK, Row, ResumeStep
    <2>2. x \in Execution /\ x.pc = "start"
      BY <2>1 DEF Execution
    <2>3. exec' = [exec EXCEPT ![e] = x]
      BY <1>8 DEF Claim
    <2> HIDE DEF x
    <2>4. ExecsOK'
      BY <1>2, <2>2, <2>3 DEF ExecsOK, WorkInRange, TypeOK
    <2> QED  BY <1>2, <1>8, <2>4 DEF Claim, TypeOK
  <1>9. ASSUME NEW e \in Execs, ExecStep(e) PROVE Rest
    <2>1. UNCHANGED <<phase, ticking>>
      BY <1>9 DEF ExecStep, Begin, Unwound, Heartbeat, Interrupted, StepFails, StepDone, Return
    <2> QED  BY <1>2, <1>9, <2>1, ExecStepsTyped DEF TypeOK
  <1>10. Rest
    BY <1>3, <1>4, <1>5, <1>6, <1>7, <1>8, <1>9 DEF Next
  <1> QED  BY <1>1, <1>10 DEF IInv, TypeOK, ExecsOK

\* The jobs table, the processes and the executions keep their types.
THEOREM TypeCorrect == Spec => []TypeOK
  <1>1. IInv => TypeOK
    BY DEF IInv
  <1> QED  BY <1>1, InitInv, NextInv, PTL DEF Spec

\* A row is leased exactly while it is running; no job is stranded without an attempt and
\* outside the reach of claim() and sweepExhausted(); every outcome is explained.
THEOREM RowsAreSafe == Spec => [](LeasedIffRunning /\ NoneStranded /\ OutcomeIsExplained)
  <1>1. IInv => LeasedIffRunning /\ NoneStranded /\ OutcomeIsExplained
    BY DEF IInv, RowInv, LeasedIffRunning, NoneStranded, OutcomeIsExplained
  <1> QED  BY <1>1, InitInv, NextInv, PTL DEF Spec

\* finishedAt is set exactly on settled rows, and a job is cancelled only if somebody asked
\* for it.
THEOREM OutcomesAreExplained == Spec => []OutcomeIsExplained
  BY RowsAreSafe, PTL

\* A settled job is never revived or overwritten, whatever stale execution comes back.
THEOREM OutcomesAreFinal == Spec => SettledForGood
  <1>1. IInv /\ [Next]_vars =>
           [\A j \in Jobs : jobs[j].state \in Terminal =>
              jobs'[j].state = jobs[j].state /\ jobs'[j].completedSteps = jobs[j].completedSteps]_vars
    BY EveryStepOnRows DEF RowsStep, RowStep
  <1> QED  BY <1>1, InitInv, NextInv, PTL DEF Spec, SettledForGood

\* The queue with its workers, leases and crashes implements the life cycle of JobLifecycle.
THEOREM ImplementsLifecycle == Spec => LifecycleSpec
  <1>1. Init => Lifecycle!Init
    BY DEF Init, Lifecycle!Init, NoRow
  <1>2. IInv /\ [Next]_vars => [Lifecycle!Next]_<<[j \in Jobs |-> jobs[j].state], [j \in Jobs |-> jobs[j].attempts]>>
    <2> SUFFICES ASSUME IInv, [Next]_vars PROVE Lifecycle!Next
      OBVIOUS
    <2>1. RowsStep
      BY EveryStepOnRows
    <2>2. ASSUME NEW j \in Jobs
          PROVE  RowStep(jobs[j], jobs'[j], MaxAttempts[j]) /\ jobs'[j] \in Row
      BY <2>1 DEF RowsStep
    <2>3. ASSUME NEW j \in Jobs
          PROVE  \/ Lifecycle!Submit(j) \/ Lifecycle!Attempt(j) \/ Lifecycle!HandBack(j)
                 \/ Lifecycle!Retry(j) \/ Lifecycle!Settle(j) \/ Lifecycle!Withdraw(j)
                 \/ Lifecycle!Rests(j)
      BY <2>2 DEF RowStep, Terminal, Lifecycle!Submit, Lifecycle!Attempt, Lifecycle!HandBack,
           Lifecycle!Retry, Lifecycle!Settle, Lifecycle!Withdraw, Lifecycle!Rests,
           Lifecycle!Moves, Lifecycle!Settled
    <2>4. /\ [j \in Jobs |-> jobs'[j].state]
                \in [Jobs -> {"absent", "queued", "running"} \cup Lifecycle!Settled]
          /\ [j \in Jobs |-> jobs'[j].attempts] \in [Jobs -> Nat]
      BY <2>2 DEF Row, Terminal, Lifecycle!Settled
    <2> QED  BY <2>3, <2>4 DEF Lifecycle!Next
  <1> QED  BY <1>1, <1>2, InitInv, NextInv, PTL DEF Spec, LifecycleSpec, Lifecycle!Spec

-----------------------------------------------------------------------------
(* One execution per job.  The strengthening: whoever executes a job holds *)
(* an unexpired lease on it, so that no claim and no sweep can touch it.   *)

HoldsLease(e) ==
    /\ jobs[exec[e].j].state = "running"
    /\ jobs[exec[e].j].leaseOwner = exec[e].w
    /\ ~jobs[exec[e].j].expired

LeaseInv ==
    /\ \A e \in Execs : exec[e].pc \in Live => HoldsLease(e)
    /\ OneExecution

\* The execution in slot e, if there is one, was there before and lost nothing.
Undisturbed(e) ==
    exec'[e].pc \in Live =>
        /\ exec[e].pc \in Live
        /\ exec'[e].j = exec[e].j /\ exec'[e].w = exec[e].w
        /\ jobs'[exec[e].j].state = jobs[exec[e].j].state
        /\ jobs'[exec[e].j].leaseOwner = jobs[exec[e].j].leaseOwner
        /\ jobs'[exec[e].j].expired => jobs[exec[e].j].expired

LEMMA LeaseKept ==
    ASSUME LeaseInv, \A e \in Execs : Undisturbed(e)
    PROVE  LeaseInv'
  <1>1. \A e \in Execs : exec'[e].pc \in Live => HoldsLease(e)'
    BY DEF LeaseInv, HoldsLease, Undisturbed
  <1>2. OneExecution'
    BY DEF LeaseInv, OneExecution, Undisturbed
  <1> QED  BY <1>1, <1>2 DEF LeaseInv

\* A row nobody executes may change in any way.
LEMMA OthersUndisturbed ==
    ASSUME IInv, LeaseInv, NEW j \in Jobs, \A e \in Execs : exec[e].pc \in Live => exec[e].j # j,
           \A k \in Jobs : k # j => jobs'[k] = jobs[k], exec' = exec
    PROVE  LeaseInv'
  <1>1. ASSUME NEW e \in Execs PROVE Undisturbed(e)
    BY BusyExec DEF Undisturbed, Live, Execution
  <1> QED  BY <1>1, LeaseKept

\* The end of execution e: no other execution of its job is alive.
LEMMA EndOfExecution ==
    ASSUME IInv, LeaseInv, NEW e \in Execs, exec[e].pc \in Live,
           \A k \in Jobs : k # exec[e].j => jobs'[k] = jobs[k],
           \A f \in Execs : f # e => exec'[f] = exec[f], exec'[e].pc \notin Live
    PROVE  LeaseInv'
  <1>1. ASSUME NEW f \in Execs PROVE Undisturbed(f)
    <2>1. CASE f = e
      BY <2>1 DEF Undisturbed
    <2>2. CASE f # e /\ exec[f].pc \in Live
      <3>1. exec[f].j # exec[e].j /\ exec[f].j \in Jobs
        BY <2>2, BusyExec DEF LeaseInv, OneExecution, Live, Execution
      <3> QED  BY <2>2, <3>1 DEF Undisturbed
    <2>3. CASE f # e /\ exec[f].pc \notin Live
      BY <2>3 DEF Undisturbed
    <2> QED  BY <2>1, <2>2, <2>3
  <1> QED  BY <1>1, LeaseKept

\* What stopping or killing a process does to an execution.
LEMMA ProcessEnds ==
    ASSUME IInv, NEW w \in Workers, Stop(w) \/ Exit(w) \/ Crash(w), NEW e \in Execs
    PROVE  \/ exec'[e].pc \notin Live
           \/ /\ exec'[e].pc = exec[e].pc /\ exec'[e].j = exec[e].j
              /\ exec'[e].w = exec[e].w /\ exec'[e].step = exec[e].step
  <1>1. CASE Stop(w)
    <2> DEFINE x(f) == [exec[f] EXCEPT !.aborted = TRUE]
    <2>1. exec' = [f \in Execs |->
                    IF exec[f].pc # "free" /\ exec[f].w = w /\ inFlight[w][exec[f].j] = f
                    THEN x(f) ELSE exec[f]]
      BY <1>1 DEF Stop
    <2>2. exec[e].pc # "free" => /\ x(e).pc = exec[e].pc /\ x(e).j = exec[e].j
                                 /\ x(e).w = exec[e].w /\ x(e).step = exec[e].step
      BY BusyExec DEF Execution
    <2> HIDE DEF x
    <2> QED  BY <2>1, <2>2
  <1>2. CASE Exit(w) \/ Crash(w)
    <2>1. exec' = [f \in Execs |->
                    IF exec[f].pc # "free" /\ exec[f].w = w THEN Free ELSE exec[f]]
      BY <1>2 DEF Exit, Crash, Vanish
    <2>2. Free.pc \notin Live
      BY DEF Free, Live
    <2> QED  BY <2>1, <2>2
  <1> QED  BY <1>1, <1>2

LEMMA LeaseInvInit == Init => LeaseInv
  BY DEF Init, LeaseInv, OneExecution, Free, Live

LEMMA LeaseInvNext ==
    ASSUME ~Stalls, IInv, LeaseInv, [Next]_vars
    PROVE  LeaseInv'
  <1>0. jobs \in [Jobs -> Row] /\ exec \in [Execs -> Execution \cup {Free}]
    BY DEF IInv, TypeOK
  \* A job that is not running, or whose lease has expired, is not executed.
  <1>1. ASSUME NEW j \in Jobs, jobs[j].state # "running" \/ jobs[j].expired,
               NEW e \in Execs, exec[e].pc \in Live
        PROVE  exec[e].j # j
    BY <1>1 DEF LeaseInv, HoldsLease
  <1>2. CASE UNCHANGED vars
    <2>1. ASSUME NEW e \in Execs PROVE Undisturbed(e)
      BY <1>2 DEF Undisturbed, vars
    <2> QED  BY <2>1, LeaseKept
  <1>3. ASSUME NEW j \in Jobs, Enqueue(j) \/ CancelQueued(j) \/ BackoffElapses(j) PROVE LeaseInv'
    <2>1. jobs[j].state # "running" /\ exec' = exec /\ \A k \in Jobs : k # j => jobs'[k] = jobs[k]
      BY <1>0, <1>3 DEF Enqueue, CancelQueued, BackoffElapses
    <2>2. \A e \in Execs : exec[e].pc \in Live => exec[e].j # j
      BY <1>1, <2>1
    <2> QED  BY <2>1, <2>2, OthersUndisturbed
  <1>4. ASSUME NEW j \in Jobs, CancelRunning(j) PROVE LeaseInv'
    <2>1. \A k \in Jobs : /\ jobs'[k].state = jobs[k].state
                          /\ jobs'[k].leaseOwner = jobs[k].leaseOwner
                          /\ jobs'[k].expired = jobs[k].expired
      BY <1>0, <1>4 DEF CancelRunning, Row
    <2>2. ASSUME NEW e \in Execs PROVE Undisturbed(e)
      BY <1>4, <2>1, BusyExec DEF Undisturbed, CancelRunning, Live, Execution
    <2> QED  BY <2>2, LeaseKept
  <1>5. ASSUME NEW j \in Jobs, LeaseExpires(j) PROVE LeaseInv'
    <2>1. Orphaned(j) /\ exec' = exec /\ \A k \in Jobs : k # j => jobs'[k] = jobs[k]
      BY <1>0, <1>5 DEF LeaseExpires
    <2>2. \A e \in Execs : exec[e].pc \in Live => exec[e].j # j
      BY <2>1 DEF Orphaned, LeaseInv, HoldsLease
    <2> QED  BY <2>1, <2>2, OthersUndisturbed
  <1>6. ASSUME NEW w \in Workers, Start(w) \/ Tick(w) PROVE LeaseInv'
    <2>1. jobs' = Swept /\ exec' = exec
      BY <1>6 DEF Start, Tick
    <2>2. ASSUME NEW e \in Execs PROVE Undisturbed(e)
      <3>1. CASE exec[e].pc \in Live
        <4>1. exec[e].j \in Jobs /\ ~Exhausted(exec[e].j)
          BY <3>1, BusyExec DEF LeaseInv, HoldsLease, Exhausted, Live, Execution
        <4>2. jobs'[exec[e].j] = jobs[exec[e].j]
          BY <2>1, <4>1 DEF Swept
        <4> QED  BY <2>1, <4>2 DEF Undisturbed
      <3>2. CASE exec[e].pc \notin Live
        BY <2>1, <3>2 DEF Undisturbed
      <3> QED  BY <3>1, <3>2
    <2> QED  BY <2>2, LeaseKept
  <1>7. ASSUME NEW w \in Workers, TickEnds(w) PROVE LeaseInv'
    BY <1>7, LeaseKept DEF TickEnds, Undisturbed
  <1>8. ASSUME NEW w \in Workers, Stop(w) \/ Exit(w) \/ Crash(w) PROVE LeaseInv'
    <2>2. jobs' = jobs
      BY <1>8 DEF Stop, Exit, Crash, Vanish
    <2>3. ASSUME NEW e \in Execs PROVE Undisturbed(e)
      BY <1>8, <2>2, ProcessEnds DEF Undisturbed
    <2> QED  BY <2>3, LeaseKept
  <1>9. ASSUME NEW w \in Workers, NEW j \in Jobs, NEW e \in Execs, Claim(w, j, e) PROVE LeaseInv'
    <2>1. jobs[j].state # "running" \/ jobs[j].expired
      BY <1>9 DEF Claim, Candidate, Runnable
    <2>2. \A f \in Execs : exec[f].pc \in Live => exec[f].j # j /\ exec[f].j \in Jobs
      BY <1>1, <2>1, BusyExec DEF Live, Execution
    <2>3. /\ \A f \in Execs : f # e => exec'[f] = exec[f]
          /\ exec'[e].j = j /\ exec'[e].w = w
      BY <1>0, <1>9 DEF Claim
    <2>4. /\ \A k \in Jobs : k # j => jobs'[k] = jobs[k]
          /\ jobs'[j].state = "running" /\ jobs'[j].leaseOwner = w /\ jobs'[j].expired = FALSE
      BY <1>0, <1>9 DEF Claim, Claimed, Row
    <2>5. \A f \in Execs : exec'[f].pc \in Live => HoldsLease(f)'
      BY <2>2, <2>3, <2>4 DEF LeaseInv, HoldsLease
    <2>6. OneExecution'
      BY <2>2, <2>3 DEF LeaseInv, OneExecution
    <2> QED  BY <2>5, <2>6 DEF LeaseInv
  <1>10. ASSUME NEW e \in Execs, ExecStep(e) PROVE LeaseInv'
    <2>1. exec[e] \in Execution /\ exec[e].j \in Jobs /\ exec[e].w \in Workers
      <3>1. exec[e].pc # "free"
        BY <1>10 DEF ExecStep, Begin, Unwound, Heartbeat, Interrupted, StepFails, StepDone, Return
      <3> QED  BY <3>1, BusyExec DEF Execution
    <2> DEFINE j == exec[e].j
    <2>2. Unwind(e) => /\ \A f \in Execs : f # e => exec'[f] = exec[f]
                       /\ exec'[e].pc \notin Live
      BY <1>0 DEF Unwind, Free, Live
    <2>3. CASE Unwound(e)
      <3>1. ASSUME NEW f \in Execs PROVE Undisturbed(f)
        BY <2>2, <2>3 DEF Unwound, Undisturbed
      <3> QED  BY <3>1, LeaseKept
    <2>4. CASE Begin(e)
      <3>1. CASE j \in Poison
        <4>1. /\ \A k \in Jobs : k # j => jobs'[k] = jobs[k]
              /\ \A f \in Execs : f # e => exec'[f] = exec[f]
              /\ exec'[e].pc = "unwound" /\ exec[e].pc = "start"
          BY <1>0, <2>1, <2>4, <3>1 DEF Begin, Execution
        <4> QED  BY <4>1, EndOfExecution DEF Live
      <3>2. CASE j \notin Poison
        <4>1. /\ jobs' = jobs /\ exec[e].pc = "start"
              /\ \A f \in Execs : f # e => exec'[f] = exec[f]
              /\ exec'[e].j = exec[e].j /\ exec'[e].w = exec[e].w
          BY <1>0, <2>1, <2>4, <3>2 DEF Begin, Execution
        <4>2. ASSUME NEW f \in Execs PROVE Undisturbed(f)
          BY <4>1 DEF Undisturbed, Live
        <4> QED  BY <4>2, LeaseKept
      <3> QED  BY <3>1, <3>2
    <2>5. CASE Heartbeat(e)
      <3>1. \A k \in Jobs : /\ jobs'[k].state = jobs[k].state
                            /\ jobs'[k].leaseOwner = jobs[k].leaseOwner
                            /\ jobs'[k].expired => jobs[k].expired
        BY <1>0, <2>5 DEF Heartbeat, Row
      <3>2. \A f \in Execs : exec'[f].pc = exec[f].pc /\ (exec[f].pc \in Live =>
              exec'[f].j = exec[f].j /\ exec'[f].w = exec[f].w /\ exec[f].j \in Jobs)
        BY <1>0, <2>1, <2>5, BusyExec DEF Heartbeat, Execution, Live
      <3>3. ASSUME NEW f \in Execs PROVE Undisturbed(f)
        BY <3>1, <3>2 DEF Undisturbed
      <3> QED  BY <3>3, LeaseKept
    <2>6. CASE Interrupted(e) \/ StepFails(e) \/ Return(e)
      <3>1. exec[e].pc \in Live /\ Unwind(e)
        BY <2>6 DEF Interrupted, StepFails, Return, Live
      <3>2. \A k \in Jobs : k # j => jobs'[k] = jobs[k]
        BY <1>0, <2>1, <2>6 DEF Interrupted, StepFails, Return, AfterCancelledError
      <3> QED  BY <2>2, <3>1, <3>2, EndOfExecution
    <2>7. CASE StepDone(e)
      <3>1. Checkpointed(e) \in [Jobs -> Row] /\ \A k \in Jobs : k # j => Checkpointed(e)[k] = jobs[k]
        <4>1. exec[e].step \in 0..Steps
          BY <2>7, StepsAssumption DEF StepDone, IInv, WorkInRange
        <4> QED  BY <1>0, <2>1, <4>1 DEF Checkpointed, Row
      <3>2. CASE Unwind(e) /\ jobs' = AfterCancelledError(e, Checkpointed(e))
        <4>1. exec[e].pc \in Live
          BY <2>7 DEF StepDone, Live
        <4>2. \A k \in Jobs : k # j => jobs'[k] = jobs[k]
          BY <2>1, <3>1, <3>2 DEF AfterCancelledError
        <4> QED  BY <2>2, <3>2, <4>1, <4>2, EndOfExecution
      <3>3. CASE ~(Unwind(e) /\ jobs' = AfterCancelledError(e, Checkpointed(e)))
        <4>1. jobs' = Checkpointed(e) /\ exec[e].pc = "work"
          BY <2>7, <3>3 DEF StepDone
        <4>2. /\ \A f \in Execs : f # e => exec'[f] = exec[f]
              /\ exec'[e].j = exec[e].j /\ exec'[e].w = exec[e].w
          BY <1>0, <2>1, <2>7, <3>3 DEF StepDone, Execution
        <4>3. /\ jobs'[j].state = jobs[j].state /\ jobs'[j].leaseOwner = jobs[j].leaseOwner
              /\ jobs'[j].expired = jobs[j].expired
          BY <1>0, <2>1, <4>1 DEF Checkpointed, Row
        <4>4. ASSUME NEW f \in Execs PROVE Undisturbed(f)
          <5>1. CASE f = e
            BY <4>1, <4>2, <4>3, <5>1 DEF Undisturbed, Live
          <5>2. CASE f # e /\ exec[f].pc \in Live
            <6>1. exec[f].j # j /\ exec[f].j \in Jobs
              BY <4>1, <5>2, BusyExec DEF LeaseInv, OneExecution, Live, Execution
            <6> QED  BY <3>1, <4>1, <4>2, <5>2, <6>1 DEF Undisturbed
          <5>3. CASE f # e /\ exec[f].pc \notin Live
            BY <4>2, <5>3 DEF Undisturbed
          <5> QED  BY <5>1, <5>2, <5>3
        <4> QED  BY <4>4, LeaseKept
      <3> QED  BY <3>2, <3>3
    <2> QED  BY <1>10, <2>3, <2>4, <2>5, <2>6, <2>7 DEF ExecStep
  <1> QED
    BY <1>2, <1>3, <1>4, <1>5, <1>6, <1>7, <1>8, <1>9, <1>10 DEF Next, RequestCancel

\* As long as live processes renew their leases in time, a job is never executed twice at
\* once, not even across the crash, the shutdown or the overlap of processes.
THEOREM ExecutionsAreExclusive ==
    ASSUME ~Stalls
    PROVE  Spec => []OneExecution
  <1>1. LeaseInv => OneExecution
    BY DEF LeaseInv
  <1>2. IInv /\ LeaseInv /\ [Next]_vars => LeaseInv'
    BY LeaseInvNext
  <1> QED  BY <1>1, <1>2, LeaseInvInit, InitInv, NextInv, PTL DEF Spec

-----------------------------------------------------------------------------
(* Checkpoints are sound.  The strengthening: an execution about to do a   *)
(* step knows that all the earlier ones were done, by whichever execution. *)

Progressed(e) ==
    /\ exec[e].pc \in {"start", "work"} => 1..(exec[e].step - 1) \subseteq performed[exec[e].j]
    /\ exec[e].pc = "done" => 1..Steps \subseteq performed[exec[e].j]

ResumeInv == ResumeIsSound /\ \A e \in Execs : Progressed(e)

\* A row update that neither reports progress nor success.
Silent(r, s) ==
    /\ s.completedSteps = r.completedSteps
    /\ s.state = "succeeded" => r.state = "succeeded"

LEMMA SilentUpdates ==
    ASSUME NEW r \in Row, NEW max \in Nat
    PROVE  /\ Silent(r, r)
           /\ Silent(r, Settled(r, "failed")) /\ Silent(r, Settled(r, "cancelled"))
           /\ Silent(r, FailedAttempt(r, max)) /\ Silent(r, Released(r))
           /\ \A w \in Workers : Silent(r, Claimed(r, w))
  BY DEF Silent, Settled, FailedAttempt, Released, Claimed, Row

LEMMA SucceededSteps ==
    ASSUME NEW r \in Row
    PROVE  Succeeded(r).completedSteps = Steps
  <1>1. Settled(r, "succeeded") \in Row
    BY DEF Settled, Row, Terminal
  <1> QED  BY <1>1 DEF Succeeded, Row

\* handleFailure() reports nothing.
LEMMA SilentCancelledError ==
    ASSUME NEW rows \in [Jobs -> Row], NEW e \in Execs, exec[e].j \in Jobs, NEW j \in Jobs
    PROVE  Silent(rows[j], AfterCancelledError(e, rows)[j])
  <1> DEFINE k == exec[e].j
             r == rows[k]
  <1>1. \/ AfterCancelledError(e, rows) = rows
        \/ AfterCancelledError(e, rows) = [rows EXCEPT ![k] = Settled(r, "cancelled")]
        \/ AfterCancelledError(e, rows) = [rows EXCEPT ![k] = Released(r)]
    BY DEF AfterCancelledError
  <1>2. rows[j] \in Row /\ r \in Row
    OBVIOUS
  <1>3. /\ Silent(rows[j], rows[j])
        /\ Silent(r, Settled(r, "cancelled")) /\ Silent(r, Released(r))
    BY <1>2, SilentUpdates
  <1> QED  BY <1>1, <1>3

LEMMA SilentSteps ==
    ASSUME IInv, ResumeInv, performed' = performed,
           \A j \in Jobs : Silent(jobs[j], jobs'[j]),
           \A e \in Execs : Progressed(e)'
    PROVE  ResumeInv'
  BY DEF ResumeInv, ResumeIsSound, Silent

\* Executions that stay, stay where they were.
LEMMA ProgressKept ==
    ASSUME NEW e \in Execs, Progressed(e), performed' = performed,
           \/ exec'[e] = exec[e]
           \/ exec'[e].pc \notin Live
           \/ exec'[e].pc = exec[e].pc /\ exec'[e].j = exec[e].j /\ exec'[e].step = exec[e].step
    PROVE  Progressed(e)'
  BY DEF Progressed, Live

LEMMA ResumeInvInit == Init => ResumeInv
  <1> SUFFICES ASSUME Init PROVE ResumeInv
    OBVIOUS
  <1>1. \A j \in Jobs : jobs[j].completedSteps = 0 /\ jobs[j].state = "absent"
    BY DEF Init, NoRow
  <1>2. \A e \in Execs : Progressed(e)
    BY DEF Init, Progressed, Free
  <1> QED  BY <1>1, <1>2 DEF ResumeInv, ResumeIsSound

LEMMA ResumeInvNext ==
    ASSUME IInv, ResumeInv, [Next]_vars
    PROVE  ResumeInv'
  <1>0. /\ jobs \in [Jobs -> Row] /\ exec \in [Execs -> Execution \cup {Free}]
        /\ performed \in [Jobs -> SUBSET (1..Steps)] /\ WorkInRange
        /\ \A e \in Execs : Progressed(e)
        /\ \A j \in Jobs : MaxAttempts[j] \in Nat
    BY MaxAttemptsAssumption DEF IInv, TypeOK, ResumeInv
  <1>1. ASSUME NEW j \in Jobs PROVE Silent(jobs[j], jobs[j])
    BY <1>0, SilentUpdates
  <1>2. CASE UNCHANGED vars
    BY <1>0, <1>1, <1>2, ProgressKept, SilentSteps DEF vars
  <1>3. ASSUME NEW j \in Jobs,
               Enqueue(j) \/ RequestCancel(j) \/ BackoffElapses(j) \/ LeaseExpires(j)
        PROVE  ResumeInv'
    <2>1. exec' = exec /\ performed' = performed
      BY <1>3 DEF Enqueue, RequestCancel, CancelQueued, CancelRunning, BackoffElapses, LeaseExpires
    <2>2. \A e \in Execs : Progressed(e)'
      BY <1>0, <2>1, ProgressKept
    <2>3. CASE Enqueue(j)
      <3>1. PICK due \in BOOLEAN : jobs' = [jobs EXCEPT ![j] = Enqueued(due)]
        BY <2>3 DEF Enqueue
      <3>2. Enqueued(due).completedSteps = 0 /\ Enqueued(due).state = "queued"
        BY DEF Enqueued, NoRow
      <3> QED  BY <1>0, <2>1, <2>2, <3>1, <3>2 DEF ResumeInv, ResumeIsSound
    <2>4. CASE RequestCancel(j) \/ BackoffElapses(j) \/ LeaseExpires(j)
      <3>1. ASSUME NEW k \in Jobs PROVE Silent(jobs[k], jobs'[k])
        BY <1>0, <2>4 DEF RequestCancel, CancelQueued, CancelRunning, BackoffElapses,
                          LeaseExpires, Silent, Row
      <3> QED  BY <2>1, <2>2, <3>1, SilentSteps
    <2> QED  BY <1>3, <2>3, <2>4
  <1>4. ASSUME NEW w \in Workers, Start(w) \/ Tick(w) PROVE ResumeInv'
    <2>1. jobs' = Swept /\ exec' = exec /\ performed' = performed
      BY <1>4 DEF Start, Tick
    <2>2. ASSUME NEW k \in Jobs PROVE Silent(jobs[k], jobs'[k])
      BY <1>0, <2>1, SilentUpdates DEF Swept
    <2> QED  BY <1>0, <2>1, <2>2, ProgressKept, SilentSteps
  <1>5. ASSUME NEW w \in Workers, TickEnds(w) \/ Stop(w) \/ Exit(w) \/ Crash(w) PROVE ResumeInv'
    <2>1. jobs' = jobs /\ performed' = performed
      BY <1>5 DEF TickEnds, Stop, Exit, Crash, Vanish
    <2>2. ASSUME NEW e \in Execs PROVE Progressed(e)'
      <3>1. CASE TickEnds(w)
        BY <1>0, <3>1, ProgressKept DEF TickEnds
      <3>2. CASE Stop(w) \/ Exit(w) \/ Crash(w)
        BY <1>0, <2>1, <3>2, ProcessEnds, ProgressKept
      <3> QED  BY <1>5, <3>1, <3>2
    <2> QED  BY <1>1, <2>1, <2>2, SilentSteps
  <1>6. ASSUME NEW w \in Workers, NEW j \in Jobs, NEW e \in Execs, Claim(w, j, e) PROVE ResumeInv'
    <2>1. /\ jobs' = [jobs EXCEPT ![j] = Claimed(jobs[j], w)] /\ performed' = performed
          /\ exec' = [exec EXCEPT ![e] = [pc |-> "start", w |-> w, j |-> j,
                                    step |-> ResumeStep(jobs[j]), aborted |-> FALSE]]
      BY <1>6 DEF Claim
    <2>2. ASSUME NEW k \in Jobs PROVE Silent(jobs[k], jobs'[k])
      BY <1>0, <2>1, SilentUpdates
    <2>3. /\ exec'[e].pc = "start" /\ exec'[e].j = j
          /\ exec'[e].step = jobs[j].completedSteps + 1
          /\ \A f \in Execs : f # e => exec'[f] = exec[f]
      BY <1>0, <2>1 DEF ResumeStep
    <2>4. 1..jobs[j].completedSteps \subseteq performed[j]
      BY DEF ResumeInv, ResumeIsSound
    <2>5. Progressed(e)'
      <3>1. exec'[e].step - 1 = jobs[j].completedSteps
        BY <1>0, <2>3 DEF Row
      <3> QED  BY <2>1, <2>3, <2>4, <3>1 DEF Progressed
    <2>6. ASSUME NEW f \in Execs PROVE Progressed(f)'
      BY <1>0, <2>1, <2>3, <2>5, ProgressKept
    <2> QED  BY <2>1, <2>2, <2>6, SilentSteps
  <1>7. ASSUME NEW e \in Execs, ExecStep(e) PROVE ResumeInv'
    <2> DEFINE j == exec[e].j
    <2>1. exec[e] \in Execution /\ j \in Jobs /\ exec[e].w \in Workers /\ Progressed(e)
      <3>1. exec[e].pc # "free"
        BY <1>7 DEF ExecStep, Begin, Unwound, Heartbeat, Interrupted, StepFails, StepDone, Return
      <3> QED  BY <1>0, <3>1, BusyExec DEF Execution
    \* The end of execution e.
    <2>2. ASSUME Unwind(e), performed' = performed, NEW f \in Execs PROVE Progressed(f)'
      <3>1. exec'[f] = exec[f] \/ exec'[f] = Free
        BY <1>0, <2>2 DEF Unwind
      <3>2. Free.pc \notin Live
        BY DEF Free, Live
      <3> QED  BY <1>0, <2>2, <3>1, <3>2, ProgressKept
    <2>3. CASE Begin(e)
      <3>1. performed' = performed /\ \A f \in Execs : f # e => exec'[f] = exec[f]
        BY <1>0, <2>3 DEF Begin
      <3>2. ASSUME NEW k \in Jobs PROVE Silent(jobs[k], jobs'[k])
        BY <1>0, <2>1, <2>3, SilentUpdates DEF Begin
      <3>3. /\ exec'[e].j = j /\ exec'[e].step = exec[e].step /\ exec[e].pc = "start"
            /\ \/ exec'[e].pc \in {"unwound", "work"}
               \/ exec'[e].pc = "done" /\ exec[e].step > Steps
        BY <1>0, <2>1, <2>3 DEF Begin, Execution
      <3>4. exec[e].step > Steps => exec[e].step - 1 = Steps
        BY <2>1, StepsAssumption DEF Execution
      <3>5. Progressed(e)'
        BY <2>1, <3>1, <3>3, <3>4 DEF Progressed
      <3>6. ASSUME NEW f \in Execs PROVE Progressed(f)'
        BY <1>0, <3>1, <3>5, ProgressKept
      <3> QED  BY <3>1, <3>2, <3>6, SilentSteps
    <2>4. CASE Unwound(e)
      BY <1>1, <2>2, <2>4, SilentSteps DEF Unwound
    <2>5. CASE Heartbeat(e)
      <3>1. ASSUME NEW k \in Jobs PROVE Silent(jobs[k], jobs'[k])
        BY <1>0, <2>5 DEF Heartbeat, Silent, Row
      <3>2. /\ performed' = performed /\ \A f \in Execs : f # e => exec'[f] = exec[f]
            /\ exec'[e].pc = exec[e].pc /\ exec'[e].j = j /\ exec'[e].step = exec[e].step
        BY <1>0, <2>1, <2>5 DEF Heartbeat, Execution
      <3>3. ASSUME NEW f \in Execs PROVE Progressed(f)'
        BY <1>0, <3>2, ProgressKept
      <3> QED  BY <3>1, <3>2, <3>3, SilentSteps
    <2>6. CASE Interrupted(e)
      <3>1. ASSUME NEW k \in Jobs PROVE Silent(jobs[k], jobs'[k])
        BY <1>0, <2>1, <2>6, SilentCancelledError DEF Interrupted
      <3> QED  BY <2>2, <2>6, <3>1, SilentSteps DEF Interrupted
    <2>7. CASE StepFails(e)
      <3>1. ASSUME NEW k \in Jobs PROVE Silent(jobs[k], jobs'[k])
        BY <1>0, <2>1, <2>7, SilentUpdates DEF StepFails
      <3> QED  BY <2>2, <2>7, <3>1, SilentSteps DEF StepFails
    <2>8. CASE Return(e)
      <3>1. 1..Steps \subseteq performed[j] /\ performed' = performed /\ Unwind(e)
        BY <2>1, <2>8 DEF Return, Progressed
      <3>2. \A k \in Jobs : \/ jobs'[k] = jobs[k]
                            \/ k = j /\ jobs'[k].completedSteps = Steps
        <4>1. Succeeded(jobs[j]).completedSteps = Steps
          <5>1. jobs[j] \in Row
            BY <1>0, <2>1
          <5> QED  BY <5>1, SucceededSteps
        <4>2. jobs' = jobs \/ jobs' = [jobs EXCEPT ![j] = Succeeded(jobs[j])]
          BY <2>8 DEF Return
        <4> QED  BY <1>0, <2>1, <4>1, <4>2
      <3>3. performed[j] \subseteq 1..Steps
        BY <1>0, <2>1
      <3>4. ResumeIsSound'
        BY <3>1, <3>2, <3>3 DEF ResumeInv, ResumeIsSound
      <3> QED  BY <2>2, <3>1, <3>4 DEF ResumeInv
    <2>9. CASE StepDone(e)
      <3> DEFINE n == exec[e].step
      <3>1. /\ n \in 1..Steps /\ 1..(n - 1) \subseteq performed[j]
            /\ performed' = [performed EXCEPT ![j] = @ \cup {n}]
        BY <1>0, <2>1, <2>9 DEF StepDone, WorkInRange, Progressed
      <3>2. 1..n \subseteq performed'[j] /\ performed'[j] \subseteq 1..Steps
        BY <1>0, <2>1, <3>1
      <3>3. \A k \in Jobs : performed[k] \subseteq performed'[k] /\ performed'[k] \subseteq 1..Steps
        BY <1>0, <2>1, <3>1
      <3>4. Checkpointed(e) \in [Jobs -> Row]
            /\ \A k \in Jobs : /\ Checkpointed(e)[k].state = jobs[k].state
                               /\ \/ Checkpointed(e)[k].completedSteps = jobs[k].completedSteps
                                  \/ k = j /\ Checkpointed(e)[k].completedSteps = n
        <4>1. n \in 0..Steps
          BY <3>1, StepsAssumption
        <4> QED  BY <1>0, <2>1, <4>1 DEF Checkpointed, Row
      <3>5. \A k \in Jobs : Silent(Checkpointed(e)[k], jobs'[k])
        <4>1. CASE jobs' = Checkpointed(e)
          BY <1>0, <3>4, <4>1, SilentUpdates
        <4>2. CASE jobs' = AfterCancelledError(e, Checkpointed(e))
          BY <2>1, <3>4, <4>2, SilentCancelledError
        <4> QED  BY <2>9, <4>1, <4>2 DEF StepDone
      <3>6. ResumeIsSound'
        <4> SUFFICES ASSUME NEW k \in Jobs
                     PROVE  /\ 1..jobs'[k].completedSteps \subseteq performed'[k]
                            /\ jobs'[k].state = "succeeded" => performed'[k] = 1..Steps
          BY DEF ResumeIsSound
        <4>1. /\ 1..jobs[k].completedSteps \subseteq performed[k]
              /\ jobs[k].state = "succeeded" => performed[k] = 1..Steps
          BY DEF ResumeInv, ResumeIsSound
        <4>2. /\ \/ jobs'[k].completedSteps = jobs[k].completedSteps
                 \/ k = j /\ jobs'[k].completedSteps = n
              /\ jobs'[k].state = "succeeded" => jobs[k].state = "succeeded"
          <5>1. /\ jobs'[k].completedSteps = Checkpointed(e)[k].completedSteps
                /\ jobs'[k].state = "succeeded" => Checkpointed(e)[k].state = "succeeded"
            BY <3>5 DEF Silent
          <5> QED  BY <3>4, <5>1
        <4> QED  BY <3>2, <3>3, <4>1, <4>2
      <3>7. ASSUME NEW f \in Execs PROVE Progressed(f)'
        <4>1. CASE f # e
          <5>1. exec'[f] = exec[f]
            BY <1>0, <2>9, <4>1 DEF StepDone, Unwind
          <5>2. exec[f].pc \in Live => exec[f].j \in Jobs
            BY BusyExec DEF Live, Execution
          <5> QED  BY <1>0, <3>3, <5>1, <5>2 DEF Progressed, Live
        <4>2. CASE f = e
          <5>1. \/ exec'[e].pc \notin Live
                \/ exec'[e].pc = "done" /\ n = Steps /\ exec'[e].j = j
                \/ exec'[e].pc = "work" /\ exec'[e].step = n + 1 /\ exec'[e].j = j
            BY <1>0, <2>1, <2>9 DEF StepDone, Unwind, Free, Live, Execution
          <5>2. (n + 1) - 1 = n
            BY <3>1
          <5> QED  BY <3>2, <4>2, <5>1, <5>2 DEF Progressed, Live
        <4> QED  BY <4>1, <4>2
      <3> QED  BY <3>6, <3>7 DEF ResumeInv
    <2> QED  BY <1>7, <2>3, <2>4, <2>5, <2>6, <2>7, <2>8, <2>9 DEF ExecStep
  <1> QED
    BY <1>2, <1>3, <1>4, <1>5, <1>6, <1>7 DEF Next

\* A checkpoint never claims work that was not done, and a job is only reported succeeded
\* when every step of it was done: with or without stalls, crashes and takeovers.
THEOREM CheckpointsAreSound == Spec => []ResumeIsSound
  <1>1. ResumeInv => ResumeIsSound
    BY DEF ResumeInv
  <1>2. IInv /\ ResumeInv /\ [Next]_vars => ResumeInv'
    BY ResumeInvNext
  <1> QED  BY <1>1, <1>2, ResumeInvInit, InitInv, NextInv, PTL DEF Spec
=============================================================================
