----------------------- MODULE ProjectLifecycleProofs -----------------------
(***************************************************************************)
(* Proofs about ProjectLifecycle: that a project whose creation succeeded  *)
(* is whole, that a deleted one leaves nothing on the host, and that the   *)
(* jobs follow JobLifecycle, however often handlers fail, are cancelled,   *)
(* die with their process and resume from a checkpoint.                    *)
(***************************************************************************)
EXTENDS ProjectLifecycle, TLAPS

RowT == [state : {"absent", "running", "stopped", "failed"} \cup Transient,
         containerId : Nat, backups : BOOLEAN, deleted : BOOLEAN]
JobT == [state : {"absent", "queued", "running", "succeeded", "failed", "cancelled"},
         attempts : Nat, completedSteps : 0..7, cancelRequested : BOOLEAN, alone : BOOLEAN]
RunT == [pc : {"off", "call", "ok", "error", "refused", "done"}, call : 0..9, cid : Nat]
ApiT == [pc : {"off", "call", "write"}, todo : Seq({"start", "stop"}),
         target : {"running", "stopped"}, cid : Nat]
DockerT == [container : Nat, up : BOOLEAN, objects : SUBSET Objects, made : Nat]

\* A handler runs only while its job does; attempts are paid for and bounded; a request that
\* waits for a call has one to wait for.
Running ==
    /\ \A k \in Jobs : /\ run[k].pc # "off" => job[k].state = "running"
                       /\ job[k].state = "running" => job[k].attempts > 0
                       /\ job[k].attempts <= MaxAttempts[k]
    /\ api.pc = "call" => api.todo # <<>>

NoneAsked == \A k \in Deletions : job[k].state = "absent"
AllAlone == \A k \in Deletions : job[k].state # "absent" => job[k].alone

\* Jobs belong to a project that exists, and only a deletion retires it.
Born ==
    /\ \A k \in Jobs : job[k].state # "absent" => row.state # "absent"
    /\ row.deleted => ~NoneAsked

\* The checkpoint a handler has behind it at its call i.
Before(k, i) == IF k = Creation THEN <<0, 1, 1, 2, 3, 3, 4, 5, 6>>[i] ELSE <<0, 1, 2, 2, 3>>[i]

\* The handler of k has made call n in this attempt.
Had(k, n) == \/ run[k].pc = "call" /\ run[k].call > n
             \/ run[k].pc = "ok" /\ run[k].call >= n

\* Where a handler is, and what its job has recorded.
Placed == \A k \in Jobs :
    /\ job[k].state = "absent" => job[k].completedSteps = 0
    /\ run[k].pc \in {"call", "ok"} =>
         run[k].call \in 1..Last(k) /\ job[k].completedSteps = Before(k, run[k].call)
    /\ k = Creation /\ (run[k].pc = "done" \/ job[k].state = "succeeded") =>
         job[k].completedSteps = 7
    /\ k # Creation /\ job[k].state # "succeeded" => job[k].completedSteps <= 4
    /\ k # Creation /\ run[k].pc = "done" => row.deleted
    /\ k # Creation => run[k].pc # "refused"

\* What a creation has behind it exists, as long as no deletion was asked for.
Provisioned == NoneAsked =>
    /\ job[Creation].completedSteps >= 2 \/ Had(Creation, 2) => "data" \in docker.objects
    /\ job[Creation].completedSteps >= 2 \/ Had(Creation, 3) => "backup" \in docker.objects
    /\ job[Creation].completedSteps >= 3 \/ Had(Creation, 4) => "network" \in docker.objects
    /\ job[Creation].completedSteps >= 4 =>
         row.containerId # 0 /\ docker.container \in {0, row.containerId}
    /\ run[Creation].pc = "ok" /\ run[Creation].call \in {5, 6} =>
         docker.container \in {0, run[Creation].cid}
    /\ run[Creation].pc = "ok" /\ run[Creation].call = 6 => run[Creation].cid # 0
    /\ job[Creation].completedSteps >= 7 => row.backups

\* What a deletion has behind it is gone, as long as no creation was under way.
Gone(k) ==
    /\ job[k].completedSteps >= 3 \/ Had(k, 3) => docker.container = 0 /\ "data" \notin docker.objects
    /\ job[k].completedSteps >= 3 \/ Had(k, 4) => "backup" \notin docker.objects
    /\ job[k].completedSteps >= 4 \/ Had(k, 5) => "network" \notin docker.objects

TornDown == AllAlone /\ ~NoneAsked =>
    /\ ~Unsettled(Creation)
    /\ \A k \in Deletions : Gone(k)
    /\ row.deleted => docker.container = 0 /\ docker.objects = {}

IInv == TypeOK /\ Running /\ Born /\ Placed /\ Provisioned /\ TornDown

-----------------------------------------------------------------------------
(* The tables of the handlers. *)

LEMMA CreationTable ==
    /\ Last(Creation) = 9
    /\ Calls(Creation) = CreateCalls
    /\ \A i \in 1..9 : StepAfter(Creation, i) = <<1, 0, 2, 3, 0, 4, 5, 6, 7>>[i]
  BY DEF Last, Calls, StepAfter, CreateCalls, CreateSteps

LEMMA DeletionTable ==
    ASSUME NEW k \in Deletions
    PROVE  /\ k # Creation
           /\ Last(k) = 5
           /\ Calls(k) = DeleteCalls
           /\ \A i \in 1..5 : StepAfter(k, i) = <<1, 2, 0, 3, 4>>[i]
  BY JobsAssumption DEF Last, Calls, StepAfter, DeleteCalls, DeleteSteps

\* A creation resumes behind its checkpoint.
LEMMA CreationEntry ==
    ASSUME NEW d \in 0..7
    PROVE  /\ Entry(Creation, d) \in 1..10
           /\ Entry(Creation, d) <= 9 => d = Before(Creation, Entry(Creation, d))
           /\ Entry(Creation, d) # 3
           /\ Entry(Creation, d) = 10 => d = 7
  <1>1. CASE d = 0
    BY <1>1 DEF Entry, Before
  <1>2. CASE d \in 1..7
    <2>1. Len(Calls(Creation)) = 9
      BY CreationTable DEF Last
    <2>2. PICK m \in 1..9 : StepAfter(Creation, m) = d
      <3>1. \E i \in 1..9 : <<1, 0, 2, 3, 0, 4, 5, 6, 7>>[i] = d
        <4>1. <<1, 0, 2, 3, 0, 4, 5, 6, 7>>[1] = 1 /\ <<1, 0, 2, 3, 0, 4, 5, 6, 7>>[3] = 2
              /\ <<1, 0, 2, 3, 0, 4, 5, 6, 7>>[4] = 3 /\ <<1, 0, 2, 3, 0, 4, 5, 6, 7>>[6] = 4
              /\ <<1, 0, 2, 3, 0, 4, 5, 6, 7>>[7] = 5 /\ <<1, 0, 2, 3, 0, 4, 5, 6, 7>>[8] = 6
              /\ <<1, 0, 2, 3, 0, 4, 5, 6, 7>>[9] = 7
          OBVIOUS
        <4> QED  BY <1>2, <4>1
      <3> QED  BY <3>1, CreationTable
    <2>3. PICK c \in 1..9 : /\ StepAfter(Creation, c) = d
                            /\ c = CHOOSE i \in 1..Len(Calls(Creation)) : StepAfter(Creation, i) = d
      BY <2>1, <2>2
    <2>4. Entry(Creation, d) = 1 + c
      BY <1>2, <2>3 DEF Entry
    <2>5. d = <<1, 0, 2, 3, 0, 4, 5, 6, 7>>[c]
      BY <2>3, CreationTable
    <2> QED  BY <1>2, <2>4, <2>5 DEF Before
  <1> QED  BY <1>1, <1>2

\* A deletion resumes behind its checkpoint.
LEMMA DeletionEntry ==
    ASSUME NEW k \in Deletions, NEW d \in 0..4
    PROVE  /\ Entry(k, d) \in 1..6
           /\ Entry(k, d) <= 5 => d = Before(k, Entry(k, d)) /\ Entry(k, d) # 4
           /\ Entry(k, d) = 6 => d = 4
  <1> USE DeletionTable
  <1>1. CASE d = 0
    BY <1>1 DEF Entry, Before
  <1>2. CASE d \in 1..4
    <2>1. Len(Calls(k)) = 5
      BY DEF Last
    <2>2. PICK m \in 1..5 : StepAfter(k, m) = d
      <3>1. <<1, 2, 0, 3, 4>>[1] = 1 /\ <<1, 2, 0, 3, 4>>[2] = 2 /\ <<1, 2, 0, 3, 4>>[4] = 3
            /\ <<1, 2, 0, 3, 4>>[5] = 4
        OBVIOUS
      <3> QED  BY <1>2, <3>1
    <2>3. PICK c \in 1..5 : /\ StepAfter(k, c) = d
                            /\ c = CHOOSE i \in 1..Len(Calls(k)) : StepAfter(k, i) = d
      BY <2>1, <2>2
    <2>4. Entry(k, d) = 1 + c
      BY <1>2, <2>3 DEF Entry
    <2>5. d = <<1, 2, 0, 3, 4>>[c]
      BY <2>3
    <2> QED  BY <1>2, <2>4, <2>5 DEF Before
  <1> QED  BY <1>1, <1>2

-----------------------------------------------------------------------------
(* Types. *)

CallNames == {"pull", "data", "backup", "network", "list", "container", "start", "ready", "archive",
              "stop", "remove", "rmdata", "rmbackup", "rmnetwork"}

LEMMA Effects ==
    ASSUME NEW call \in CallNames, NEW cid
    PROVE  /\ call \in {"pull", "list", "ready", "archive"} => Effect(call, cid) = docker
           /\ call \in Objects => Effect(call, cid) = [docker EXCEPT !.objects = @ \cup {call}]
           /\ call = "container" =>
                Effect(call, cid) = [container |-> docker.made + 1, up |-> FALSE,
                                     objects |-> docker.objects \cup {"data", "backup"},
                                     made |-> docker.made + 1]
           /\ call = "start" => Effect(call, cid) = [docker EXCEPT !.up = TRUE]
           /\ call = "stop" => Effect(call, cid) = [docker EXCEPT !.up = @ /\ docker.container # cid]
           /\ call = "remove" /\ docker.container = cid =>
                Effect(call, cid) = [docker EXCEPT !.container = 0, !.up = FALSE]
           /\ call = "remove" /\ docker.container # cid => Effect(call, cid) = docker
           /\ call = "rmdata" => Effect(call, cid) = [docker EXCEPT !.objects = @ \ {"data"}]
           /\ call = "rmbackup" => Effect(call, cid) = [docker EXCEPT !.objects = @ \ {"backup"}]
           /\ call = "rmnetwork" => Effect(call, cid) = [docker EXCEPT !.objects = @ \ {"network"}]
  BY DEF Effect, Objects, CallNames

LEMMA EffectTyped ==
    ASSUME docker \in DockerT, NEW call \in CallNames, NEW cid
    PROVE  Effect(call, cid) \in DockerT
  <1>1. CASE call = "container"
    <2>1. Effect(call, cid) = [container |-> docker.made + 1, up |-> FALSE,
                               objects |-> docker.objects \cup {"data", "backup"},
                               made |-> docker.made + 1]
      BY <1>1, Effects
    <2>2. docker.made + 1 \in Nat /\ docker.objects \cup {"data", "backup"} \subseteq Objects
      BY DEF DockerT, Objects
    <2> QED  BY <2>1, <2>2 DEF DockerT
  <1>2. CASE call \in Objects
    BY <1>2, Effects DEF DockerT, CallNames, Objects
  <1>3. CASE call \in {"pull", "list", "ready", "archive"}
    BY <1>3, Effects DEF CallNames
  <1>4. CASE call \in {"rmdata", "rmbackup", "rmnetwork"}
    BY <1>4, Effects DEF DockerT, CallNames, Objects
  <1>5. CASE call = "start"
    <2>1. [docker EXCEPT !.up = TRUE] \in DockerT
      BY DEF DockerT
    <2> QED  BY <1>5, <2>1, Effects
  <1>6. CASE call = "stop"
    <2>1. [docker EXCEPT !.up = @ /\ docker.container # cid] \in DockerT
      BY DEF DockerT
    <2> QED  BY <1>6, <2>1, Effects
  <1>7. CASE call = "remove"
    <2>1. [docker EXCEPT !.container = 0, !.up = FALSE] \in DockerT
      BY DEF DockerT
    <2> QED  BY <1>7, <2>1, Effects
  <1> QED  BY <1>1, <1>2, <1>3, <1>4, <1>5, <1>6, <1>7 DEF CallNames, Objects

\* What the steps of a job do to its row, as JobLifecycle sees it.
LifeStep(j, new, max) ==
    \/ j.state = "absent" /\ new.state = "queued" /\ new.attempts = 0
    \/ /\ j.state \in {"queued", "running"} /\ new.state = "running"
       /\ j.attempts < max /\ new.attempts = j.attempts + 1
    \/ /\ j.state = "running" /\ new.state = "queued"
       /\ j.attempts > 0 /\ new.attempts = j.attempts - 1
    \/ /\ j.state = "running" /\ new.state = "queued"
       /\ j.attempts < max /\ new.attempts = j.attempts
    \/ /\ j.state = "running" /\ new.state \in {"succeeded", "failed", "cancelled"}
       /\ new.attempts = j.attempts
    \/ j.state = "queued" /\ new.state = "cancelled" /\ new.attempts = j.attempts
    \/ new.state = j.state /\ new.attempts = j.attempts

\* Apart from its state and attempts, a row is what it was.
SameWork(j, new) == new.completedSteps = j.completedSteps /\ new.alone = j.alone

LEMMA MaxIsPositive == \A k \in Jobs : MaxAttempts[k] \in Nat /\ MaxAttempts[k] > 0
  BY AttemptsAssumption

LEMMA ClaimedIs ==
    ASSUME NEW j \in JobT
    PROVE  /\ Claimed(j) \in JobT /\ SameWork(j, Claimed(j))
           /\ Claimed(j).state = "running" /\ Claimed(j).attempts = j.attempts + 1
  <1>1. PICK old : old = [j EXCEPT !.state = "running"]
    OBVIOUS
  <1>2. old \in JobT /\ old.attempts = j.attempts /\ SameWork(j, old) /\ old.state = "running"
    BY <1>1 DEF JobT, SameWork
  <1>3. Claimed(j) = [old EXCEPT !.attempts = old.attempts + 1]
    BY <1>1, <1>2 DEF Claimed
  <1>4. old.attempts + 1 \in Nat
    BY <1>2 DEF JobT
  <1> QED  BY <1>2, <1>3, <1>4 DEF JobT, SameWork

LEMMA ReleasedIs ==
    ASSUME NEW j \in JobT, j.attempts > 0
    PROVE  /\ Released(j) \in JobT /\ SameWork(j, Released(j))
           /\ Released(j).state = "queued" /\ Released(j).attempts = j.attempts - 1
  <1>1. PICK old : old = [j EXCEPT !.state = "queued"]
    OBVIOUS
  <1>2. old \in JobT /\ old.attempts = j.attempts /\ SameWork(j, old) /\ old.state = "queued"
    BY <1>1 DEF JobT, SameWork
  <1>3. Released(j) = [old EXCEPT !.attempts = old.attempts - 1]
    BY <1>1, <1>2 DEF Released
  <1>4. old.attempts - 1 \in Nat
    BY <1>2 DEF JobT
  <1> QED  BY <1>2, <1>3, <1>4 DEF JobT, SameWork

LEMMA FailedIs ==
    ASSUME NEW j \in JobT, NEW k \in Jobs
    PROVE  /\ FailedAttempt(k, j) \in JobT /\ SameWork(j, FailedAttempt(k, j))
           /\ FailedAttempt(k, j).attempts = j.attempts
           /\ FailedAttempt(k, j).state = IF j.attempts >= MaxAttempts[k] THEN "failed" ELSE "queued"
  <1>1. CASE j.attempts >= MaxAttempts[k]
    <2>1. [j EXCEPT !.state = "failed"] \in JobT
      BY DEF JobT
    <2>2. FailedAttempt(k, j) = [j EXCEPT !.state = "failed"]
      BY <1>1 DEF FailedAttempt
    <2> QED  BY <1>1, <2>1, <2>2 DEF JobT, SameWork
  <1>2. CASE ~(j.attempts >= MaxAttempts[k])
    <2>1. [j EXCEPT !.state = "queued"] \in JobT
      BY DEF JobT
    <2>2. FailedAttempt(k, j) = [j EXCEPT !.state = "queued"]
      BY <1>2 DEF FailedAttempt
    <2> QED  BY <1>2, <2>1, <2>2 DEF JobT, SameWork
  <1> QED  BY <1>1, <1>2

\* An attempt that ends with an error, or because it was interrupted.
LEMMA ThrowsIs ==
    ASSUME TypeOK, NEW k \in Jobs, NEW rw \in RowT, NEW j \in JobT, j.state = "running",
           Throws(k, rw, j)
    PROVE  /\ job' = [job EXCEPT ![k] = FailedAttempt(k, j)]
           /\ run' = [run EXCEPT ![k] = NoRun]
           /\ LifeStep(j, FailedAttempt(k, j), MaxAttempts[k])
           /\ FailedAttempt(k, j).state \in {"queued", "failed"}
           /\ row' \in RowT
           /\ row'.containerId = rw.containerId /\ row'.backups = rw.backups
           /\ row'.deleted = rw.deleted /\ (row'.state = "absent" => rw.state = "absent")
  <1>1. LifeStep(j, FailedAttempt(k, j), MaxAttempts[k])
    <2>1. j.attempts \in Nat
      BY DEF JobT
    <2> QED  BY <2>1, FailedIs, MaxIsPositive DEF LifeStep
  <1>2. /\ [rw EXCEPT !.state = "failed"] \in RowT
        /\ [rw EXCEPT !.state = "creating"] \in RowT
    BY DEF RowT, Transient
  <1>3. row' = rw \/ row' = [rw EXCEPT !.state = "failed"] \/ row' = [rw EXCEPT !.state = "creating"]
    BY DEF Throws
  <1>4. /\ row' \in RowT
        /\ row'.containerId = rw.containerId /\ row'.backups = rw.backups
        /\ row'.deleted = rw.deleted /\ (row'.state = "absent" => rw.state = "absent")
    BY <1>2, <1>3 DEF RowT
  <1> QED  BY <1>1, <1>4, FailedIs DEF Throws, Ends

LEMMA ThrowsCancelledIs ==
    ASSUME TypeOK, NEW k \in Jobs, NEW rw \in RowT, NEW j \in JobT, j.state = "running",
           j.attempts > 0, ThrowsCancelled(k, rw, j)
    PROVE  \E new \in JobT :
              /\ job' = [job EXCEPT ![k] = new]
              /\ run' = [run EXCEPT ![k] = NoRun]
              /\ LifeStep(j, new, MaxAttempts[k]) /\ SameWork(j, new)
              /\ new.state \in {"queued", "cancelled"}
              /\ row' = rw
  <1>1. CASE j.cancelRequested /\ process = "up"
    <2>1. PICK new : new = [j EXCEPT !.state = "cancelled"]
      OBVIOUS
    <2>2. /\ new \in JobT /\ SameWork(j, new) /\ new.state = "cancelled"
          /\ new.attempts = j.attempts
      BY <2>1 DEF JobT, SameWork
    <2>3. LifeStep(j, new, MaxAttempts[k])
      BY <2>2 DEF LifeStep
    <2> QED  BY <1>1, <2>1, <2>2, <2>3 DEF ThrowsCancelled, Ends
  <1>2. CASE ~(j.cancelRequested /\ process = "up")
    <2>1. LifeStep(j, Released(j), MaxAttempts[k])
      BY ReleasedIs DEF LifeStep
    <2> QED  BY <1>2, <2>1, ReleasedIs DEF ThrowsCancelled, Ends
  <1> QED  BY <1>1, <1>2

LEMMA Sets == TypeOK <=> /\ row \in RowT /\ job \in [Jobs -> JobT] /\ run \in [Jobs -> RunT]
                         /\ api \in ApiT
                         /\ rec \in [pc : {"off", "inspect", "write"},
                                     state : {"running", "stopped", "failed"}, cid : Nat]
                         /\ docker \in DockerT
                         /\ process \in {"up", "stopping", "down"} /\ downs \in 0..MaxDowns
  BY DEF TypeOK, RowT, JobT, RunT, ApiT, DockerT

\* Either the next call, or all calls are made.
LEMMA GoesIs ==
    ASSUME NEW k \in Jobs, NEW j \in JobT, NEW rw \in RowT, NEW cid \in Nat,
           NEW i \in 1..(Last(k) + 1), Goes(k, i, cid, rw, j)
    PROVE  /\ job' = [job EXCEPT ![k] = j]
           /\ row' \in RowT /\ row'.backups = rw.backups
           /\ row'.state = "absent" => rw.state = "absent"
           /\ row'.deleted = rw.deleted \/ (k # Creation /\ row'.deleted)
           /\ \E r \in RunT :
                /\ run' = [run EXCEPT ![k] = r]
                /\ \/ i <= Last(k) /\ r.pc = "call" /\ r.call = i /\ row' = rw
                   \/ /\ i = Last(k) + 1 /\ r.pc = "done"
                      /\ k = Creation => row'.containerId = rw.containerId
                      /\ k # Creation => row'.deleted
  <1>1. Last(k) \in 1..9
    BY CreationTable, DeletionTable DEF Jobs
  <1>2. CASE i <= Last(k)
    <2>1. PICK r : r = [pc |-> "call", call |-> i, cid |-> cid]
      OBVIOUS
    <2>2. r \in RunT /\ r.pc = "call" /\ r.call = i
      BY <1>1, <1>2, <2>1 DEF RunT
    <2>3. run' = [run EXCEPT ![k] = r] /\ row' = rw /\ job' = [job EXCEPT ![k] = j]
      BY <1>1, <1>2, <2>1 DEF Goes
    <2>4. \E r1 \in RunT : /\ run' = [run EXCEPT ![k] = r1]
                           /\ i <= Last(k) /\ r1.pc = "call" /\ r1.call = i /\ row' = rw
      BY <1>2, <2>2, <2>3
    <2>5. /\ row' \in RowT /\ row'.backups = rw.backups /\ row'.deleted = rw.deleted
          /\ row'.state = "absent" => rw.state = "absent"
      BY <2>3
    <2> QED  BY <2>3, <2>4, <2>5
  <1>3. CASE ~(i <= Last(k))
    <2>1. PICK r : r = [pc |-> "done", call |-> Last(k), cid |-> cid]
      OBVIOUS
    <2>2. r \in RunT /\ r.pc = "done"
      BY <1>1, <2>1 DEF RunT
    <2>3. /\ run' = [run EXCEPT ![k] = r] /\ job' = [job EXCEPT ![k] = j]
          /\ row' = IF k = Creation THEN [rw EXCEPT !.state = "running"]
                    ELSE [rw EXCEPT !.deleted = TRUE, !.containerId = 0]
      BY <1>1, <1>3, <2>1 DEF Goes
    <2>4. i = Last(k) + 1
      BY <1>1, <1>3
    <2>5. CASE k = Creation
      <3>1. row' = [rw EXCEPT !.state = "running"]
        BY <2>3, <2>5
      <3>2. /\ row' \in RowT /\ row'.backups = rw.backups /\ row'.state # "absent"
            /\ row'.deleted = rw.deleted /\ row'.containerId = rw.containerId
        BY <3>1 DEF RowT
      <3>3. \E r1 \in RunT : /\ run' = [run EXCEPT ![k] = r1]
                             /\ i = Last(k) + 1 /\ r1.pc = "done"
                             /\ row'.containerId = rw.containerId
        BY <2>2, <2>3, <2>4, <3>2
      <3> QED  BY <2>3, <2>5, <3>2, <3>3
    <2>6. CASE k # Creation
      <3>1. PICK half : half = [rw EXCEPT !.deleted = TRUE]
        OBVIOUS
      <3>2. half \in RowT /\ half.backups = rw.backups /\ half.state = rw.state /\ half.deleted
        BY <3>1 DEF RowT
      <3>3. row' = [half EXCEPT !.containerId = 0]
        BY <2>3, <2>6, <3>1
      <3>4. /\ row' \in RowT /\ row'.backups = rw.backups /\ row'.state = rw.state /\ row'.deleted
        BY <3>2, <3>3 DEF RowT
      <3> QED  BY <2>2, <2>3, <2>4, <2>6, <3>4
    <2> QED  BY <2>5, <2>6
  <1> QED  BY <1>2, <1>3

\* The continuation of a call: adopt, record, checkpoint, and go on or stop.
LEMMA ContinueIs ==
    ASSUME TypeOK, Running, Placed, NEW k \in Jobs, Continue(k)
    PROVE  \E at \in 1..Last(k), j \in JobT, rw \in RowT :
              /\ \/ at = run[k].call
                 \/ k = Creation /\ run[k].call = 5 /\ at = 6 /\ run[k].cid # 0
              /\ j.completedSteps = IF StepAfter(k, at) = 0 THEN job[k].completedSteps
                                    ELSE StepAfter(k, at)
              /\ j.alone = job[k].alone /\ j.state = "running" /\ j.attempts = job[k].attempts
              /\ rw.state = row.state /\ rw.deleted = row.deleted
              /\ rw.containerId = IF k = Creation /\ at = 6 THEN run[k].cid ELSE row.containerId
              /\ rw.backups = IF k = Creation /\ at = 9 THEN TRUE ELSE row.backups
              /\ \/ k = Creation /\ at = 6 /\ run[k].cid = 0 /\ Throws(k, rw, j)
                 \/ k = Creation /\ ThrowsCancelled(k, rw, j)
                 \/ \E cid \in Nat : Goes(k, at + 1, cid, rw, j)
  <1> USE Sets
  <1>1. PICK i, cid : i = run[k].call /\ cid = run[k].cid
    OBVIOUS
  <1>2. /\ i \in 1..Last(k) /\ cid \in Nat /\ job[k].state = "running"
        /\ job[k] \in JobT
    BY <1>1 DEF Continue, Placed, Running, RunT
  <1>3. PICK at : at = IF Calls(k)[i] = "list" /\ cid # 0 THEN i + 1 ELSE i
    OBVIOUS
  <1>4. /\ at \in 1..Last(k)
        /\ at = i \/ (k = Creation /\ i = 5 /\ at = 6 /\ cid # 0)
    <2>1. CASE k = Creation
      <3>1. \A n \in 1..9 : CreateCalls[n] = "list" => n = 5
        BY DEF CreateCalls
      <3> QED  BY <1>2, <1>3, <2>1, <3>1, CreationTable
    <2>2. CASE k \in Deletions
      <3>1. \A n \in 1..5 : DeleteCalls[n] # "list"
        BY DEF DeleteCalls
      <3> QED  BY <1>2, <1>3, <2>2, <3>1, DeletionTable
    <2> QED  BY <2>1, <2>2 DEF Jobs
  <1>5. PICK j : j = IF StepAfter(k, at) = 0 THEN job[k]
                     ELSE [job[k] EXCEPT !.completedSteps = StepAfter(k, at)]
    OBVIOUS
  <1>6. /\ j \in JobT /\ j.alone = job[k].alone /\ j.state = "running"
        /\ j.attempts = job[k].attempts
        /\ j.completedSteps = IF StepAfter(k, at) = 0 THEN job[k].completedSteps
                              ELSE StepAfter(k, at)
    <2>1. StepAfter(k, at) \in 0..7
      BY <1>4, CreationTable, DeletionTable DEF Jobs
    <2>2. CASE StepAfter(k, at) = 0
      BY <1>2, <1>5, <2>2
    <2>3. CASE StepAfter(k, at) # 0
      BY <1>2, <1>5, <2>1, <2>3 DEF JobT
    <2> QED  BY <2>2, <2>3
  <1>7. PICK rw : rw = Recorded(k, at, cid)
    OBVIOUS
  <1>8. /\ rw \in RowT /\ rw.state = row.state /\ rw.deleted = row.deleted
        /\ rw.containerId = IF k = Creation /\ at = 6 THEN cid ELSE row.containerId
        /\ rw.backups = IF k = Creation /\ at = 9 THEN TRUE ELSE row.backups
    <2>1. CASE k = Creation /\ at = 6
      <3>1. rw = [row EXCEPT !.containerId = cid]
        BY <1>7, <2>1, CreationTable DEF Recorded, CreateCalls
      <3> QED  BY <1>2, <2>1, <3>1 DEF RowT
    <2>2. CASE k = Creation /\ at = 9
      <3>1. rw = [row EXCEPT !.backups = TRUE]
        BY <1>7, <2>2, CreationTable DEF Recorded, CreateCalls
      <3>2. /\ rw \in RowT /\ rw.state = row.state /\ rw.deleted = row.deleted
            /\ rw.containerId = row.containerId /\ rw.backups = TRUE
        BY <3>1 DEF RowT
      <3>3. at # 6
        BY <2>2
      <3>4. rw.backups = IF k = Creation /\ at = 9 THEN TRUE ELSE row.backups
        BY <2>2, <3>2, Zenon
      <3> QED  BY <3>2, <3>3, <3>4
    <2>3. CASE k = Creation /\ at \notin {6, 9}
      <3>1. rw = row
        BY <1>4, <1>7, <2>3, CreationTable DEF Recorded, CreateCalls
      <3> QED  BY <2>3, <3>1
    <2>4. CASE k \in Deletions
      <3>1. rw = row
        BY <1>4, <1>7, <2>4, DeletionTable DEF Recorded, DeleteCalls
      <3> QED  BY <2>4, <3>1, DeletionTable
    <2> QED  BY <2>1, <2>2, <2>3, <2>4 DEF Jobs
  <1>9. ReadsBack(k, at + 1) <=> k = Creation /\ at = 6
    <2>1. at + 1 - 1 = at
      BY <1>4
    <2>2. CASE k = Creation
      BY <1>4, <2>1, <2>2, CreationTable DEF ReadsBack, CreateSteps
    <2> QED  BY <2>2 DEF ReadsBack
  <1>10. IF ReadsBack(k, at + 1) /\ rw.containerId = 0
         THEN Throws(k, rw, j)
         ELSE \/ k = Creation /\ ThrowsCancelled(k, rw, j)
              \/ Goes(k, at + 1, IF ReadsBack(k, at + 1) THEN rw.containerId ELSE cid, rw, j)
    BY <1>1, <1>3, <1>5, <1>7 DEF Continue
  <1>11. \/ k = Creation /\ at = 6 /\ cid = 0 /\ Throws(k, rw, j)
         \/ k = Creation /\ ThrowsCancelled(k, rw, j)
         \/ \E cid2 \in Nat : Goes(k, at + 1, cid2, rw, j)
    BY <1>2, <1>8, <1>9, <1>10 DEF RowT
  <1> QED  BY <1>1, <1>4, <1>6, <1>8, <1>11

\* A claim: refused, over before it began, or on with the call behind the checkpoint.
LEMMA ClaimIs ==
    ASSUME TypeOK, Running, Placed, NEW k \in Jobs, Claim(k)
    PROVE  /\ run[k].pc = "off" /\ job[k].state \in {"queued", "running"}
           /\ Claimed(job[k]) \in JobT /\ LifeStep(job[k], Claimed(job[k]), MaxAttempts[k])
           /\ job' = [job EXCEPT ![k] = Claimed(job[k])]
           /\ row' \in RowT /\ row'.backups = row.backups
           /\ row'.state = "absent" => row.state = "absent"
           /\ row'.deleted = row.deleted \/ (k # Creation /\ row'.deleted)
           /\ \E r \in RunT :
                /\ run' = [run EXCEPT ![k] = r]
                /\ \/ r.pc \in {"refused", "error"} /\ k = Creation
                      /\ row'.containerId = row.containerId
                   \/ r.pc = "done" /\ k # Creation /\ row.deleted /\ row' = row
                   \/ /\ r.pc = "call" /\ r.call \in 1..Last(k)
                      /\ job[k].completedSteps = Before(k, r.call)
                      /\ r.call # IF k = Creation THEN 3 ELSE 4
                      /\ row'.containerId = row.containerId /\ row'.deleted = row.deleted
                   \/ /\ r.pc = "done" /\ k = Creation /\ job[k].completedSteps = 7
                      /\ row'.containerId = row.containerId
                   \/ /\ r.pc = "done" /\ k # Creation /\ job[k].completedSteps = 4
                      /\ row'.deleted
           /\ UNCHANGED <<api, rec, docker, process, downs>>
  <1> USE Sets
  <1>1. /\ run[k].pc = "off" /\ job[k].state \in {"queued", "running"} /\ job[k] \in JobT
        /\ job[k].attempts < MaxAttempts[k]
        /\ UNCHANGED <<api, rec, docker, process, downs>>
    BY DEF Claim, Claimable, Unsettled
  <1>2. Claimed(job[k]) \in JobT /\ LifeStep(job[k], Claimed(job[k]), MaxAttempts[k])
    BY <1>1, ClaimedIs DEF LifeStep
  <1>3. PICK rw : rw = IF k = Creation THEN [row EXCEPT !.state = "creating"] ELSE row
    OBVIOUS
  <1>4. /\ rw \in RowT /\ rw.backups = row.backups /\ rw.deleted = row.deleted
        /\ rw.containerId = row.containerId
        /\ rw.state = "absent" => row.state = "absent"
    <2>1. CASE k = Creation
      <3>1. rw = [row EXCEPT !.state = "creating"]
        BY <1>3, <2>1
      <3> QED  BY <3>1 DEF RowT, Transient
    <2>2. CASE k # Creation
      BY <1>3, <2>2
    <2> QED  BY <2>1, <2>2
  <1>5. PICK i : i = Entry(k, job[k].completedSteps)
    OBVIOUS
  <1>6. /\ i \in 1..(Last(k) + 1)
        /\ i <= Last(k) => /\ job[k].completedSteps = Before(k, i)
                           /\ i # IF k = Creation THEN 3 ELSE 4
        /\ i = Last(k) + 1 => job[k].completedSteps = IF k = Creation THEN 7 ELSE 4
    <2>1. CASE k = Creation
      <3>1. job[k].completedSteps \in 0..7
        BY <1>1 DEF JobT
      <3> QED  BY <1>5, <2>1, <3>1, CreationEntry, CreationTable
    <2>2. CASE k \in Deletions
      <3>1. job[k].completedSteps \in 0..4
        BY <1>1, <2>2, DeletionTable DEF JobT, Placed
      <3> QED  BY <1>5, <2>2, <3>1, DeletionEntry, DeletionTable
    <2> QED  BY <2>1, <2>2 DEF Jobs
  <1>7. CASE /\ row.deleted
             /\ run' = [run EXCEPT ![k] = [NoRun EXCEPT !.pc = IF k = Creation THEN "refused" ELSE "done"]]
             /\ job' = [job EXCEPT ![k] = Claimed(job[k])] /\ UNCHANGED row
    <2>1. PICK r : r = [NoRun EXCEPT !.pc = IF k = Creation THEN "refused" ELSE "done"]
      OBVIOUS
    <2>2. r \in RunT /\ r.pc = IF k = Creation THEN "refused" ELSE "done"
      BY <2>1 DEF NoRun, RunT
    <2>3. run' = [run EXCEPT ![k] = r] /\ row' = row /\ row.deleted
          /\ job' = [job EXCEPT ![k] = Claimed(job[k])]
      BY <1>7, <2>1
    <2>4. \E r1 \in RunT :
             /\ run' = [run EXCEPT ![k] = r1]
             /\ \/ r1.pc = "refused" /\ k = Creation
                \/ r1.pc = "done" /\ k # Creation
      BY <2>2, <2>3
    <2> QED  BY <1>1, <1>2, <2>3, <2>4
  <1>8. CASE /\ k = Creation /\ run' = [run EXCEPT ![k] = [NoRun EXCEPT !.pc = "error"]]
             /\ job' = [job EXCEPT ![k] = Claimed(job[k])] /\ row' = rw
    <2>1. PICK r : r = [NoRun EXCEPT !.pc = "error"]
      OBVIOUS
    <2>2. r \in RunT /\ r.pc = "error"
      BY <2>1 DEF NoRun, RunT
    <2>3. run' = [run EXCEPT ![k] = r]
      BY <1>8, <2>1
    <2> QED  BY <1>1, <1>2, <1>4, <1>8, <2>2, <2>3
  <1>9. ASSUME NEW cid \in Nat, Goes(k, i, cid, rw, Claimed(job[k])), ~row.deleted
        PROVE  /\ job' = [job EXCEPT ![k] = Claimed(job[k])]
               /\ row' \in RowT /\ row'.backups = row.backups
               /\ row'.state = "absent" => row.state = "absent"
               /\ row'.deleted = row.deleted \/ (k # Creation /\ row'.deleted)
               /\ \E r \in RunT :
                    /\ run' = [run EXCEPT ![k] = r]
                    /\ \/ /\ r.pc = "call" /\ r.call \in 1..Last(k)
                          /\ job[k].completedSteps = Before(k, r.call)
                          /\ r.call # IF k = Creation THEN 3 ELSE 4
                          /\ row'.containerId = row.containerId /\ row'.deleted = row.deleted
                       \/ /\ r.pc = "done" /\ k = Creation /\ job[k].completedSteps = 7
                          /\ row'.containerId = row.containerId
                       \/ /\ r.pc = "done" /\ k # Creation /\ job[k].completedSteps = 4
                          /\ row'.deleted
    <2>1. /\ job' = [job EXCEPT ![k] = Claimed(job[k])]
          /\ row' \in RowT /\ row'.backups = rw.backups
          /\ row'.state = "absent" => rw.state = "absent"
          /\ row'.deleted = rw.deleted \/ (k # Creation /\ row'.deleted)
      BY <1>2, <1>4, <1>6, <1>9, GoesIs
    <2>2. PICK r \in RunT :
                /\ run' = [run EXCEPT ![k] = r]
                /\ \/ i <= Last(k) /\ r.pc = "call" /\ r.call = i /\ row' = rw
                   \/ /\ i = Last(k) + 1 /\ r.pc = "done"
                      /\ k = Creation => row'.containerId = rw.containerId
                      /\ k # Creation => row'.deleted
      BY <1>2, <1>4, <1>6, <1>9, GoesIs
    <2>3. \/ /\ r.pc = "call" /\ r.call \in 1..Last(k)
             /\ job[k].completedSteps = Before(k, r.call)
             /\ r.call # IF k = Creation THEN 3 ELSE 4
             /\ row'.containerId = row.containerId /\ row'.deleted = row.deleted
          \/ /\ r.pc = "done" /\ k = Creation /\ job[k].completedSteps = 7
             /\ row'.containerId = row.containerId
          \/ /\ r.pc = "done" /\ k # Creation /\ job[k].completedSteps = 4
             /\ row'.deleted
      BY <1>4, <1>6, <2>2
    <2> QED  BY <1>4, <2>1, <2>2, <2>3
  <1>10. \/ /\ row.deleted
            /\ run' = [run EXCEPT ![k] = [NoRun EXCEPT !.pc = IF k = Creation THEN "refused" ELSE "done"]]
            /\ job' = [job EXCEPT ![k] = Claimed(job[k])] /\ UNCHANGED row
         \/ /\ k = Creation /\ run' = [run EXCEPT ![k] = [NoRun EXCEPT !.pc = "error"]]
            /\ job' = [job EXCEPT ![k] = Claimed(job[k])] /\ row' = rw
         \/ \E cid \in Nat : Goes(k, i, cid, rw, Claimed(job[k])) /\ ~row.deleted
    BY <1>3, <1>5 DEF Claim, RowT
  <1>11. CASE \E cid \in Nat : Goes(k, i, cid, rw, Claimed(job[k])) /\ ~row.deleted
    BY <1>1, <1>2, <1>9, <1>11
  <1> QED  BY <1>7, <1>8, <1>10, <1>11

\* Docker answers a handler.
LEMMA CallReturnsIs ==
    ASSUME TypeOK, Running, Placed, NEW k \in Jobs, CallReturns(k)
    PROVE  /\ run[k].pc = "call" /\ run[k].call \in 1..Last(k) /\ docker' \in DockerT
           /\ UNCHANGED <<row, job, api, rec, process, downs>>
           /\ \E r \in RunT :
                /\ run' = [run EXCEPT ![k] = r] /\ r.call = run[k].call
                /\ \/ /\ r.pc = "ok" /\ Succeeds(Calls(k)[r.call], run[k].cid)
                      /\ docker' = Effect(Calls(k)[r.call], run[k].cid)
                      /\ Calls(k)[r.call] \in {"list", "container"} => r.cid = docker'.container
                   \/ r.pc = "error" /\ docker' = docker
  <1> USE Sets
  <1>1. PICK call, cid, old : call = Calls(k)[run[k].call] /\ cid = run[k].cid /\ old = run[k]
    OBVIOUS
  <1>2. /\ old \in RunT /\ old.pc = "call" /\ old.call \in 1..Last(k)
        /\ UNCHANGED <<row, job, api, rec, process, downs>>
    BY <1>1 DEF CallReturns, Placed
  <1>3. call \in CallNames
    <2>1. CASE k = Creation
      BY <1>1, <1>2, <2>1, CreationTable DEF CreateCalls, CallNames
    <2>2. CASE k \in Deletions
      BY <1>1, <1>2, <2>2, DeletionTable DEF DeleteCalls, CallNames
    <2> QED  BY <2>1, <2>2 DEF Jobs
  <1>4. CASE /\ Succeeds(call, cid) /\ docker' = Effect(call, cid)
             /\ run' = [run EXCEPT ![k].pc = "ok",
                                   ![k].cid = IF call \in {"list", "container"}
                                              THEN docker'.container ELSE @]
    <2>1. docker' \in DockerT
      BY <1>3, <1>4, EffectTyped
    <2>2. PICK new : new = IF call \in {"list", "container"} THEN docker'.container ELSE old.cid
      OBVIOUS
    <2>3. new \in Nat
      BY <1>2, <2>1, <2>2 DEF DockerT, RunT
    <2>4. PICK r : r = [pc |-> "ok", call |-> old.call, cid |-> new]
      OBVIOUS
    <2>5. r \in RunT /\ r.pc = "ok" /\ r.call = old.call /\ r.cid = new
      BY <1>2, <2>3, <2>4 DEF RunT
    <2>6. run' = [run EXCEPT ![k] = r]
      <3>1. PICK half : half = [old EXCEPT !.pc = "ok"]
        OBVIOUS
      <3>2. /\ half.cid = old.cid /\ half \in RunT
            /\ r = [half EXCEPT !.cid = new]
        <4>1. half = [pc |-> "ok", call |-> old.call, cid |-> old.cid]
          BY <1>2, <3>1 DEF RunT
        <4> QED  BY <1>2, <2>4, <4>1 DEF RunT
      <3>3. PICK mid : mid = [run EXCEPT ![k].pc = "ok"]
        OBVIOUS
      <3>4. mid = [run EXCEPT ![k] = half] /\ mid[k] = half
        BY <1>1, <3>1, <3>3
      <3>5. run' = [mid EXCEPT ![k].cid = new]
        BY <1>1, <1>4, <2>2, <3>2, <3>3, <3>4
      <3> QED  BY <3>2, <3>4, <3>5
    <2> QED  BY <1>1, <1>2, <1>4, <2>1, <2>2, <2>5, <2>6
  <1>5. CASE run' = [run EXCEPT ![k].pc = "error"] /\ UNCHANGED docker
    <2>1. PICK r : r = [old EXCEPT !.pc = "error"]
      OBVIOUS
    <2>2. r \in RunT /\ r.pc = "error" /\ r.call = old.call
      BY <1>2, <2>1 DEF RunT
    <2>3. run' = [run EXCEPT ![k] = r]
      BY <1>1, <1>5, <2>1
    <2> QED  BY <1>1, <1>2, <1>5, <2>2, <2>3
  <1> QED  BY <1>1, <1>4, <1>5 DEF CallReturns

\* The jobs and their handlers after a step.
Moved == /\ job' \in [Jobs -> JobT] /\ run' \in [Jobs -> RunT]
         /\ \A k \in Jobs : /\ LifeStep(job[k], job'[k], MaxAttempts[k])
                            /\ run'[k].pc # "off" => job'[k].state = "running"

LEMMA OneMoves ==
    ASSUME TypeOK, Running, NEW k \in Jobs, NEW j \in JobT, NEW r \in RunT,
           job' = [job EXCEPT ![k] = j], run' = [run EXCEPT ![k] = r],
           LifeStep(job[k], j, MaxAttempts[k]), r.pc # "off" => j.state = "running"
    PROVE  Moved
  BY Sets DEF Moved, Running, LifeStep

LEMMA OneRowMoves ==
    ASSUME TypeOK, Running, NEW k \in Jobs, NEW j \in JobT,
           job' = [job EXCEPT ![k] = j], run' = run,
           LifeStep(job[k], j, MaxAttempts[k]), run[k].pc # "off" => j.state = "running"
    PROVE  Moved
  BY Sets DEF Moved, Running, LifeStep

LEMMA NobodyMoves ==
    ASSUME TypeOK, Running, job' = job, run' = run \/ run' = [k \in Jobs |-> NoRun]
    PROVE  Moved
  <1>1. NoRun \in RunT /\ NoRun.pc = "off"
    BY DEF NoRun, RunT
  <1> QED  BY <1>1, Sets DEF Moved, Running, LifeStep

LEMMA QueuedIs ==
    /\ Queued \in JobT /\ Queued.state = "queued" /\ Queued.attempts = 0
    /\ Queued.completedSteps = 0 /\ Queued.alone = AtRest
  <1>1. NoJob \in JobT /\ NoJob.attempts = 0 /\ NoJob.completedSteps = 0
    BY DEF NoJob, JobT
  <1>2. PICK at : at = AtRest
    OBVIOUS
  <1>3. at \in BOOLEAN
    BY <1>2 DEF AtRest
  <1>4. PICK half : half = [NoJob EXCEPT !.state = "queued"]
    OBVIOUS
  <1>5. half \in JobT /\ half.attempts = 0 /\ half.completedSteps = 0 /\ half.state = "queued"
    BY <1>1, <1>4 DEF JobT
  <1>6. Queued = [half EXCEPT !.alone = at]
    BY <1>2, <1>4 DEF Queued
  <1> QED  BY <1>2, <1>3, <1>5, <1>6 DEF JobT

\* A cancellation of a queued job ends it; a running one is only asked.
LEMMA RequestCancelIs ==
    ASSUME TypeOK, NEW k \in Jobs, RequestCancel(k)
    PROVE  \E j \in JobT : /\ job' = [job EXCEPT ![k] = j] /\ SameWork(job[k], j)
                           /\ LifeStep(job[k], j, MaxAttempts[k])
                           /\ j.state = IF job[k].state = "queued" THEN "cancelled"
                                        ELSE "running"
  <1>1. job[k] \in JobT /\ job[k].state \in {"queued", "running"}
    BY Sets DEF RequestCancel, Unsettled
  <1>2. PICK asked : asked = [job[k] EXCEPT !.cancelRequested = TRUE]
    OBVIOUS
  <1>3. /\ asked \in JobT /\ SameWork(job[k], asked) /\ asked.attempts = job[k].attempts
        /\ asked.state = job[k].state
    BY <1>1, <1>2 DEF JobT, SameWork
  <1>4. PICK s : s = IF job[k].state = "queued" THEN "cancelled" ELSE job[k].state
    OBVIOUS
  <1>5. PICK j : j = [asked EXCEPT !.state = s]
    OBVIOUS
  <1>6. /\ j \in JobT /\ SameWork(asked, j) /\ j.attempts = asked.attempts /\ j.state = s
    BY <1>1, <1>3, <1>4, <1>5 DEF JobT, SameWork
  <1>7. job' = [job EXCEPT ![k] = j]
    BY <1>1, <1>2, <1>3, <1>4, <1>5, Sets DEF RequestCancel
  <1>8. LifeStep(job[k], j, MaxAttempts[k])
    BY <1>1, <1>3, <1>4, <1>6 DEF LifeStep
  <1> QED  BY <1>1, <1>3, <1>4, <1>6, <1>7, <1>8 DEF SameWork

RecT == [pc : {"off", "inspect", "write"}, state : {"running", "stopped", "failed"}, cid : Nat]

\* Everything but the jobs and their handlers.
Others ==
    /\ row \in RowT /\ api \in ApiT /\ rec \in RecT /\ docker \in DockerT
    /\ process \in {"up", "stopping", "down"} /\ downs \in 0..MaxDowns
    /\ api.pc = "call" => api.todo # <<>>

LEMMA OthersNow == TypeOK /\ Running => Others
  BY Sets DEF Others, Running, RecT

LEMMA NothingIsTyped == NoRequest \in ApiT /\ NoRequest.pc = "off" /\ NoVisit \in RecT
  BY DEF NoRequest, ApiT, NoVisit, RecT

\* setRunning(), the reconciler, the host.
LEMMA AsideTyped ==
    ASSUME TypeOK, Running,
           \/ \E action \in {"start", "stop", "restart"} : SetRunning(action)
           \/ SetRunningCall \/ SetRunningWrites \/ Visit \/ Inspect \/ Correct
           \/ ContainerStops \/ ContainerRestarts \/ ContainerRemoved
    PROVE  /\ Others' /\ job' = job /\ run' = run
           /\ docker'.objects = docker.objects /\ docker'.container \in {0, docker.container}
           /\ row'.deleted = row.deleted /\ row'.containerId = row.containerId
           /\ row'.backups = row.backups /\ (row'.state = "absent" => row.state = "absent")
  <1> USE OthersNow, NothingIsTyped
  <1>1. ASSUME NEW action \in {"start", "stop", "restart"}, SetRunning(action)
        PROVE  api' \in ApiT /\ api'.todo # <<>>
    <2>1. PICK todo, target, cid :
             /\ todo = IF action = "restart" THEN <<"stop", "start">> ELSE <<action>>
             /\ target = IF action = "stop" THEN "stopped" ELSE "running"
             /\ cid = row.containerId
      OBVIOUS
    <2>2. target \in {"running", "stopped"} /\ cid \in Nat
      BY <2>1 DEF Others, RowT
    <2>3. todo \in Seq({"start", "stop"}) /\ todo # <<>>
      <3>1. CASE action = "restart"
        BY <2>1, <3>1
      <3>2. CASE action # "restart"
        <4>1. action \in {"start", "stop"} /\ todo = <<action>>
          BY <2>1, <3>2
        <4> QED  BY <4>1
      <3> QED  BY <3>1, <3>2
    <2>4. api' = [pc |-> "call", cid |-> cid, todo |-> todo, target |-> target]
      BY <1>1, <2>1 DEF SetRunning
    <2> QED  BY <2>2, <2>3, <2>4 DEF ApiT
  <1>2. CASE SetRunningCall
    <2>1. PICK todo : todo = api.todo
      OBVIOUS
    <2>2. /\ todo \in Seq({"start", "stop"}) /\ todo # <<>>
          /\ UNCHANGED <<row, job, run, rec, process, downs>>
      BY <1>2, <2>1 DEF SetRunningCall, Others, ApiT
    <2>3. /\ Head(todo) \in {"start", "stop"} /\ Tail(todo) \in Seq({"start", "stop"})
          /\ Len(todo) # 1 => Tail(todo) # <<>>
      <3>1. PICK n : n = Len(todo)
        OBVIOUS
      <3>2. n \in Nat /\ n # 0
        BY <2>2, <3>1
      <3>3. Head(todo) = todo[1] /\ todo[1] \in {"start", "stop"}
        BY <2>2, <3>1, <3>2
      <3>4. Tail(todo) \in Seq({"start", "stop"}) /\ Len(Tail(todo)) = n - 1
        BY <2>2, <3>1, <3>2
      <3>5. ASSUME n # 1 PROVE Tail(todo) # <<>>
        <4>1. n - 1 # 0
          BY <3>2, <3>5
        <4>2. Len(<<>>) = 0
          OBVIOUS
        <4> QED  BY ONLY <3>4, <4>1, <4>2
      <3> QED  BY <3>1, <3>3, <3>4, <3>5
    <2>4. CASE docker' = docker /\ api' = NoRequest
      BY <2>2, <2>4 DEF Others
    <2>5. CASE /\ docker' = Effect(Head(todo), api.cid)
               /\ api' = [api EXCEPT !.todo = Tail(@),
                                     !.pc = IF Len(api.todo) = 1 THEN "write" ELSE "call"]
      <3>1. PICK half : half = [api EXCEPT !.todo = Tail(todo)]
        OBVIOUS
      <3>2. half \in ApiT /\ half.todo = Tail(todo)
        BY <2>3, <3>1 DEF Others, ApiT
      <3>3. PICK pc : pc = IF Len(todo) = 1 THEN "write" ELSE "call"
        OBVIOUS
      <3>4. api' = [half EXCEPT !.pc = pc]
        BY <2>1, <2>5, <3>1, <3>3
      <3>5. api' \in ApiT /\ (api'.pc = "call" => api'.todo # <<>>)
        BY <2>3, <3>2, <3>3, <3>4 DEF ApiT
      <3>6. Head(todo) \in CallNames
        BY <2>3 DEF CallNames
      <3>7. docker' \in DockerT
        BY <2>5, <3>6, EffectTyped DEF Others
      <3>8. docker'.objects = docker.objects /\ docker'.container = docker.container
        <4>1. \E b \in BOOLEAN : docker' = [docker EXCEPT !.up = b]
          BY <2>3, <2>5, <3>6, Effects DEF Others, DockerT
        <4> QED  BY <4>1 DEF Others, DockerT
      <3> QED  BY <2>2, <3>5, <3>7, <3>8 DEF Others
    <2> QED  BY <1>2, <2>1, <2>4, <2>5 DEF SetRunningCall
  <1>3. ASSUME NEW s \in {"running", "stopped", "failed"}, row' = [row EXCEPT !.state = s]
        PROVE  /\ row' \in RowT
               /\ row'.deleted = row.deleted /\ row'.containerId = row.containerId
               /\ row'.backups = row.backups /\ (row'.state = "absent" => row.state = "absent")
    BY <1>3 DEF Others, RowT
  <1>4. CASE SetRunningWrites
    <2>1. api.target \in {"running", "stopped", "failed"}
      BY DEF Others, ApiT
    <2> QED  BY <1>3, <1>4, <2>1 DEF SetRunningWrites, Others
  <1>5. CASE Correct
    <2>1. rec.state \in {"running", "stopped", "failed"}
      BY DEF Others, RecT
    <2> QED  BY <1>3, <1>5, <2>1 DEF Correct, Others
  <1>6. CASE Visit
    <2>1. row.state \in {"running", "stopped", "failed"} /\ row.containerId \in Nat
      BY <1>6 DEF Visit, Others, RowT, Transient
    <2>2. rec' = [pc |-> "inspect", state |-> row.state, cid |-> row.containerId]
      BY <1>6 DEF Visit, NoVisit
    <2>3. rec' \in RecT
      BY <2>1, <2>2 DEF RecT
    <2> QED  BY <1>6, <2>3 DEF Visit, Others
  <1>7. CASE Inspect
    <2>1. PICK info : info = IF rec.cid = 0 \/ docker.container # rec.cid THEN "missing"
                             ELSE IF docker.up THEN "running"
                             ELSE "exited"
      OBVIOUS
    <2>2. PICK verdict : verdict = Verdict(rec.state, info)
      OBVIOUS
    <2>3. verdict \in {"running", "stopped", "failed"}
      BY <2>2 DEF Verdict, Others, RecT
    <2>4. rec' = NoVisit \/ rec' = [NoVisit EXCEPT !.pc = "write", !.state = verdict]
      BY <1>7, <2>1, <2>2 DEF Inspect
    <2>5. [NoVisit EXCEPT !.pc = "write", !.state = verdict] \in RecT
      BY <2>3 DEF NoVisit, RecT
    <2>6. rec' \in RecT
      BY <2>4, <2>5
    <2> QED  BY <1>7, <2>6 DEF Inspect, Others
  <1>8. CASE ContainerStops
    BY <1>8 DEF ContainerStops, Others, DockerT
  <1>9. CASE ContainerRestarts
    BY <1>9 DEF ContainerRestarts, Others, DockerT
  <1>10. CASE ContainerRemoved
    BY <1>10 DEF ContainerRemoved, Others, DockerT
  <1> QED  BY <1>1, <1>2, <1>4, <1>5, <1>6, <1>7, <1>8, <1>9, <1>10 DEF SetRunning, Others

-----------------------------------------------------------------------------
(* Steps that record nothing and make nothing: they may end a handler,     *)
(* write the state of the row, or lose the container.                      *)

RowStays ==
    /\ row'.deleted = row.deleted /\ row'.containerId = row.containerId
    /\ row'.backups = row.backups
    /\ row'.state = "absent" => row.state = "absent"

HostStays == docker'.objects = docker.objects /\ docker'.container \in {0, docker.container}

\* What became of the row j of a job and its handler r: new and rr.
JobStays(k, j, new, r, rr) ==
    /\ SameWork(j, new)
    /\ new.state = "absent" <=> j.state = "absent"
    /\ new.state \in {"queued", "running"} => j.state \in {"queued", "running"}
    /\ new.state = "succeeded" <=> j.state = "succeeded"
    /\ \/ rr = r
       \/ rr.pc \in {"off", "error"}
       \/ k = Creation /\ rr.pc = "refused"
       \/ k = Creation /\ rr.pc = "done" /\ j.completedSteps = 7
       \/ k # Creation /\ rr.pc = "done" /\ row.deleted

Quiet == /\ RowStays /\ HostStays
         /\ \A k \in Jobs : JobStays(k, job[k], job'[k], run[k], run'[k])

Told == Born /\ Placed /\ Provisioned /\ TornDown

LEMMA QuietKeeps == ASSUME Told, Quiet PROVE Told'
  <1> USE DEF Told, Quiet
  <1>1. /\ NoneAsked' <=> NoneAsked
        /\ AllAlone' <=> AllAlone
    BY DEF NoneAsked, AllAlone, JobStays, SameWork, Jobs
  <1>2. Born'
    BY <1>1 DEF Born, JobStays, RowStays
  <1>3. Placed'
    BY DEF Placed, JobStays, SameWork, RowStays
  <1>4. \A k \in Jobs, n \in 1..9 : Had(k, n)' => Had(k, n)
    BY DEF Had, JobStays
  <1>5. Provisioned'
    BY <1>1, <1>4 DEF Provisioned, JobStays, SameWork, RowStays, HostStays, Jobs
  <1>6. TornDown'
    <2> SUFFICES ASSUME AllAlone, ~NoneAsked
                 PROVE  /\ ~Unsettled(Creation)'
                        /\ \A k \in Deletions : Gone(k)'
                        /\ row'.deleted => docker'.container = 0 /\ docker'.objects = {}
      BY <1>1 DEF TornDown
    <2>1. ~Unsettled(Creation)'
      BY DEF TornDown, Unsettled, JobStays, Jobs
    <2>2. \A k \in Deletions : Gone(k)'
      BY <1>4 DEF TornDown, Gone, JobStays, SameWork, HostStays, Jobs
    <2>3. row'.deleted => docker'.container = 0 /\ docker'.objects = {}
      BY DEF TornDown, RowStays, HostStays
    <2> QED  BY <2>1, <2>2, <2>3
  <1> QED  BY <1>2, <1>3, <1>5, <1>6

\* Only job k and its handler are touched.
LEMMA QuietOne ==
    ASSUME TypeOK, RowStays, HostStays, NEW k \in Jobs, NEW j \in JobT, NEW r \in RunT,
           job' = [job EXCEPT ![k] = j], run' = [run EXCEPT ![k] = r],
           JobStays(k, job[k], j, run[k], r)
    PROVE  Quiet
  BY Sets DEF Quiet, JobStays, SameWork

LEMMA QuietNobody ==
    ASSUME TypeOK, RowStays, HostStays, job' = job, run' = run \/ run' = [k \in Jobs |-> NoRun]
    PROVE  Quiet
  BY DEF Quiet, JobStays, SameWork, NoRun

LEMMA NoRunIs == NoRun \in RunT /\ NoRun.pc = "off"
  BY DEF NoRun, RunT

\* An attempt that fails, is refused or interrupted; a cancellation; the sweep.
LEMMA AttemptEnds ==
    ASSUME TypeOK, Running, Told, NEW k \in Jobs,
           \/ CallThrows(k) \/ Refuses(k) \/ RequestCancel(k) \/ Sweep(k)
           \/ k = Creation /\ WaitAborted
    PROVE  /\ Moved /\ Quiet /\ row' \in RowT
           /\ UNCHANGED <<api, rec, docker, process, downs>>
  <1> USE Sets
  <1>1. PICK old : old = job[k]
    OBVIOUS
  <1>2. old \in JobT /\ row \in RowT /\ run[k] \in RunT
    BY <1>1
  <1>3. docker' = docker => HostStays
    BY DEF HostStays
  <1>4. ASSUME run[k].pc # "off" PROVE old.state = "running" /\ old.attempts > 0
    BY <1>1, <1>4 DEF Running
  <1>5. CASE CallThrows(k)
    <2>1. run[k].pc # "off" /\ Throws(k, row, old) /\ UNCHANGED <<api, rec, docker, process, downs>>
      BY <1>1, <1>5 DEF CallThrows
    <2>2. PICK new \in JobT :
             /\ new = FailedAttempt(k, old) /\ job' = [job EXCEPT ![k] = new]
             /\ run' = [run EXCEPT ![k] = NoRun] /\ LifeStep(old, new, MaxAttempts[k])
             /\ new.state \in {"queued", "failed"} /\ SameWork(old, new)
      BY <1>2, <1>4, <2>1, ThrowsIs, FailedIs
    <2>3. row' \in RowT /\ RowStays
      BY <1>2, <1>4, <2>1, ThrowsIs DEF RowStays
    <2>4. JobStays(k, job[k], new, run[k], NoRun)
      BY <1>1, <1>4, <2>1, <2>2, NoRunIs DEF JobStays
    <2> QED  BY <1>1, <1>3, <2>1, <2>2, <2>3, <2>4, NoRunIs, OneMoves, QuietOne
  <1>6. CASE Refuses(k)
    <2>1. /\ run[k].pc # "off" /\ row' = row /\ UNCHANGED <<api, rec, docker, process, downs>>
          /\ run' = [run EXCEPT ![k] = NoRun] /\ job' = [job EXCEPT ![k] = FailedAttempt(k, old)]
      BY <1>1, <1>6 DEF Refuses, Ends
    <2>2. PICK new \in JobT :
             /\ new = FailedAttempt(k, old) /\ SameWork(old, new) /\ new.attempts = old.attempts
             /\ new.state = IF old.attempts >= MaxAttempts[k] THEN "failed" ELSE "queued"
      BY <1>2, FailedIs
    <2>3. LifeStep(old, new, MaxAttempts[k])
      BY <1>2, <1>4, <2>1, <2>2, MaxIsPositive DEF LifeStep, JobT
    <2>4. RowStays
      BY <2>1 DEF RowStays
    <2>5. JobStays(k, job[k], new, run[k], NoRun)
      BY <1>1, <1>4, <2>1, <2>2, NoRunIs DEF JobStays
    <2> QED  BY <1>1, <1>2, <1>3, <2>1, <2>2, <2>3, <2>4, <2>5, NoRunIs, OneMoves, QuietOne
  <1>7. CASE RequestCancel(k)
    <2>1. PICK new \in JobT :
             /\ job' = [job EXCEPT ![k] = new] /\ SameWork(old, new)
             /\ LifeStep(old, new, MaxAttempts[k])
             /\ new.state = IF old.state = "queued" THEN "cancelled" ELSE "running"
      BY <1>1, <1>7, RequestCancelIs
    <2>2. /\ run' = run /\ row' = row /\ UNCHANGED <<api, rec, docker, process, downs>>
          /\ old.state \in {"queued", "running"}
      BY <1>1, <1>7 DEF RequestCancel, Unsettled
    <2>3. run[k].pc # "off" => new.state = "running"
      BY <1>4, <2>1
    <2>4. Moved
      BY <1>1, <2>1, <2>2, <2>3, OneRowMoves
    <2>5. Quiet
      <3>1. run' = [run EXCEPT ![k] = run[k]]
        BY <2>2
      <3>2. JobStays(k, job[k], new, run[k], run[k])
        BY <1>1, <2>1, <2>2 DEF JobStays
      <3>3. RowStays
        BY <2>2 DEF RowStays
      <3> QED  BY <1>2, <1>3, <2>1, <2>2, <3>1, <3>2, <3>3, QuietOne
    <2> QED  BY <1>2, <2>2, <2>4, <2>5
  <1>8. CASE Sweep(k)
    <2>1. /\ run' = run /\ row' = row /\ UNCHANGED <<api, rec, docker, process, downs>>
          /\ old.state = "running" /\ run[k].pc = "off"
          /\ job' = [job EXCEPT ![k] = [old EXCEPT !.state = "failed"]]
      BY <1>1, <1>8 DEF Sweep
    <2>2. PICK new : new = [old EXCEPT !.state = "failed"]
      OBVIOUS
    <2>3. /\ new \in JobT /\ SameWork(old, new) /\ new.state = "failed"
          /\ new.attempts = old.attempts
      BY <1>2, <2>2 DEF JobT, SameWork
    <2>4. LifeStep(old, new, MaxAttempts[k])
      BY <2>1, <2>3 DEF LifeStep
    <2>5. run' = [run EXCEPT ![k] = run[k]]
      BY <2>1
    <2>6. JobStays(k, job[k], new, run[k], run[k]) /\ RowStays
      BY <1>1, <2>1, <2>3 DEF JobStays, RowStays
    <2> QED  BY <1>1, <1>2, <1>3, <2>1, <2>2, <2>3, <2>4, <2>5, <2>6, OneRowMoves, QuietOne
  <1>9. CASE k = Creation /\ WaitAborted
    <2>1. /\ run[k].pc # "off" /\ ThrowsCancelled(k, row, old)
          /\ UNCHANGED <<api, rec, docker, process, downs>>
      BY <1>1, <1>9 DEF WaitAborted
    <2>2. PICK new \in JobT :
              /\ job' = [job EXCEPT ![k] = new] /\ run' = [run EXCEPT ![k] = NoRun]
              /\ LifeStep(old, new, MaxAttempts[k]) /\ SameWork(old, new)
              /\ new.state \in {"queued", "cancelled"} /\ row' = row
      BY <1>2, <1>4, <2>1, ThrowsCancelledIs
    <2>3. JobStays(k, job[k], new, run[k], NoRun) /\ RowStays
      BY <1>1, <1>4, <2>1, <2>2, NoRunIs DEF JobStays, RowStays
    <2> QED  BY <1>1, <1>2, <1>3, <2>1, <2>2, <2>3, NoRunIs, OneMoves, QuietOne
  <1> QED  BY <1>5, <1>6, <1>7, <1>8, <1>9

-----------------------------------------------------------------------------
(* Steps of a handler. *)

LEMMA CreationBefore ==
    ASSUME NEW i \in 1..9
    PROVE  /\ Before(Creation, i) \in 0..6
           /\ i = 1 => Before(Creation, i) = 0
           /\ i \in {2, 3} => Before(Creation, i) = 1
           /\ i = 4 => Before(Creation, i) = 2
           /\ i \in {5, 6} => Before(Creation, i) = 3
           /\ i \in 7..9 => Before(Creation, i) = i - 3
  BY DEF Before

LEMMA DeletionBefore ==
    ASSUME NEW k \in Deletions, NEW i \in 1..5
    PROVE  /\ i = 1 => Before(k, i) = 0
           /\ i = 2 => Before(k, i) = 1
           /\ i \in {3, 4} => Before(k, i) = 2
           /\ i = 5 => Before(k, i) = 3
  BY DeletionTable DEF Before

\* A deletion that has every call behind it, and nothing else under way: the host is clean.
LEMMA CleanHost ==
    ASSUME TypeOK, NEW k \in Deletions, Gone(k),
           job[k].completedSteps >= 4 \/ (run[k].pc = "ok" /\ run[k].call = 5)
    PROVE  docker.container = 0 /\ docker.objects = {}
  <1>1. /\ job[k].completedSteps \in Nat
        /\ docker.objects \subseteq {"data", "backup", "network"}
    BY Sets DEF JobT, DockerT, Objects, Jobs
  <1>2. /\ job[k].completedSteps >= 3 \/ Had(k, 3)
        /\ job[k].completedSteps >= 3 \/ Had(k, 4)
        /\ job[k].completedSteps >= 4 \/ Had(k, 5)
    BY <1>1 DEF Had
  <1> QED  BY <1>1, <1>2 DEF Gone

LEMMA ClaimKeeps ==
    ASSUME TypeOK, Running, Told, NEW k \in Jobs, Claim(k)
    PROVE  /\ Moved /\ Told' /\ row' \in RowT
           /\ UNCHANGED <<api, rec, docker, process, downs>>
  <1> USE Sets
  <1>1. PICK old, new : old = job[k] /\ new = Claimed(job[k])
    OBVIOUS
  <1>2. /\ run[k].pc = "off" /\ old.state \in {"queued", "running"}
        /\ new \in JobT /\ LifeStep(old, new, MaxAttempts[k])
        /\ job' = [job EXCEPT ![k] = new]
        /\ row' \in RowT /\ row'.backups = row.backups
        /\ row'.state = "absent" => row.state = "absent"
        /\ row'.deleted = row.deleted \/ (k # Creation /\ row'.deleted)
        /\ UNCHANGED <<api, rec, docker, process, downs>>
    BY <1>1, ClaimIs DEF Told
  <1>3. PICK r \in RunT :
           /\ run' = [run EXCEPT ![k] = r]
           /\ \/ r.pc \in {"refused", "error"} /\ k = Creation
                 /\ row'.containerId = row.containerId
              \/ r.pc = "done" /\ k # Creation /\ row.deleted /\ row' = row
              \/ /\ r.pc = "call" /\ r.call \in 1..Last(k)
                 /\ old.completedSteps = Before(k, r.call)
                 /\ r.call # IF k = Creation THEN 3 ELSE 4
                 /\ row'.containerId = row.containerId /\ row'.deleted = row.deleted
              \/ /\ r.pc = "done" /\ k = Creation /\ old.completedSteps = 7
                 /\ row'.containerId = row.containerId
              \/ /\ r.pc = "done" /\ k # Creation /\ old.completedSteps = 4
                 /\ row'.deleted
    BY <1>1, ClaimIs DEF Told
  <1>4. old \in JobT /\ SameWork(old, new) /\ new.state = "running"
    BY <1>1, ClaimedIs
  <1>5. Moved
    BY <1>1, <1>2, <1>3, <1>4, OneMoves
  <1>6. /\ job'[k] = new /\ run'[k] = r
        /\ \A l \in Jobs : l # k => job'[l] = job[l] /\ run'[l] = run[l]
    BY <1>2, <1>3
  <1>7. /\ NoneAsked' <=> NoneAsked
        /\ AllAlone' <=> AllAlone
        /\ k # Creation => ~NoneAsked
    BY <1>1, <1>2, <1>4, <1>6 DEF NoneAsked, AllAlone, SameWork, Jobs
  <1>8. HostStays
    BY <1>2 DEF HostStays
  <1>9. CASE \/ r.pc \in {"refused", "error"} /\ k = Creation /\ row'.containerId = row.containerId
             \/ r.pc = "done" /\ k # Creation /\ row.deleted /\ row' = row
             \/ /\ r.pc = "done" /\ k = Creation /\ old.completedSteps = 7
                /\ row'.containerId = row.containerId
    <2>1. RowStays
      BY <1>2, <1>9 DEF RowStays
    <2>2. JobStays(k, job[k], new, run[k], r)
      BY <1>1, <1>2, <1>4, <1>9 DEF JobStays
    <2> QED  BY <1>2, <1>3, <1>5, <1>8, <2>1, <2>2, QuietOne, QuietKeeps
  <1>10. CASE /\ r.pc = "call" /\ r.call \in 1..Last(k)
              /\ old.completedSteps = Before(k, r.call)
              /\ r.call # IF k = Creation THEN 3 ELSE 4
              /\ row'.containerId = row.containerId /\ row'.deleted = row.deleted
    <2>1. Born'
      BY <1>1, <1>2, <1>6, <1>7, <1>10 DEF Told, Born
    <2>2. Placed'
      BY <1>1, <1>2, <1>4, <1>6, <1>10 DEF Told, Placed, SameWork
    <2>3. Provisioned'
      <3>1. CASE k = Creation
        <4>1. /\ r.call > 2 => old.completedSteps >= 2
              /\ r.call > 3 => old.completedSteps >= 2
              /\ r.call > 4 => old.completedSteps >= 3
          BY <1>10, <3>1, CreationBefore, CreationTable
        <4>2. \A n \in 1..9 : Had(k, n)' => r.call > n
          BY <1>6, <1>10 DEF Had
        <4> QED  BY <1>1, <1>2, <1>4, <1>6, <1>7, <1>10, <3>1, <4>1, <4>2
                 DEF Told, Provisioned, SameWork
      <3>2. CASE k # Creation
        BY <1>7, <3>2 DEF Provisioned
      <3> QED  BY <3>1, <3>2
    <2>4. TornDown'
      <3> SUFFICES ASSUME AllAlone, ~NoneAsked
                   PROVE  /\ ~Unsettled(Creation)'
                          /\ \A l \in Deletions : Gone(l)'
                          /\ row'.deleted => docker'.container = 0 /\ docker'.objects = {}
        BY <1>7 DEF TornDown
      <3>1. k # Creation /\ k \in Deletions
        BY <1>1, <1>2 DEF Told, TornDown, Unsettled, Jobs
      <3>2. ~Unsettled(Creation)'
        BY <1>6, <3>1 DEF Told, TornDown, Unsettled, Jobs
      <3>3. ASSUME NEW l \in Deletions PROVE Gone(l)'
        <4>1. Gone(l)
          BY DEF Told, TornDown
        <4>2. CASE l = k
          <5>1. r.call \in 1..5
            BY <1>10, <3>1, DeletionTable
          <5>2. r.call > 3 => old.completedSteps >= 3
            BY <1>10, <3>1, <5>1, DeletionBefore
          <5> QED  BY <1>1, <1>2, <1>4, <1>6, <1>10, <4>1, <4>2, <5>1, <5>2 DEF Gone, Had, SameWork
        <4>3. CASE l # k
          BY <1>2, <1>6, <4>1, <4>3 DEF Gone, Had, Jobs
        <4> QED  BY <4>2, <4>3
      <3>4. row'.deleted => docker'.container = 0 /\ docker'.objects = {}
        BY <1>2, <1>10 DEF Told, TornDown
      <3> QED  BY <3>2, <3>3, <3>4
    <2> QED  BY <1>2, <1>5, <2>1, <2>2, <2>3, <2>4 DEF Told
  <1>11. CASE r.pc = "done" /\ k # Creation /\ old.completedSteps = 4 /\ row'.deleted
    <2>1. Born'
      BY <1>1, <1>2, <1>6, <1>7, <1>11 DEF Told, Born
    <2>2. Placed'
      BY <1>1, <1>2, <1>4, <1>6, <1>11 DEF Told, Placed, SameWork
    <2>3. Provisioned'
      BY <1>7, <1>11 DEF Provisioned
    <2>4. TornDown'
      <3> SUFFICES ASSUME AllAlone, ~NoneAsked
                   PROVE  /\ ~Unsettled(Creation)'
                          /\ \A l \in Deletions : Gone(l)'
                          /\ docker'.container = 0 /\ docker'.objects = {}
        BY <1>7 DEF TornDown
      <3>1. k \in Deletions /\ Gone(k)
        BY <1>11 DEF Told, TornDown, Jobs
      <3>2. docker.container = 0 /\ docker.objects = {}
        BY <1>1, <1>11, <3>1, CleanHost
      <3>3. ~Unsettled(Creation)'
        BY <1>6, <1>11 DEF Told, TornDown, Unsettled, Jobs
      <3> QED  BY <1>2, <3>2, <3>3 DEF Gone
    <2> QED  BY <1>2, <1>5, <2>1, <2>2, <2>3, <2>4 DEF Told
  <1> QED  BY <1>3, <1>9, <1>10, <1>11

LEMMA CallReturnsKeeps ==
    ASSUME TypeOK, Running, Told, NEW k \in Jobs, CallReturns(k)
    PROVE  /\ Moved /\ Told' /\ docker' \in DockerT
           /\ UNCHANGED <<row, api, rec, process, downs>>
  <1> USE Sets
  <1>1. /\ run[k].pc = "call" /\ run[k].call \in 1..Last(k) /\ docker' \in DockerT
        /\ UNCHANGED <<row, job, api, rec, process, downs>>
    BY CallReturnsIs DEF Told
  <1>2. PICK r \in RunT :
           /\ run' = [run EXCEPT ![k] = r] /\ r.call = run[k].call
           /\ \/ /\ r.pc = "ok" /\ Succeeds(Calls(k)[r.call], run[k].cid)
                 /\ docker' = Effect(Calls(k)[r.call], run[k].cid)
                 /\ Calls(k)[r.call] \in {"list", "container"} => r.cid = docker'.container
              \/ r.pc = "error" /\ docker' = docker
    BY CallReturnsIs DEF Told
  <1>3. /\ job' = [job EXCEPT ![k] = job[k]] /\ job[k] \in JobT
        /\ LifeStep(job[k], job[k], MaxAttempts[k]) /\ job[k].state = "running"
    BY <1>1 DEF LifeStep, Running
  <1>4. Moved
    BY <1>1, <1>2, <1>3, OneMoves
  <1>5. /\ run'[k] = r
        /\ \A l \in Jobs : l # k => run'[l] = run[l]
    BY <1>2
  <1>6. /\ NoneAsked' <=> NoneAsked
        /\ AllAlone' <=> AllAlone
        /\ k # Creation => ~NoneAsked
    BY <1>1, <1>3 DEF NoneAsked, AllAlone, Jobs
  <1>7. CASE r.pc = "error" /\ docker' = docker
    <2>1. RowStays /\ HostStays
      BY <1>1, <1>7 DEF RowStays, HostStays
    <2>2. JobStays(k, job[k], job[k], run[k], r)
      BY <1>7 DEF JobStays, SameWork
    <2> QED  BY <1>1, <1>2, <1>3, <1>4, <2>1, <2>2, QuietOne, QuietKeeps
  <1>8. CASE /\ r.pc = "ok" /\ Succeeds(Calls(k)[r.call], run[k].cid)
             /\ docker' = Effect(Calls(k)[r.call], run[k].cid)
             /\ Calls(k)[r.call] \in {"list", "container"} => r.cid = docker'.container
    <2>1. Born' /\ Placed'
      BY <1>1, <1>2, <1>5, <1>6, <1>8 DEF Told, Born, Placed
    <2>5. PICK call, cid : call = Calls(k)[r.call] /\ cid = run[k].cid
      OBVIOUS
    <2>6. Succeeds(call, cid) /\ docker' = Effect(call, cid)
          /\ (call \in {"list", "container"} => r.cid = docker'.container)
      BY <1>8, <2>5
    <2>2. \A l \in Jobs, n \in 1..9 : Had(l, n)' => Had(l, n) \/ (l = k /\ n = r.call)
      BY <1>1, <1>2, <1>5, <1>8 DEF Had, RunT
    <2>3. CASE k = Creation
      <3>1. r.call \in 1..9 /\ job[k].completedSteps = Before(Creation, r.call)
        BY <1>1, <1>2, <2>3, CreationTable DEF Told, Placed
      <3>2. Calls(k)[r.call] = CreateCalls[r.call]
        BY <2>3, CreationTable
      <3>5. call = CreateCalls[r.call]
        BY <2>5, <3>2
      <3>3. Provisioned'
        <4>1. CASE r.call \in {2, 3, 4}
          <5>1. CreateCalls[r.call] = IF r.call = 2 THEN "data" ELSE IF r.call = 3 THEN "backup"
                                      ELSE "network"
            BY <4>1 DEF CreateCalls
          <5>2. docker' = [docker EXCEPT !.objects = @ \cup {call}]
            <6>1. call \in Objects /\ call \in CallNames
              BY <3>5, <4>1, <5>1 DEF CallNames, Objects
            <6>2. Effect(call, cid) = [docker EXCEPT !.objects = @ \cup {call}]
              BY <6>1, Effects
            <6> QED  BY <2>6, <6>2
          <5>3. /\ docker'.container = docker.container
                /\ docker'.objects = docker.objects \cup {CreateCalls[r.call]}
            BY <3>5, <5>2 DEF DockerT
          <5> QED  BY <1>1, <1>5, <1>6, <1>8, <2>2, <2>3, <3>1, <4>1, <5>1, <5>3
                   DEF Told, Provisioned
        <4>2. CASE r.call = 5
          <5>1. CreateCalls[r.call] = "list"
            BY <4>2 DEF CreateCalls
          <5>2. docker' = docker /\ r.cid = docker.container
            BY <2>6, <3>5, <5>1, Effects DEF CallNames
          <5> QED  BY <1>1, <1>5, <1>6, <1>8, <2>2, <2>3, <3>1, <4>2, <5>2
                   DEF Told, Provisioned
        <4>3. CASE r.call = 6
          <5>1. CreateCalls[r.call] = "container"
            BY <4>3 DEF CreateCalls
          <5>2. /\ docker' = [container |-> docker.made + 1, up |-> FALSE,
                              objects |-> docker.objects \cup {"data", "backup"},
                              made |-> docker.made + 1]
                /\ r.cid = docker'.container
            <6>1. call = "container" /\ call \in CallNames
              BY <3>5, <5>1 DEF CallNames
            <6>2. Effect(call, cid) = [container |-> docker.made + 1, up |-> FALSE,
                                       objects |-> docker.objects \cup {"data", "backup"},
                                       made |-> docker.made + 1]
              BY <6>1, Effects
            <6> QED  BY <2>6, <6>1, <6>2
          <5>3. /\ r.cid # 0 /\ r.cid = docker'.container
                /\ docker.objects \subseteq docker'.objects
            BY <5>2 DEF DockerT
          <5>4. job[k].completedSteps = 3
            BY <3>1, <4>3, CreationBefore
          <5> QED  BY <1>1, <1>5, <1>6, <1>8, <2>2, <2>3, <3>1, <4>3, <5>3, <5>4
                   DEF Told, Provisioned
        <4>4. CASE r.call \in {1, 7, 8, 9}
          <5>1. CreateCalls[r.call] \in {"pull", "start", "ready", "archive"}
            BY <4>4 DEF CreateCalls
          <5>2. docker' = docker \/ docker' = [docker EXCEPT !.up = TRUE]
            <6>1. call \in {"pull", "start", "ready", "archive"} /\ call \in CallNames
              BY <3>5, <5>1 DEF CallNames
            <6>2. Effect(call, cid) = docker \/ Effect(call, cid) = [docker EXCEPT !.up = TRUE]
              BY <6>1, Effects
            <6> QED  BY <2>6, <6>2
          <5>3. docker'.container = docker.container /\ docker'.objects = docker.objects
            BY <5>2 DEF DockerT
          <5> QED  BY <1>1, <1>5, <1>6, <1>8, <2>2, <2>3, <3>1, <4>4, <5>3
                   DEF Told, Provisioned
        <4> QED  BY <3>1, <4>1, <4>2, <4>3, <4>4
      <3>4. TornDown'
        BY <1>3, <1>6, <2>3 DEF Told, TornDown, Unsettled
      <3> QED  BY <1>1, <1>4, <2>1, <3>3, <3>4 DEF Told
    <2>4. CASE k \in Deletions
      <3>1. r.call \in 1..5
        BY <1>1, <1>2, <2>4, DeletionTable
      <3>2. Calls(k)[r.call] = DeleteCalls[r.call]
        BY <2>4, DeletionTable
      <3>6. call = DeleteCalls[r.call]
        BY <2>5, <3>2
      <3>3. Provisioned'
        BY <1>6, <2>4, DeletionTable DEF Provisioned
      <3>4. /\ docker'.container \in {0, docker.container}
            /\ docker'.objects \subseteq docker.objects
            /\ r.call = 3 => docker.container = 0 /\ "data" \notin docker'.objects
            /\ r.call = 4 => "backup" \notin docker'.objects
            /\ r.call = 5 => "network" \notin docker'.objects
        <4>1. CASE r.call = 1
          <5>1. DeleteCalls[r.call] = "stop"
            BY <4>1 DEF DeleteCalls
          <5>2. docker' = [docker EXCEPT !.up = @ /\ docker.container # cid]
            BY <2>6, <3>6, <5>1, Effects DEF CallNames
          <5> QED  BY <4>1, <5>2 DEF DockerT
        <4>2. CASE r.call = 2
          <5>1. DeleteCalls[r.call] = "remove"
            BY <4>2 DEF DeleteCalls
          <5>2. docker' = docker \/ docker' = [docker EXCEPT !.container = 0, !.up = FALSE]
            BY <2>6, <3>6, <5>1, Effects DEF CallNames
          <5>3. docker.objects = docker'.objects /\ docker'.container \in {0, docker.container}
            BY <5>2 DEF DockerT
          <5> QED  BY <4>2, <5>3
        <4>3. CASE r.call = 3
          <5>1. DeleteCalls[r.call] = "rmdata"
            BY <4>3 DEF DeleteCalls
          <5>2. docker' = [docker EXCEPT !.objects = @ \ {"data"}]
            BY <2>6, <3>6, <5>1, Effects DEF CallNames
          <5>3. docker.container = 0
            BY <2>6, <3>6, <5>1 DEF Succeeds
          <5> QED  BY <4>3, <5>2, <5>3 DEF DockerT
        <4>4. CASE r.call = 4
          <5>1. DeleteCalls[r.call] = "rmbackup"
            BY <4>4 DEF DeleteCalls
          <5>2. docker' = [docker EXCEPT !.objects = @ \ {"backup"}]
            BY <2>6, <3>6, <5>1, Effects DEF CallNames
          <5> QED  BY <4>4, <5>2 DEF DockerT
        <4>5. CASE r.call = 5
          <5>1. DeleteCalls[r.call] = "rmnetwork"
            BY <4>5 DEF DeleteCalls
          <5>2. docker' = [docker EXCEPT !.objects = @ \ {"network"}]
            BY <2>6, <3>6, <5>1, Effects DEF CallNames
          <5> QED  BY <4>5, <5>2 DEF DockerT
        <4> QED  BY <3>1, <4>1, <4>2, <4>3, <4>4, <4>5
      <3>5. TornDown'
        <4> SUFFICES ASSUME AllAlone, ~NoneAsked
                     PROVE  /\ ~Unsettled(Creation)'
                            /\ \A l \in Deletions : Gone(l)'
                            /\ row'.deleted => docker'.container = 0 /\ docker'.objects = {}
          BY <1>6 DEF TornDown
        <4>1. ~Unsettled(Creation)'
          BY <1>1 DEF Told, TornDown, Unsettled
        <4>2. ASSUME NEW l \in Deletions PROVE Gone(l)'
          <5>1. Gone(l)
            BY DEF Told, TornDown
          <5>2. \A n \in 3..5 : Had(l, n)' => Had(l, n) \/ (l = k /\ n = r.call)
            BY <2>2 DEF Jobs
          <5>3. r.call \in {4, 5} => Had(k, 3)
            BY <1>1, <1>2 DEF Had
          <5> QED  BY <1>1, <3>4, <5>1, <5>2, <5>3 DEF Gone
        <4>3. row'.deleted => docker'.container = 0 /\ docker'.objects = {}
          BY <1>1, <3>4 DEF Told, TornDown
        <4> QED  BY <4>1, <4>2, <4>3
      <3> QED  BY <1>1, <1>4, <2>1, <3>3, <3>5 DEF Told
    <2> QED  BY <2>3, <2>4 DEF Jobs
  <1> QED  BY <1>2, <1>7, <1>8

\* What the continuation of call at leaves: a row, a checkpoint, and a handler that is off, at
\* its next call, or done.
LEMMA ContinueLeaves ==
    ASSUME TypeOK, Running, Placed, NEW k \in Jobs, Continue(k)
    PROVE  /\ Moved /\ row' \in RowT /\ UNCHANGED <<api, rec, docker, process, downs>>
           /\ run[k].pc = "ok" /\ run[k].call \in 1..Last(k) /\ job[k].state = "running"
           /\ job[k].completedSteps = Before(k, run[k].call)
           /\ \E at \in 1..Last(k), new \in JobT, r \in RunT :
                /\ job' = [job EXCEPT ![k] = new] /\ run' = [run EXCEPT ![k] = r]
                /\ \/ at = run[k].call
                   \/ k = Creation /\ run[k].call = 5 /\ at = 6 /\ run[k].cid # 0
                /\ new.completedSteps = IF StepAfter(k, at) = 0 THEN job[k].completedSteps
                                        ELSE StepAfter(k, at)
                /\ new.alone = job[k].alone
                /\ new.state \in {"running", "queued", "failed", "cancelled"}
                /\ \/ r.pc = "off" /\ k = Creation
                   \/ r.pc = "call" /\ r.call = at + 1 /\ at + 1 <= Last(k)
                   \/ r.pc = "done" /\ at = Last(k)
                /\ row'.backups = IF k = Creation /\ at = 9 THEN TRUE ELSE row.backups
                /\ row'.state = "absent" => row.state = "absent"
                /\ k = Creation =>
                     /\ row'.containerId = IF at = 6 THEN run[k].cid ELSE row.containerId
                     /\ row'.deleted = row.deleted
                /\ k # Creation =>
                     /\ r.pc = "done" => row'.deleted
                     /\ r.pc # "done" => row'.deleted = row.deleted
  <1> USE Sets
  <1>1. PICK old : old = job[k]
    OBVIOUS
  <1>2. /\ run[k].pc = "ok" /\ run[k].call \in 1..Last(k) /\ old.state = "running"
        /\ old.attempts > 0 /\ old.completedSteps = Before(k, run[k].call)
        /\ UNCHANGED <<api, rec, docker, process, downs>>
    BY <1>1 DEF Continue, Placed, Running
  <1>3. PICK at \in 1..Last(k), j \in JobT, rw \in RowT :
          /\ \/ at = run[k].call
             \/ k = Creation /\ run[k].call = 5 /\ at = 6 /\ run[k].cid # 0
          /\ j.completedSteps = IF StepAfter(k, at) = 0 THEN old.completedSteps
                                ELSE StepAfter(k, at)
          /\ j.alone = old.alone /\ j.state = "running" /\ j.attempts = old.attempts
          /\ rw.state = row.state /\ rw.deleted = row.deleted
          /\ rw.containerId = IF k = Creation /\ at = 6 THEN run[k].cid ELSE row.containerId
          /\ rw.backups = IF k = Creation /\ at = 9 THEN TRUE ELSE row.backups
          /\ \/ k = Creation /\ at = 6 /\ run[k].cid = 0 /\ Throws(k, rw, j)
             \/ k = Creation /\ ThrowsCancelled(k, rw, j)
             \/ \E cid \in Nat : Goes(k, at + 1, cid, rw, j)
    BY <1>1, ContinueIs
  <1>4. PICK done, cont, kept :
           /\ done = j.completedSteps
           /\ cont = IF k = Creation /\ at = 6 THEN run[k].cid ELSE row.containerId
           /\ kept = IF k = Creation /\ at = 9 THEN TRUE ELSE row.backups
    OBVIOUS
  <1>5. ASSUME NEW new \in JobT, NEW r \in RunT,
               job' = [job EXCEPT ![k] = new], run' = [run EXCEPT ![k] = r],
               LifeStep(j, new, MaxAttempts[k]), SameWork(j, new),
               new.state \in {"running", "queued", "failed", "cancelled"},
               \/ r.pc = "off" /\ k = Creation
               \/ r.pc = "call" /\ r.call = at + 1 /\ at + 1 <= Last(k) /\ new.state = "running"
               \/ r.pc = "done" /\ at = Last(k) /\ new.state = "running",
               row' \in RowT, row'.backups = rw.backups,
               row'.state = "absent" => rw.state = "absent",
               k = Creation => row'.containerId = rw.containerId /\ row'.deleted = rw.deleted,
               k # Creation => /\ r.pc = "done" => row'.deleted
                               /\ r.pc # "done" => row'.deleted = rw.deleted
        PROVE  /\ Moved /\ row' \in RowT
               /\ \E new1 \in JobT, r1 \in RunT :
                    /\ job' = [job EXCEPT ![k] = new1] /\ run' = [run EXCEPT ![k] = r1]
                    /\ new1.completedSteps = done
                    /\ new1.alone = old.alone
                    /\ new1.state \in {"running", "queued", "failed", "cancelled"}
                    /\ \/ r1.pc = "off" /\ k = Creation
                       \/ r1.pc = "call" /\ r1.call = at + 1 /\ at + 1 <= Last(k)
                       \/ r1.pc = "done" /\ at = Last(k)
                    /\ row'.backups = kept
                    /\ row'.state = "absent" => row.state = "absent"
                    /\ k = Creation => row'.containerId = cont /\ row'.deleted = row.deleted
                    /\ k # Creation =>
                         /\ r1.pc = "done" => row'.deleted
                         /\ r1.pc # "done" => row'.deleted = row.deleted
    <2>1. LifeStep(old, new, MaxAttempts[k])
      BY <1>2, <1>3, <1>5 DEF LifeStep
    <2>2. Moved
      <3>1. r.pc # "off" => new.state = "running"
        BY <1>5
      <3> QED  BY <1>1, <1>5, <2>1, <3>1, OneMoves
    <2>3. /\ new.completedSteps = done /\ new.alone = old.alone
          /\ row'.backups = kept
          /\ row'.state = "absent" => row.state = "absent"
          /\ k = Creation => row'.containerId = cont /\ row'.deleted = row.deleted
          /\ k # Creation => /\ r.pc = "done" => row'.deleted
                             /\ r.pc # "done" => row'.deleted = row.deleted
      BY <1>3, <1>4, <1>5 DEF SameWork
    <2>4. \/ r.pc = "off" /\ k = Creation
          \/ r.pc = "call" /\ r.call = at + 1 /\ at + 1 <= Last(k)
          \/ r.pc = "done" /\ at = Last(k)
      BY <1>5
    <2> QED  BY <1>5, <2>2, <2>3, <2>4
  <1>6. /\ Moved /\ row' \in RowT
        /\ \E new1 \in JobT, r1 \in RunT :
             /\ job' = [job EXCEPT ![k] = new1] /\ run' = [run EXCEPT ![k] = r1]
             /\ new1.completedSteps = done
             /\ new1.alone = old.alone
             /\ new1.state \in {"running", "queued", "failed", "cancelled"}
             /\ \/ r1.pc = "off" /\ k = Creation
                \/ r1.pc = "call" /\ r1.call = at + 1 /\ at + 1 <= Last(k)
                \/ r1.pc = "done" /\ at = Last(k)
             /\ row'.backups = kept
             /\ row'.state = "absent" => row.state = "absent"
             /\ k = Creation => row'.containerId = cont /\ row'.deleted = row.deleted
             /\ k # Creation =>
                  /\ r1.pc = "done" => row'.deleted
                  /\ r1.pc # "done" => row'.deleted = row.deleted
    <2>1. CASE k = Creation /\ Throws(k, rw, j)
      <3>1. PICK new \in JobT :
               /\ new = FailedAttempt(k, j) /\ job' = [job EXCEPT ![k] = new]
               /\ run' = [run EXCEPT ![k] = NoRun] /\ LifeStep(j, new, MaxAttempts[k])
               /\ new.state \in {"queued", "failed"} /\ SameWork(j, new)
        BY <1>3, <2>1, ThrowsIs, FailedIs
      <3>2. /\ row' \in RowT /\ row'.containerId = rw.containerId /\ row'.backups = rw.backups
            /\ row'.deleted = rw.deleted /\ (row'.state = "absent" => rw.state = "absent")
        <4>1. j.state = "running" /\ Throws(k, rw, j) /\ TypeOK
          BY <1>3, <2>1
        <4> QED  BY ONLY <4>1, ThrowsIs, k \in Jobs, rw \in RowT, j \in JobT
      <3> QED  BY <1>5, <2>1, <3>1, <3>2, NoRunIs
    <2>2. CASE k = Creation /\ ThrowsCancelled(k, rw, j)
      <3>1. PICK new \in JobT :
                /\ job' = [job EXCEPT ![k] = new] /\ run' = [run EXCEPT ![k] = NoRun]
                /\ LifeStep(j, new, MaxAttempts[k]) /\ SameWork(j, new)
                /\ new.state \in {"queued", "cancelled"} /\ row' = rw
        BY <1>2, <1>3, <2>2, ThrowsCancelledIs
      <3> QED  BY <1>3, <1>5, <2>2, <3>1, NoRunIs
    <2>3. ASSUME NEW cid \in Nat, Goes(k, at + 1, cid, rw, j)
          PROVE  \E r \in RunT :
                   /\ row' \in RowT /\ row'.backups = rw.backups
                   /\ row'.state = "absent" => rw.state = "absent"
                   /\ job' = [job EXCEPT ![k] = j] /\ run' = [run EXCEPT ![k] = r]
                   /\ \/ r.pc = "call" /\ r.call = at + 1 /\ at + 1 <= Last(k)
                      \/ r.pc = "done" /\ at = Last(k)
                   /\ k = Creation => row'.containerId = rw.containerId /\ row'.deleted = rw.deleted
                   /\ k # Creation => /\ r.pc = "done" => row'.deleted
                                      /\ r.pc # "done" => row'.deleted = rw.deleted
      <3>1. PICK i \in 1..(Last(k) + 1) : i = at + 1
        <4>1. Last(k) \in 1..9
          BY CreationTable, DeletionTable DEF Jobs
        <4> QED  BY <4>1
      <3>2. /\ job' = [job EXCEPT ![k] = j]
            /\ row' \in RowT /\ row'.backups = rw.backups
            /\ row'.state = "absent" => rw.state = "absent"
            /\ row'.deleted = rw.deleted \/ (k # Creation /\ row'.deleted)
        BY <2>3, <3>1, GoesIs
      <3>3. PICK r \in RunT :
              /\ run' = [run EXCEPT ![k] = r]
              /\ \/ i <= Last(k) /\ r.pc = "call" /\ r.call = i /\ row' = rw
                 \/ /\ i = Last(k) + 1 /\ r.pc = "done"
                    /\ k = Creation => row'.containerId = rw.containerId
                    /\ k # Creation => row'.deleted
        BY <2>3, <3>1, GoesIs
      <3>4. Last(k) \in 1..9
        BY CreationTable, DeletionTable DEF Jobs
      <3>5. i = Last(k) + 1 => at = Last(k)
        BY <3>1, <3>4
      <3>6. \/ r.pc = "call" /\ r.call = at + 1 /\ at + 1 <= Last(k) /\ row' = rw
            \/ r.pc = "done" /\ at = Last(k)
        BY <3>1, <3>3, <3>5
      <3>7. /\ k = Creation => row'.containerId = rw.containerId /\ row'.deleted = rw.deleted
            /\ k # Creation => /\ r.pc = "done" => row'.deleted
                               /\ r.pc # "done" => row'.deleted = rw.deleted
        BY <3>2, <3>3
      <3> QED  BY <3>2, <3>3, <3>6, <3>7
    <2>4. CASE \E cid \in Nat : Goes(k, at + 1, cid, rw, j)
      <3>1. PICK r \in RunT :
                   /\ row' \in RowT /\ row'.backups = rw.backups
                   /\ row'.state = "absent" => rw.state = "absent"
                   /\ job' = [job EXCEPT ![k] = j] /\ run' = [run EXCEPT ![k] = r]
                   /\ \/ r.pc = "call" /\ r.call = at + 1 /\ at + 1 <= Last(k)
                      \/ r.pc = "done" /\ at = Last(k)
                   /\ k = Creation => row'.containerId = rw.containerId /\ row'.deleted = rw.deleted
                   /\ k # Creation => /\ r.pc = "done" => row'.deleted
                                      /\ r.pc # "done" => row'.deleted = rw.deleted
        BY <2>3, <2>4
      <3>2. LifeStep(j, j, MaxAttempts[k]) /\ SameWork(j, j)
        BY DEF LifeStep, SameWork
      <3> QED  BY <1>3, <1>5, <3>1, <3>2
    <2> QED  BY <1>3, <2>1, <2>2, <2>4
  <1>7. PICK new \in JobT, r \in RunT :
             /\ job' = [job EXCEPT ![k] = new] /\ run' = [run EXCEPT ![k] = r]
             /\ new.completedSteps = done
             /\ new.alone = old.alone
             /\ new.state \in {"running", "queued", "failed", "cancelled"}
             /\ \/ r.pc = "off" /\ k = Creation
                \/ r.pc = "call" /\ r.call = at + 1 /\ at + 1 <= Last(k)
                \/ r.pc = "done" /\ at = Last(k)
             /\ row'.backups = kept
             /\ row'.state = "absent" => row.state = "absent"
             /\ k = Creation => row'.containerId = cont /\ row'.deleted = row.deleted
             /\ k # Creation =>
                  /\ r.pc = "done" => row'.deleted
                  /\ r.pc # "done" => row'.deleted = row.deleted
    BY <1>6
  <1>8. /\ new.completedSteps = IF StepAfter(k, at) = 0 THEN job[k].completedSteps
                                ELSE StepAfter(k, at)
        /\ row'.backups = IF k = Creation /\ at = 9 THEN TRUE ELSE row.backups
        /\ k = Creation => row'.containerId = IF at = 6 THEN run[k].cid ELSE row.containerId
    BY <1>1, <1>3, <1>4, <1>7
  <1> QED  BY <1>1, <1>2, <1>3, <1>6, <1>7, <1>8

LEMMA ContinueKeeps ==
    ASSUME TypeOK, Running, Told, NEW k \in Jobs, Continue(k)
    PROVE  /\ Moved /\ Told' /\ row' \in RowT
           /\ UNCHANGED <<api, rec, docker, process, downs>>
  <1> USE Sets
  <1>1. PICK old, i, cid : old = job[k] /\ i = run[k].call /\ cid = run[k].cid
    OBVIOUS
  <1>2. /\ Moved /\ row' \in RowT /\ UNCHANGED <<api, rec, docker, process, downs>>
        /\ run[k].pc = "ok" /\ i \in 1..Last(k) /\ old.state = "running"
        /\ old.completedSteps = Before(k, i)
    BY <1>1, ContinueLeaves DEF Told
  <1>10. PICK at \in 1..Last(k), new \in JobT, r \in RunT :
          /\ job' = [job EXCEPT ![k] = new] /\ run' = [run EXCEPT ![k] = r]
          /\ \/ at = run[k].call
             \/ k = Creation /\ run[k].call = 5 /\ at = 6 /\ run[k].cid # 0
          /\ new.completedSteps = IF StepAfter(k, at) = 0 THEN job[k].completedSteps
                                  ELSE StepAfter(k, at)
          /\ new.alone = job[k].alone
          /\ new.state \in {"running", "queued", "failed", "cancelled"}
          /\ \/ r.pc = "off" /\ k = Creation
             \/ r.pc = "call" /\ r.call = at + 1 /\ at + 1 <= Last(k)
             \/ r.pc = "done" /\ at = Last(k)
          /\ row'.backups = IF k = Creation /\ at = 9 THEN TRUE ELSE row.backups
          /\ row'.state = "absent" => row.state = "absent"
          /\ k = Creation =>
               /\ row'.containerId = IF at = 6 THEN run[k].cid ELSE row.containerId
               /\ row'.deleted = row.deleted
          /\ k # Creation =>
               /\ r.pc = "done" => row'.deleted
               /\ r.pc # "done" => row'.deleted = row.deleted
    BY ContinueLeaves DEF Told
  <1>3. /\ at \in 1..Last(k) /\ new \in JobT /\ r \in RunT
        /\ job' = [job EXCEPT ![k] = new] /\ run' = [run EXCEPT ![k] = r]
        /\ \/ at = i
           \/ k = Creation /\ i = 5 /\ at = 6 /\ cid # 0
        /\ new.completedSteps = IF StepAfter(k, at) = 0 THEN old.completedSteps
                                ELSE StepAfter(k, at)
        /\ new.alone = old.alone
        /\ new.state \in {"running", "queued", "failed", "cancelled"}
        /\ \/ r.pc = "off" /\ k = Creation
           \/ r.pc = "call" /\ r.call = at + 1 /\ at + 1 <= Last(k)
           \/ r.pc = "done" /\ at = Last(k)
        /\ row'.backups = IF k = Creation /\ at = 9 THEN TRUE ELSE row.backups
        /\ row'.state = "absent" => row.state = "absent"
        /\ k = Creation =>
             /\ row'.containerId = IF at = 6 THEN cid ELSE row.containerId
             /\ row'.deleted = row.deleted
        /\ k # Creation =>
             /\ r.pc = "done" => row'.deleted
             /\ r.pc # "done" => row'.deleted = row.deleted
    BY <1>1, <1>10
  <1>4. /\ job'[k] = new /\ run'[k] = r
        /\ \A l \in Jobs : l # k => job'[l] = job[l] /\ run'[l] = run[l]
    BY <1>3
  <1>5. /\ NoneAsked' <=> NoneAsked
        /\ AllAlone' <=> AllAlone
        /\ k # Creation => ~NoneAsked /\ ~NoneAsked'
    BY <1>1, <1>2, <1>3, <1>4 DEF NoneAsked, AllAlone, Jobs
  <1>6. Born'
    BY <1>1, <1>2, <1>3, <1>4, <1>5 DEF Told, Born, Jobs
  <1>7. \A n \in 1..9 : Had(k, n)' => r.pc = "call" /\ at >= n
    BY <1>3, <1>4 DEF Had
  <1>8. CASE k = Creation
    <2>1. /\ at \in 1..9 /\ i \in 1..9 /\ old.completedSteps = Before(Creation, i)
          /\ Last(k) = 9
      BY <1>2, <1>8, CreationTable
    <2>2. new.completedSteps = <<1, 1, 2, 3, 3, 4, 5, 6, 7>>[at]
      <3>1. StepAfter(k, at) = <<1, 0, 2, 3, 0, 4, 5, 6, 7>>[at]
        BY <1>8, <2>1, CreationTable
      <3>2. CASE at \in {2, 5}
        <4>1. at = i
          BY <1>3, <3>2
        <4>2. StepAfter(k, at) = 0
          BY <3>1, <3>2
        <4> QED  BY <1>3, <2>1, <3>2, <4>1, <4>2, CreationBefore
      <3>3. CASE at \notin {2, 5}
        BY <1>3, <2>1, <3>1, <3>3
      <3> QED  BY <3>2, <3>3
    <2>3. r.pc = "call" => new.completedSteps = Before(Creation, at + 1) /\ at + 1 \in 1..9
      BY <1>3, <2>1, <2>2 DEF Before
    <2>4. r.pc = "done" => new.completedSteps = 7
      BY <1>3, <2>1, <2>2
    <2>5. Placed'
      BY <1>3, <1>4, <1>8, <2>1, <2>3, <2>4 DEF Told, Placed
    <2>6. /\ new.completedSteps >= 2 => at >= 3
          /\ new.completedSteps >= 3 => at >= 4
          /\ new.completedSteps >= 4 => at >= 6
          /\ new.completedSteps >= 7 => at = 9
      BY <2>1, <2>2
    <2>7. at >= 2 => i >= 2
      BY <1>3
    <2>8. Provisioned'
      <3> SUFFICES ASSUME NoneAsked PROVE Provisioned'
        BY <1>5 DEF Provisioned
      <3>1. /\ at >= 2 => "data" \in docker.objects
            /\ at >= 3 => "backup" \in docker.objects
            /\ at >= 4 => "network" \in docker.objects
        <4>1. /\ at >= 2 => Had(Creation, 2)
              /\ at >= 3 => Had(Creation, 3)
              /\ at >= 4 => Had(Creation, 4)
          BY <1>1, <1>2, <1>3, <1>8, <2>1 DEF Had
        <4> QED  BY <4>1 DEF Told, Provisioned
      <3>2. at >= 6 => row'.containerId # 0 /\ docker.container \in {0, row'.containerId}
        <4>1. CASE at = 6
          <5>1. /\ docker.container \in {0, cid}
                /\ cid # 0
            BY <1>1, <1>2, <1>3, <1>8, <4>1 DEF Told, Provisioned
          <5> QED  BY <1>3, <1>8, <4>1, <5>1
        <4>2. CASE at > 6
          <5>1. at = i /\ row'.containerId = row.containerId
            BY <1>3, <1>8, <2>1, <4>2
          <5>2. old.completedSteps >= 4
            BY <2>1, <4>2, <5>1, CreationBefore
          <5> QED  BY <1>1, <1>8, <5>1, <5>2 DEF Told, Provisioned
        <4> QED  BY <2>1, <4>1, <4>2
      <3>3. at = 9 => row'.backups
        BY <1>3, <1>8
      <3>4. \A n \in 1..9 : Had(Creation, n)' => at >= n
        BY <1>7, <1>8
      <3>5. run'[Creation].pc # "ok"
        BY <1>3, <1>4, <1>8
      <3>6. job'[Creation] = new /\ docker' = docker
        BY <1>2, <1>4, <1>8
      <3>7. /\ new.completedSteps >= 2 \/ Had(Creation, 2)' => "data" \in docker.objects
            /\ new.completedSteps >= 2 \/ Had(Creation, 3)' => "backup" \in docker.objects
            /\ new.completedSteps >= 3 \/ Had(Creation, 4)' => "network" \in docker.objects
        BY <2>1, <2>6, <3>1, <3>4
      <3> QED  BY <2>6, <3>2, <3>3, <3>5, <3>6, <3>7 DEF Provisioned
    <2>9. TornDown'
      BY <1>1, <1>2, <1>5, <1>8 DEF Told, TornDown, Unsettled
    <2> QED  BY <1>2, <1>6, <2>5, <2>8, <2>9 DEF Told
  <1>9. CASE k \in Deletions
    <2>1. /\ k # Creation /\ at \in 1..5 /\ at = i /\ old.completedSteps = Before(k, at)
          /\ Last(k) = 5
      BY <1>2, <1>3, <1>9, DeletionTable
    <2>2. new.completedSteps = <<1, 2, 2, 3, 4>>[at]
      <3>1. StepAfter(k, at) = <<1, 2, 0, 3, 4>>[at]
        BY <1>9, <2>1, DeletionTable
      <3>2. CASE at = 3
        BY <1>3, <1>9, <2>1, <3>1, <3>2, DeletionBefore
      <3>3. CASE at # 3
        BY <1>3, <2>1, <3>1, <3>3
      <3> QED  BY <3>2, <3>3
    <2>3. /\ r.pc = "call" => new.completedSteps = Before(k, at + 1) /\ at + 1 \in 1..5
          /\ new.completedSteps <= 4
      BY <1>3, <2>1, <2>2 DEF Before
    <2>4. Placed'
      BY <1>3, <1>4, <2>1, <2>3 DEF Told, Placed
    <2>5. Provisioned'
      BY <1>5, <2>1 DEF Provisioned
    <2>6. /\ new.completedSteps >= 3 => at >= 4
          /\ new.completedSteps >= 4 => at = 5
      BY <2>1, <2>2
    <2>7. TornDown'
      <3> SUFFICES ASSUME AllAlone, ~NoneAsked
                   PROVE  /\ ~Unsettled(Creation)'
                          /\ \A l \in Deletions : Gone(l)'
                          /\ row'.deleted => docker'.container = 0 /\ docker'.objects = {}
        BY <1>5 DEF TornDown
      <3>1. ~Unsettled(Creation)'
        BY <1>4, <2>1 DEF Told, TornDown, Unsettled, Jobs
      <3>2. /\ at >= 3 => Had(k, 3)
            /\ at >= 4 => Had(k, 4)
            /\ at = 5 => Had(k, 5)
        BY <1>1, <1>2, <2>1 DEF Had
      <3>3. ASSUME NEW l \in Deletions PROVE Gone(l)'
        <4>1. Gone(l) /\ Gone(k)
          BY <1>9 DEF Told, TornDown
        <4>2. CASE l = k
          BY <1>2, <1>4, <1>7, <2>1, <2>6, <3>2, <4>1, <4>2 DEF Gone
        <4>3. CASE l # k
          BY <1>2, <1>4, <4>1, <4>3 DEF Gone, Had, Jobs
        <4> QED  BY <4>2, <4>3
      <3>4. row'.deleted => docker'.container = 0 /\ docker'.objects = {}
        <4>1. CASE r.pc = "done"
          <5>1. Gone(k) /\ run[k].pc = "ok" /\ run[k].call = 5
            BY <1>1, <1>2, <1>3, <1>9, <2>1, <4>1 DEF Told, TornDown
          <5> QED  BY <1>2, <1>9, <5>1, CleanHost
        <4>2. CASE r.pc # "done"
          BY <1>2, <1>3, <2>1, <4>2 DEF Told, TornDown
        <4> QED  BY <4>1, <4>2
      <3> QED  BY <3>1, <3>3, <3>4
    <2> QED  BY <1>2, <1>6, <2>4, <2>5, <2>7 DEF Told
  <1> QED  BY <1>8, <1>9 DEF Jobs

LEMMA ReturnKeeps ==
    ASSUME TypeOK, Running, Told, NEW k \in Jobs, Return(k)
    PROVE  Moved /\ Told' /\ UNCHANGED <<row, api, rec, docker, process, downs>>
  <1> USE Sets
  <1>1. PICK old, steps : old = job[k] /\ steps = IF k = Creation THEN 7 ELSE 5
    OBVIOUS
  <1>2. PICK half, new : /\ half = [old EXCEPT !.state = "succeeded"]
                         /\ new = [half EXCEPT !.completedSteps = steps]
    OBVIOUS
  <1>3. /\ old \in JobT /\ old.state = "running" /\ run[k].pc = "done"
        /\ UNCHANGED <<row, api, rec, docker, process, downs>>
    BY <1>1 DEF Return, Running
  <1>4. /\ half \in JobT /\ half.state = "succeeded" /\ half.attempts = old.attempts
        /\ half.alone = old.alone
    BY <1>2, <1>3 DEF JobT
  <1>5. /\ new \in JobT /\ new.state = "succeeded" /\ new.attempts = old.attempts
        /\ new.alone = old.alone /\ new.completedSteps = steps
    <2>1. steps \in 0..7
      BY <1>1
    <2>2. new = [half EXCEPT !.completedSteps = steps]
      BY <1>2
    <2> QED  BY <1>4, <2>1, <2>2 DEF JobT
  <1>6. job' = [job EXCEPT ![k] = new] /\ run' = [run EXCEPT ![k] = NoRun]
    BY <1>1, <1>2 DEF Return, Ends
  <1>7. LifeStep(job[k], new, MaxAttempts[k])
    BY <1>1, <1>3, <1>5 DEF LifeStep
  <1>8. Moved
    BY <1>5, <1>6, <1>7, NoRunIs, OneMoves
  <1>9. CASE k = Creation
    <2>1. old.completedSteps = 7
      BY <1>1, <1>3, <1>9 DEF Told, Placed
    <2>2. /\ NoneAsked' <=> NoneAsked
          /\ AllAlone' <=> AllAlone
      BY <1>1, <1>3, <1>5, <1>6, <1>9, JobsAssumption DEF NoneAsked, AllAlone, Jobs
    <2>3. Born' /\ Placed'
      BY <1>1, <1>3, <1>5, <1>6, <1>9, <2>2, NoRunIs DEF Told, Born, Placed
    <2>4. Provisioned'
      BY <1>1, <1>3, <1>5, <1>6, <1>9, <2>1, <2>2, NoRunIs DEF Told, Provisioned, Had
    <2>5. TornDown'
      BY <1>1, <1>3, <1>9, <2>2 DEF Told, TornDown, Unsettled
    <2> QED  BY <1>3, <1>8, <2>3, <2>4, <2>5 DEF Told
  <1>10. CASE k \in Deletions
    <2>1. row.deleted /\ k # Creation
      BY <1>3, <1>10, DeletionTable DEF Told, Placed
    <2>2. /\ NoneAsked' <=> NoneAsked
          /\ AllAlone' <=> AllAlone
          /\ ~NoneAsked
      BY <1>1, <1>3, <1>5, <1>6, <1>10 DEF NoneAsked, AllAlone, Jobs
    <2>3. Born' /\ Placed'
      BY <1>1, <1>3, <1>5, <1>6, <2>1, <2>2, NoRunIs DEF Told, Born, Placed
    <2>4. Provisioned'
      BY <2>2 DEF Provisioned
    <2>5. TornDown'
      <3> SUFFICES ASSUME AllAlone, ~NoneAsked PROVE TornDown'
        BY <2>2 DEF TornDown
      <3>1. docker.container = 0 /\ docker.objects = {} /\ ~Unsettled(Creation)
        BY <2>1 DEF Told, TornDown
      <3> QED  BY <1>3, <1>6, <2>1, <3>1 DEF TornDown, Gone, Unsettled, Jobs
    <2> QED  BY <1>3, <1>8, <2>3, <2>4, <2>5 DEF Told
  <1> QED  BY <1>9, <1>10 DEF Jobs

\* The first job of a project.
LEMMA CreateKeeps ==
    ASSUME TypeOK, Running, Told, Create
    PROVE  /\ Moved /\ Told' /\ row' \in RowT
           /\ UNCHANGED <<run, api, rec, docker, process, downs>>
  <1> USE Sets
  <1>1. /\ row.state = "absent" /\ row' = [row EXCEPT !.state = "creating"]
        /\ job' = [job EXCEPT ![Creation] = Queued]
        /\ UNCHANGED <<run, api, rec, docker, process, downs>>
    BY DEF Create
  <1>2. /\ row' \in RowT /\ row'.state # "absent" /\ row'.deleted = row.deleted
        /\ row'.containerId = row.containerId /\ row'.backups = row.backups
    BY <1>1 DEF RowT, Transient
  <1>3. \A l \in Jobs : job[l].state = "absent" /\ run[l].pc = "off"
    BY <1>1 DEF Told, Born, Running
  <1>4. Creation \in Jobs /\ LifeStep(job[Creation], Queued, MaxAttempts[Creation])
    BY <1>3, QueuedIs DEF LifeStep, Jobs
  <1>5. Moved
    BY <1>1, <1>3, <1>4, QueuedIs, OneRowMoves
  <1>6. /\ job'[Creation] = Queued
        /\ \A l \in Deletions : job'[l] = job[l] /\ l # Creation
    BY <1>1, <1>4, JobsAssumption DEF Jobs
  <1>7. NoneAsked /\ NoneAsked'
    BY <1>3, <1>6 DEF NoneAsked, Jobs
  <1>8. Born'
    BY <1>1, <1>2, <1>7 DEF Told, Born
  <1>9. Placed'
    BY <1>1, <1>3, <1>4, <1>6, QueuedIs DEF Told, Placed, Jobs
  <1>10. Provisioned'
    BY <1>1, <1>3, <1>4, <1>6, QueuedIs DEF Provisioned, Had
  <1>11. TornDown'
    BY <1>7 DEF TornDown
  <1> QED  BY <1>1, <1>2, <1>5, <1>8, <1>9, <1>10, <1>11 DEF Told

\* A deletion is asked for.
LEMMA DeleteKeeps ==
    ASSUME TypeOK, Running, Told, NEW k \in Deletions, Delete(k)
    PROVE  /\ Moved /\ Told' /\ row' \in RowT
           /\ UNCHANGED <<run, api, rec, docker, process, downs>>
  <1> USE Sets
  <1>1. /\ row.state # "absent" /\ ~row.deleted /\ row' = [row EXCEPT !.state = "deleting"]
        /\ job[k].state = "absent" /\ job' = [job EXCEPT ![k] = Queued]
        /\ UNCHANGED <<run, api, rec, docker, process, downs>>
    BY DEF Delete
  <1>2. /\ row' \in RowT /\ row'.state # "absent" /\ row'.deleted = row.deleted
    BY <1>1 DEF RowT, Transient
  <1>3. k \in Jobs /\ k # Creation /\ run[k].pc = "off" /\ job[k].completedSteps = 0
    BY <1>1, DeletionTable DEF Told, Placed, Running, Jobs
  <1>4. LifeStep(job[k], Queued, MaxAttempts[k])
    BY <1>1, QueuedIs DEF LifeStep
  <1>5. Moved
    BY <1>1, <1>3, <1>4, QueuedIs, OneRowMoves
  <1>6. /\ job'[k] = Queued
        /\ \A l \in Jobs : l # k => job'[l] = job[l]
    BY <1>1, <1>3
  <1>7. ~NoneAsked'
    BY <1>6, QueuedIs DEF NoneAsked
  <1>8. Born'
    BY <1>2, <1>7 DEF Born
  <1>9. Placed'
    BY <1>1, <1>2, <1>3, <1>6, QueuedIs DEF Told, Placed
  <1>10. Provisioned'
    BY <1>7 DEF Provisioned
  <1>11. TornDown'
    <2> SUFFICES ASSUME AllAlone' PROVE ~Unsettled(Creation)' /\ \A l \in Deletions : Gone(l)'
      BY <1>1, <1>2 DEF TornDown
    <2>1. AtRest
      BY <1>6, QueuedIs DEF AllAlone
    <2>2. ~Unsettled(Creation)'
      BY <1>3, <1>6, <2>1 DEF AtRest, Unsettled, Jobs
    <2>3. ASSUME NEW l \in Deletions PROVE Gone(l)'
      <3>1. run[l].pc = "off"
        BY <2>1 DEF AtRest, Jobs
      <3>2. CASE l = k
        BY <1>1, <1>6, <3>1, <3>2, QueuedIs DEF Gone, Had
      <3>3. CASE l # k /\ job[l].state = "absent"
        BY <1>1, <1>6, <3>1, <3>3 DEF Told, Placed, Gone, Had, Jobs
      <3>4. CASE l # k /\ job[l].state # "absent"
        <4>1. AllAlone /\ ~NoneAsked
          BY <1>1, <1>6, <3>4 DEF AllAlone, NoneAsked, Jobs
        <4>2. Gone(l)
          BY <4>1 DEF Told, TornDown
        <4> QED  BY <1>1, <1>6, <3>4, <4>2 DEF Gone, Had, Jobs
      <3> QED  BY <3>2, <3>3, <3>4
    <2> QED  BY <2>2, <2>3
  <1> QED  BY <1>1, <1>2, <1>5, <1>8, <1>9, <1>10, <1>11 DEF Told

-----------------------------------------------------------------------------
(* The invariant and the theorems. *)

LEMMA DownSteps ==
    ASSUME TypeOK, Running, Told, Crash \/ CreateDies \/ DeleteDies \/ Exit \/ Shutdown \/ Restart
    PROVE  Moved /\ Told' /\ Others'
  <1> USE Sets, OthersNow, NothingIsTyped
  <1>1. CASE Shutdown \/ Restart
    <2>1. UNCHANGED <<row, job, run, api, rec, docker, downs>> /\ process' \in {"up", "stopping"}
      BY <1>1 DEF Shutdown, Restart
    <2>2. RowStays /\ HostStays
      BY <2>1 DEF RowStays, HostStays
    <2> QED  BY <2>1, <2>2, NobodyMoves, QuietNobody, QuietKeeps DEF Others
  <1>2. CASE Crash \/ CreateDies \/ DeleteDies \/ Exit
    <2>1. /\ Down /\ job' = job
          /\ row' = row \/ \E s \in {"creating", "deleting"} : row' = [row EXCEPT !.state = s]
      BY <1>2 DEF Crash, CreateDies, DeleteDies, Exit
    <2>2. /\ process' = "down" /\ downs' \in 0..MaxDowns /\ run' = [k \in Jobs |-> NoRun]
          /\ api' = NoRequest /\ rec' = NoVisit /\ docker' = docker
      BY <2>1, DownsAssumption DEF Down
    <2>3. row' \in RowT /\ RowStays
      BY <2>1 DEF RowStays, RowT, Transient
    <2>4. HostStays
      BY <2>2 DEF HostStays
    <2> QED  BY <2>1, <2>2, <2>3, <2>4, NobodyMoves, QuietNobody, QuietKeeps DEF Others
  <1> QED  BY <1>1, <1>2

LEMMA StepKeeps == ASSUME IInv, [Next]_vars PROVE Moved /\ Told' /\ Others'
  <1>1. TypeOK /\ Running /\ Told /\ Others
    BY OthersNow DEF IInv, Told
  <1> USE <1>1
  <1>2. CASE UNCHANGED vars
    <2>1. job' = job /\ run' = run /\ RowStays /\ HostStays
      BY <1>2 DEF vars, RowStays, HostStays
    <2> QED  BY <1>2, <2>1, NobodyMoves, QuietNobody, QuietKeeps DEF vars, Others
  <1>3. CASE \/ \E action \in {"start", "stop", "restart"} : SetRunning(action)
             \/ SetRunningCall \/ SetRunningWrites \/ Visit \/ Inspect \/ Correct
             \/ ContainerStops \/ ContainerRestarts \/ ContainerRemoved
    <2>1. /\ Others' /\ job' = job /\ run' = run /\ RowStays /\ HostStays
      BY <1>3, AsideTyped DEF RowStays, HostStays
    <2> QED  BY <2>1, NobodyMoves, QuietNobody, QuietKeeps
  <1>4. CASE Crash \/ CreateDies \/ DeleteDies \/ Exit \/ Shutdown \/ Restart
    BY <1>4, DownSteps
  <1>5. CASE Create
    BY <1>5, CreateKeeps DEF Others
  <1>6. ASSUME NEW k \in Deletions, Delete(k) PROVE Moved /\ Told' /\ Others'
    BY <1>6, DeleteKeeps DEF Others
  <1>7. ASSUME NEW k \in Jobs,
               \/ RequestCancel(k) \/ Sweep(k) \/ CallThrows(k) \/ Refuses(k)
               \/ k = Creation /\ WaitAborted
        PROVE  Moved /\ Told' /\ Others'
    <2>1. Moved /\ Quiet /\ row' \in RowT /\ UNCHANGED <<api, rec, docker, process, downs>>
      BY <1>7, AttemptEnds
    <2> QED  BY <2>1, QuietKeeps DEF Others
  <1>8. ASSUME NEW k \in Jobs, Claim(k) PROVE Moved /\ Told' /\ Others'
    BY <1>8, ClaimKeeps DEF Others
  <1>9. ASSUME NEW k \in Jobs, CallReturns(k) PROVE Moved /\ Told' /\ Others'
    BY <1>9, CallReturnsKeeps DEF Others
  <1>10. ASSUME NEW k \in Jobs, Continue(k) PROVE Moved /\ Told' /\ Others'
    BY <1>10, ContinueKeeps DEF Others
  <1>11. ASSUME NEW k \in Jobs, Return(k) PROVE Moved /\ Told' /\ Others'
    BY <1>11, ReturnKeeps DEF Others
  <1>12. CASE WaitAborted
    BY <1>7, <1>12 DEF Jobs
  <1> QED
    BY <1>2, <1>3, <1>4, <1>5, <1>6, <1>7, <1>8, <1>9, <1>10, <1>11, <1>12 DEF Next

LEMMA NextInv == IInv /\ [Next]_vars => IInv'
  <1> SUFFICES ASSUME IInv, [Next]_vars PROVE IInv'
    OBVIOUS
  <1>1. Moved /\ Told' /\ Others'
    BY StepKeeps
  <1>2. TypeOK'
    BY <1>1 DEF Moved, Others, TypeOK, RowT, JobT, RunT, ApiT, RecT, DockerT
  <1>3. Running'
    <2>1. ASSUME NEW k \in Jobs
          PROVE  /\ run'[k].pc # "off" => job'[k].state = "running"
                 /\ job'[k].state = "running" => job'[k].attempts > 0
                 /\ job'[k].attempts <= MaxAttempts[k]
      <3>1. /\ job[k] \in JobT /\ job'[k] \in JobT
            /\ LifeStep(job[k], job'[k], MaxAttempts[k])
            /\ run'[k].pc # "off" => job'[k].state = "running"
            /\ job[k].state = "running" => job[k].attempts > 0
            /\ job[k].attempts <= MaxAttempts[k]
        BY <1>1, Sets DEF Moved, IInv, Running
      <3>2. job[k].attempts \in Nat /\ job'[k].attempts \in Nat
        BY <3>1 DEF JobT
      <3> QED  BY <3>1, <3>2, MaxIsPositive DEF LifeStep
    <2> QED  BY <1>1, <2>1 DEF Running, Others
  <1> QED  BY <1>1, <1>2, <1>3 DEF IInv, Told

LEMMA InitInv == Init => IInv
  <1> SUFFICES ASSUME Init PROVE IInv
    OBVIOUS
  <1>1. /\ \A k \in Jobs : job[k] = NoJob /\ run[k] = NoRun
        /\ row.state = "absent" /\ ~row.deleted /\ api = NoRequest
    BY DEF Init
  <1>2. NoJob \in JobT /\ NoJob.state = "absent" /\ NoJob.attempts = 0 /\ NoJob.completedSteps = 0
    BY DEF NoJob, JobT
  <1>3. TypeOK
    <2>1. row \in RowT /\ docker \in DockerT
      BY DEF Init, RowT, DockerT, Objects
    <2>2. rec \in [pc : {"off", "inspect", "write"}, state : {"running", "stopped", "failed"},
                   cid : Nat]
      BY DEF Init, NoVisit
    <2> QED  BY <1>2, <2>1, <2>2, NoRunIs, NothingIsTyped, Sets, DownsAssumption DEF Init
  <1>4. Running
    BY <1>1, <1>2, NoRunIs, NothingIsTyped, MaxIsPositive DEF Running
  <1>5. NoneAsked
    BY <1>1, <1>2 DEF NoneAsked, Jobs
  <1>6. Born /\ TornDown
    BY <1>1, <1>2, <1>5 DEF Born, TornDown
  <1>7. Placed
    BY <1>1, <1>2, NoRunIs DEF Placed
  <1>8. Provisioned
    BY <1>1, <1>2, NoRunIs DEF Provisioned, Had, Jobs
  <1> QED  BY <1>3, <1>4, <1>6, <1>7, <1>8 DEF IInv

LEMMA Invariantly == Spec => []IInv
  BY InitInv, NextInv, PTL DEF Spec

\* Every variable keeps its type.
THEOREM TypeCorrect == Spec => []TypeOK
  <1>1. IInv => TypeOK
    BY DEF IInv
  <1> QED  BY <1>1, Invariantly, PTL

\* A creation that has succeeded, in whatever attempts, has left a whole project
\* (project-create.ts, the steps and their resumption).
THEOREM SuccessIsWhole == Spec => []ProvisionedForReal
  <1>1. IInv => ProvisionedForReal
    <2> SUFFICES ASSUME IInv, job[Creation].state = "succeeded", NoDeletion
                 PROVE  /\ docker.objects = Objects /\ row.backups
                        /\ row.containerId # 0 /\ docker.container \in {0, row.containerId}
      BY DEF ProvisionedForReal
    <2>1. NoneAsked /\ job[Creation].completedSteps = 7
      BY DEF IInv, Placed, NoDeletion, NoneAsked, Jobs
    <2>2. docker.objects \subseteq Objects
      BY Sets DEF IInv, DockerT
    <2> QED  BY <2>1, <2>2 DEF IInv, Provisioned, Objects
  <1> QED  BY <1>1, Invariantly, PTL

\* A project is retired only when nothing of it is left on the host, unless its deletion
\* overlapped with something else (project-delete.ts:28-30).
THEOREM RetiredLast == Spec => []DeletedMeansGone
  <1>1. IInv => DeletedMeansGone
    BY DEF IInv, Born, TornDown, AllAlone, DeletedMeansGone
  <1> QED  BY <1>1, Invariantly, PTL

\* The jobs of a project go through the life cycle that JobLifecycle promises.
THEOREM FollowsLifecycle == Spec => JobsFollowLifecycle
  <1>1. Init => JobsLifecycle!Init
    BY DEF Init, JobsLifecycle!Init, NoJob
  <1>2. IInv /\ [Next]_vars =>
          [JobsLifecycle!Next]_<<[k \in Jobs |-> job[k].state], [k \in Jobs |-> job[k].attempts]>>
    <2> SUFFICES ASSUME IInv, [Next]_vars PROVE JobsLifecycle!Next
      OBVIOUS
    <2>1. ASSUME NEW k \in Jobs
          PROVE  LifeStep(job[k], job'[k], MaxAttempts[k]) /\ job'[k] \in JobT
      BY StepKeeps DEF Moved
    <2>2. ASSUME NEW k \in Jobs
          PROVE  \/ JobsLifecycle!Submit(k) \/ JobsLifecycle!Attempt(k)
                 \/ JobsLifecycle!HandBack(k) \/ JobsLifecycle!Retry(k)
                 \/ JobsLifecycle!Settle(k) \/ JobsLifecycle!Withdraw(k)
                 \/ JobsLifecycle!Rests(k)
      BY <2>1 DEF LifeStep, JobsLifecycle!Submit, JobsLifecycle!Attempt,
           JobsLifecycle!HandBack, JobsLifecycle!Retry, JobsLifecycle!Settle,
           JobsLifecycle!Withdraw, JobsLifecycle!Rests, JobsLifecycle!Moves,
           JobsLifecycle!Settled
    <2>3. /\ [k \in Jobs |-> job'[k].state]
                \in [Jobs -> {"absent", "queued", "running"} \cup JobsLifecycle!Settled]
          /\ [k \in Jobs |-> job'[k].attempts] \in [Jobs -> Nat]
      BY <2>1 DEF JobT, JobsLifecycle!Settled
    <2> QED  BY <2>2, <2>3 DEF JobsLifecycle!Next
  <1> QED
    BY <1>1, <1>2, Invariantly, PTL DEF Spec, JobsFollowLifecycle, JobsLifecycle!Spec
=============================================================================
