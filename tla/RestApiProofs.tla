--------------------------- MODULE RestApiProofs ---------------------------
(***************************************************************************)
(* Proofs about RestApi: its types, that a table made reachable is         *)
(* protected, and, when the operator waits for a request to be done before *)
(* the next, that a rest.enable job that has succeeded has left an API     *)
(* that answers.                                                           *)
(***************************************************************************)
EXTENDS RestApi, FiniteSetTheorems, TLAPS

\* The protections that expose() has put in place so far, in its transaction.
Drafted ==
    /\ expose.at \in 3..6 => expose.draft.rls
    /\ expose.at = 6 => expose.draft.policy

\* Every bound is kept; a secret is the number of its rotation.
Typed == TypeOK /\ api.key <= used.requests + 1

\* A row and its handler: at work exactly while the row is running.
RowInv(j) ==
    /\ job[j].state = "none" => job[j] = NoJob
    /\ job[j].steps <= 3
    /\ job[j].state = "queued" => job[j].attempts < MaxAttempts
    /\ (run[j].at # 0) <=> (job[j].state = "running")
    /\ run[j].at = 0 => run[j] = NoRun

RowsInv == \A j \in RestJobs : RowInv(j)

DeletionInv ==
    /\ del.state \in {"queued", "running"} => project = "deleting" /\ del.steps <= 3
    /\ del.state = "queued" => del.attempts < MaxDeletes

\* What a running attempt has found and done, by the call it is in.
Stage(j) ==
    LET at == run[j].at IN
    /\ at = 1 => job[j].steps = 0
    /\ at = 2 => job[j].steps = 1
    /\ at \in 3..5 => job[j].steps = 2
    /\ at = 6 => job[j].steps = 3 /\ run[j].cid = api.cid
    /\ at = 5 => /\ run[j].cid = cont.id /\ cont.id = api.cid /\ cont.id # 0
                 /\ cont.key = api.key

\* The container of the row runs and trusts the current secret.
Served == cont.id = api.cid /\ cont.id # 0 /\ cont.up /\ cont.key = api.key

\* A step that a row has behind it is still done.
Progress(j) ==
    /\ run[j].at # 0 => run[j].key = api.key /\ Stage(j)
    /\ job[j].steps >= 1 => login /\ project = "running"
    /\ job[j].steps >= 3 => Served

\* Nothing happens beside a job, and beside a disable().
Alone ==
    /\ \A j, k \in RestJobs : job[j].state # "none" /\ job[k].state # "none" => j = k
    /\ off.at = 0 => off = NotOff
    /\ off # NotOff => Pending = {}

\* Success lasts until the next request.
Success == last = "succeeded" => Idle /\ project # "deleted" /\ api.enabled /\ Served /\ login

-----------------------------------------------------------------------------
(* Types. *)

LEMMA OneMore ==
    ASSUME NEW S, NEW x, NEW n \in Nat, IsFiniteSet(S), Cardinality(S) <= n
    PROVE  IsFiniteSet(S \cup {x}) /\ Cardinality(S \cup {x}) <= n + 1
  <1>1. Cardinality(S) \in Nat
    BY FS_CardinalityType
  <1>2. /\ IsFiniteSet(S \cup {x})
        /\ Cardinality(S \cup {x}) = Cardinality(S) \/ Cardinality(S \cup {x}) = Cardinality(S) + 1
    BY FS_AddElement
  <1> QED  BY <1>1, <1>2

\* There is always a fresh container id.
LEMMA FreshExists == Fresh \in Ids /\ Fresh # 0
  <1> DEFINE cids == {run[j].cid : j \in RestJobs}
             N == Cardinality(RestJobs)
             Old == {cont.id, api.cid, off.cid} \cup cids
  <1>1. IsFiniteSet(RestJobs) /\ N \in Nat
    BY SlotsAssumption, FS_CardinalityType
  <1>2. IsFiniteSet(cids) /\ Cardinality(cids) <= N /\ Cardinality(cids) \in Nat
    <2> DEFINE f == [j \in RestJobs |-> run[j].cid]
    <2>1. f \in Surjection(RestJobs, cids)
      BY DEF Surjection
    <2> HIDE DEF f, cids
    <2> QED  BY <1>1, <2>1, FS_Surjection, FS_CardinalityType
  <1> HIDE DEF cids, N
  <1>3. IsFiniteSet(cids \cup {cont.id}) /\ Cardinality(cids \cup {cont.id}) <= N + 1
    BY <1>1, <1>2, OneMore
  <1>4. /\ IsFiniteSet(cids \cup {cont.id} \cup {api.cid})
        /\ Cardinality(cids \cup {cont.id} \cup {api.cid}) <= N + 2
    <2>1. PICK n \in Nat : n = N + 1
      BY <1>1
    <2>2. IsFiniteSet(cids \cup {cont.id} \cup {api.cid})
          /\ Cardinality(cids \cup {cont.id} \cup {api.cid}) <= n + 1
      BY <1>3, <2>1, OneMore
    <2> QED  BY <1>1, <2>1, <2>2
  <1>5. /\ IsFiniteSet(cids \cup {cont.id} \cup {api.cid} \cup {off.cid})
        /\ Cardinality(cids \cup {cont.id} \cup {api.cid} \cup {off.cid}) <= N + 3
        /\ Cardinality(cids \cup {cont.id} \cup {api.cid} \cup {off.cid}) \in Nat
    <2>1. PICK n \in Nat : n = N + 2
      BY <1>1
    <2>2. IsFiniteSet(cids \cup {cont.id} \cup {api.cid} \cup {off.cid})
          /\ Cardinality(cids \cup {cont.id} \cup {api.cid} \cup {off.cid}) <= n + 1
      BY <1>4, <2>1, OneMore
    <2> QED  BY <1>1, <2>1, <2>2, FS_CardinalityType
  <1>6. Old = cids \cup {cont.id} \cup {api.cid} \cup {off.cid}
    OBVIOUS
  <1>7. IsFiniteSet(Ids) /\ Cardinality(Ids) = N + 4
    BY <1>1, FS_Interval DEF Ids, N
  <1>8. \E i \in Ids : i \notin Old
    <2> SUFFICES ASSUME Ids \subseteq Old PROVE FALSE
      OBVIOUS
    <2>1. Cardinality(Ids) <= Cardinality(Old)
      BY <1>5, <1>6, FS_Subset
    <2> QED  BY <1>1, <1>5, <1>6, <1>7, <2>1
  <1>9. \E i \in Ids : i # cont.id /\ i # api.cid /\ i # off.cid /\ \A j \in RestJobs : i # run[j].cid
    BY <1>8 DEF cids
  <1>10. Fresh \in Ids
    BY <1>9 DEF Fresh
  <1> QED  BY <1>1, <1>10 DEF Ids, N

LEMMA EnqueuedTyped ==
    ASSUME TypeOK, Pending # RestJobs, RowsInv
    PROVE  \E free \in RestJobs :
             /\ job[free] = NoJob
             /\ Enqueued = [job EXCEPT ![free] = [NoJob EXCEPT !.state = "queued"]]
  <1>1. \E j \in RestJobs : job[j] = NoJob
    BY DEF Pending, RowsInv, RowInv
  <1> QED  BY <1>1 DEF Enqueued

JobRow == [state : {"none", "queued", "running"}, attempts : 0..MaxAttempts,
           steps : 0..4, cancel : BOOLEAN]
RunRow == [at : 0..6, key : Keys, cid : {0} \cup Ids]
ApiRow == [made : BOOLEAN, enabled : BOOLEAN, key : Keys, cid : {0} \cup Ids]
Container == [id : {0} \cup Ids, up : BOOLEAN, key : Keys]
OffRow == [at : 0..3, cid : {0} \cup Ids]
DelRow == [state : {"none", "queued", "running", "failed", "done"}, attempts : 0..MaxDeletes,
           steps : 0..4]
Used == [requests : 0..MaxRequests, faults : 0..MaxFaults]
Security == [granted : BOOLEAN, rls : BOOLEAN, policy : BOOLEAN]

LEMMA Limits == /\ MaxAttempts \in Nat /\ MaxAttempts >= 1 /\ MaxDeletes \in Nat /\ MaxDeletes >= 1
                /\ MaxRequests \in Nat /\ MaxFaults \in Nat /\ Overlap \in BOOLEAN
  BY LimitsAssumption

LEMMA EmptyRows ==
    /\ NoJob \in JobRow /\ NoRun \in RunRow /\ NoApi \in ApiRow /\ NoContainer \in Container
    /\ NotOff \in OffRow /\ Private \in Security
    /\ NoJob.state = "none" /\ NoJob.steps = 0 /\ NoRun.at = 0 /\ NotOff.at = 0
    /\ NoApi.key = 0
  BY Limits DEF NoJob, JobRow, NoRun, RunRow, Keys, NoApi, ApiRow, NoContainer, Container, NotOff,
                OffRow, Private, Security

\* TypeOK with the records by name.
LEMMA TypesByName ==
    TypeOK => /\ project \in {"running", "stopped", "deleting", "deleted"}
              /\ api \in ApiRow /\ cont \in Container /\ login \in BOOLEAN
              /\ sec \in Security /\ expose \in [at : 0..6, draft : Security]
              /\ lifted \subseteq {"rls", "policy"}
              /\ job \in [RestJobs -> JobRow] /\ run \in [RestJobs -> RunRow]
              /\ off \in OffRow /\ del \in DelRow
              /\ last \in {"none", "succeeded", "failed", "disabled"}
              /\ used \in Used
  BY DEF TypeOK, ApiRow, Container, Security, JobRow, RunRow, OffRow, DelRow, Used

LEMMA TypesAgain ==
    ASSUME project' \in {"running", "stopped", "deleting", "deleted"},
           api' \in ApiRow, cont' \in Container, login' \in BOOLEAN,
           sec' \in Security, expose' \in [at : 0..6, draft : Security],
           lifted' \subseteq {"rls", "policy"},
           job' \in [RestJobs -> JobRow], run' \in [RestJobs -> RunRow],
           off' \in OffRow, del' \in DelRow,
           last' \in {"none", "succeeded", "failed", "disabled"},
           used' \in Used
    PROVE  TypeOK'
  BY DEF TypeOK, ApiRow, Container, Security, JobRow, RunRow, OffRow, DelRow, Used

\* A request or a fault is counted.
LEMMA Counted ==
    ASSUME used \in Used
    PROVE  /\ used.requests \in Nat /\ used.faults \in Nat
           /\ used.requests < MaxRequests /\ used' = [used EXCEPT !.requests = @ + 1]
              => used' \in Used /\ used'.requests = used.requests + 1
           /\ Fault => used' \in Used /\ used'.requests = used.requests
           /\ Request => /\ used' \in Used /\ used'.requests = used.requests + 1
                         /\ used'.requests <= MaxRequests
  BY Limits DEF Used, Fault, Request

\* A queued row, and what becomes of a row whose attempt fails.
LEMMA RowsTyped ==
    /\ [NoJob EXCEPT !.state = "queued"] \in JobRow
    /\ \A j \in RestJobs : job \in [RestJobs -> JobRow] => FailedAttempt(j) \in JobRow
  <1>1. [NoJob EXCEPT !.state = "queued"] \in JobRow
    BY EmptyRows DEF JobRow
  <1>2. ASSUME NEW j \in RestJobs, job \in [RestJobs -> JobRow] PROVE FailedAttempt(j) \in JobRow
    <2>1. job[j] \in JobRow
      BY <1>2
    <2> QED  BY <2>1, EmptyRows DEF JobRow, FailedAttempt
  <1> QED  BY <1>1, <1>2

\* The call an attempt is in, by its number.
LEMMA CallNames ==
    ASSUME NEW j, run[j].at \in 1..6
    PROVE  /\ (Call(j) = "roles") <=> (run[j].at = 1)
           /\ (Call(j) = "auth") <=> (run[j].at = 2)
           /\ (Call(j) = "remove") <=> (run[j].at = 3)
           /\ (Call(j) = "create") <=> (run[j].at = 4)
           /\ (Call(j) = "start") <=> (run[j].at = 5)
           /\ (Call(j) = "ready") <=> (run[j].at = 6)
  BY DEF Call, Calls

LEMMA ActsTyped ==
    ASSUME TypeOK, NEW j \in RestJobs, run[j].at # 0, Acts(j)
    PROVE  cont' \in Container /\ login' \in BOOLEAN
  <1>1. cont \in Container /\ login \in BOOLEAN /\ run[j].key \in Keys
    BY TypesByName DEF RunRow
  <1>2. cont' \in {cont, NoContainer, [id |-> Fresh, up |-> FALSE, key |-> run[j].key],
                   [cont EXCEPT !.up = TRUE]}
    BY DEF Acts
  <1>3. [id |-> Fresh, up |-> FALSE, key |-> run[j].key] \in Container
    BY <1>1, FreshExists DEF Container
  <1>4. [cont EXCEPT !.up = TRUE] \in Container
    BY <1>1 DEF Container
  <1>5. login' \in BOOLEAN
    BY <1>1 DEF Acts
  <1> QED  BY <1>1, <1>2, <1>3, <1>4, <1>5, EmptyRows

LEMMA RequestsTyped ==
    ASSUME Typed, RowsInv,
           \/ Enable \/ Rotate \/ Disable \/ Delete \/ \E state \in {"running", "stopped"} : SetRunning(state)
           \/ \E j \in RestJobs : RequestCancel(j)
    PROVE  Typed'
  <1>0. /\ TypeOK /\ api \in ApiRow /\ api.key <= used.requests + 1 /\ used \in Used /\ off \in OffRow
        /\ job \in [RestJobs -> JobRow] /\ used.requests \in Nat /\ api.key \in Nat
    BY TypesByName, Limits DEF Typed, ApiRow, Used, Keys
  <1>1. ASSUME used' \in Used, used'.requests = used.requests + 1,
               api' = api, UNCHANGED <<cont, login, run, security>>,
               project' \in {"running", "stopped", "deleting", "deleted"},
               job' \in [RestJobs -> JobRow], off' \in OffRow, del' \in DelRow,
               last' \in {"none", "succeeded", "failed", "disabled"}
        PROVE  Typed'
    BY <1>0, <1>1, TypesByName, TypesAgain DEF Typed, security
  <1>2. ASSUME Pending # RestJobs PROVE Enqueued \in [RestJobs -> JobRow]
    BY <1>0, <1>2, EnqueuedTyped, RowsTyped
  <1>3. CASE Enable
    <2>1. /\ used' \in Used /\ used'.requests = used.requests + 1
          /\ used'.requests \in Nat /\ used'.requests <= MaxRequests
      BY <1>0, <1>3, Counted DEF Enable
    <2>2. job' \in [RestJobs -> JobRow]
      BY <1>2, <1>3 DEF Enable
    <2>3. api' \in ApiRow /\ api'.key <= used'.requests + 1
      <3>1. [NoApi EXCEPT !.made = TRUE, !.key = 1] \in ApiRow
        <4>1. 1 \in Keys
          BY Limits DEF Keys
        <4> QED  BY <4>1, EmptyRows DEF ApiRow
      <3>2. [NoApi EXCEPT !.made = TRUE, !.key = 1].key = 1
        BY DEF NoApi
      <3>3. CASE api.made
        <4>1. api' = api
          BY <1>3, <3>3 DEF Enable
        <4> QED  BY <1>0, <2>1, <4>1
      <3>4. CASE ~ api.made
        BY <1>3, <2>1, <3>1, <3>2, <3>4 DEF Enable
      <3> QED  BY <3>3, <3>4
    <2> QED  BY <1>0, <1>3, <2>1, <2>2, <2>3, TypesByName, TypesAgain DEF Typed, Enable, security
  <1>4. CASE Rotate
    <2>1. /\ used' \in Used /\ used'.requests = used.requests + 1
          /\ used'.requests \in Nat /\ used'.requests <= MaxRequests
      BY <1>0, <1>4, Counted DEF Rotate
    <2>2. job' \in [RestJobs -> JobRow]
      BY <1>0, <1>2, <1>4 DEF Rotate
    <2>3. api' \in ApiRow /\ api'.key <= used'.requests + 1
      <3>1. api' = [api EXCEPT !.key = api.key + 1]
        BY <1>4 DEF Rotate
      <3>2. api.key + 1 \in Keys
        BY <1>0, <2>1, Limits DEF Keys
      <3> QED  BY <1>0, <2>1, <3>1, <3>2 DEF ApiRow
    <2> QED  BY <1>0, <1>4, <2>1, <2>2, <2>3, TypesByName, TypesAgain DEF Typed, Rotate, security
  <1>5. CASE Disable
    <2>1. used' \in Used /\ used'.requests = used.requests + 1
      BY <1>0, <1>5, Counted DEF Disable
    <2>2. off' \in OffRow
      BY <1>0, <1>5 DEF Disable, OffRow, ApiRow
    <2> QED  BY <1>0, <1>1, <1>5, <2>1, <2>2, TypesByName DEF Disable
  <1>6. CASE Delete
    <2>1. used' \in Used /\ used'.requests = used.requests + 1
      BY <1>0, <1>6, Counted DEF Delete
    <2>2. del' \in DelRow
      BY <1>6, Limits DEF Delete, DelRow
    <2> QED  BY <1>0, <1>1, <1>6, <2>1, <2>2, TypesByName DEF Delete
  <1>7. ASSUME NEW state \in {"running", "stopped"}, SetRunning(state) PROVE Typed'
    <2>1. used' \in Used /\ used'.requests = used.requests + 1
      BY <1>0, <1>7, Counted DEF SetRunning
    <2> QED  BY <1>0, <1>1, <1>7, <2>1, TypesByName DEF SetRunning
  <1>8. ASSUME NEW j \in RestJobs, RequestCancel(j) PROVE Typed'
    <2>1. used' \in Used /\ used'.requests = used.requests + 1
      BY <1>0, <1>8, Counted DEF RequestCancel
    <2>2. [job[j] EXCEPT !.cancel = TRUE] \in JobRow
      BY <1>0 DEF JobRow
    <2>3. job' \in [RestJobs -> JobRow]
      BY <1>0, <1>8, <2>2, EmptyRows DEF RequestCancel
    <2> QED  BY <1>0, <1>1, <1>8, <2>1, <2>3, TypesByName DEF RequestCancel
  <1> QED  BY <1>3, <1>4, <1>5, <1>6, <1>7, <1>8

LEMMA TablesTyped ==
    ASSUME Typed,
           \/ Expose \/ ExposeStatement \/ ExposeFails \/ Unexpose \/ CreatePolicy \/ DropPolicy
           \/ \E on \in BOOLEAN : SetRlsEnabled(on)
    PROVE  Typed'
  <1>0. /\ TypeOK /\ api.key <= used.requests + 1 /\ used \in Used /\ used.requests \in Nat
        /\ api.key \in Nat /\ sec \in Security /\ expose \in [at : 0..6, draft : Security]
        /\ lifted \subseteq {"rls", "policy"} /\ NotExposing \in [at : 0..6, draft : Security]
    BY TypesByName, Limits, EmptyRows DEF Typed, ApiRow, Used, Keys, NotExposing
  <1>1. ASSUME used' \in Used, used'.requests \in {used.requests, used.requests + 1},
               sec' \in Security, expose' \in [at : 0..6, draft : Security],
               lifted' \subseteq {"rls", "policy"},
               UNCHANGED <<project, api, cont, login, job, run, off, del, last>>
        PROVE  Typed'
    BY <1>0, <1>1, TypesByName, TypesAgain DEF Typed
  <1>2. CASE ExposeStatement
    <2>1. After(Statements[expose.at]) \in Security
      <3>1. Seen \in Security
        BY <1>0 DEF Seen
      <3> QED  BY <3>1 DEF After, Security
    <2>2. sec' \in Security /\ lifted' \subseteq {"rls", "policy"}
      BY <1>0, <1>2, <2>1 DEF ExposeStatement, Committed
    <2>3. expose' \in [at : 0..6, draft : Security]
      <3>1. expose.at \in 1..6 /\ Statements[6] = "commit"
        BY <1>0, <1>2 DEF ExposeStatement, Statements
      <3>2. \/ expose' = NotExposing
            \/ expose.at # 6 /\ expose' = [at |-> expose.at + 1, draft |-> After(Statements[expose.at])]
        BY <1>2, <3>1 DEF ExposeStatement
      <3> QED  BY <1>0, <2>1, <3>1, <3>2
    <2> QED  BY <1>0, <1>1, <1>2, <2>2, <2>3 DEF ExposeStatement
  <1>3. CASE ExposeFails
    <2>1. used' \in Used /\ used'.requests = used.requests
      BY <1>0, <1>3, Counted DEF ExposeFails
    <2> QED  BY <1>0, <1>1, <1>3, <2>1 DEF ExposeFails
  <1>4. CASE Expose
    <2>1. used' \in Used /\ used'.requests = used.requests + 1
      BY <1>0, <1>4, Counted DEF Expose
    <2>2. [NotExposing EXCEPT !.at = 1] \in [at : 0..6, draft : Security]
      BY <1>0
    <2> QED  BY <1>0, <1>1, <1>4, <2>1, <2>2 DEF Expose
  <1>5. ASSUME Statement, sec' \in Security, lifted' \subseteq {"rls", "policy"} PROVE Typed'
    <2>1. used' \in Used /\ used'.requests = used.requests + 1
      BY <1>0, <1>5, Counted DEF Statement
    <2> QED  BY <1>0, <1>1, <1>5, <2>1 DEF Statement
  <1>6. CASE Unexpose
    BY <1>0, <1>5, <1>6 DEF Unexpose, Security
  <1>7. CASE CreatePolicy \/ DropPolicy
    BY <1>0, <1>5, <1>7 DEF CreatePolicy, DropPolicy, Security
  <1>8. ASSUME NEW on \in BOOLEAN, SetRlsEnabled(on) PROVE Typed'
    BY <1>0, <1>5, <1>8 DEF SetRlsEnabled, Security
  <1> QED  BY <1>2, <1>3, <1>4, <1>6, <1>7, <1>8

LEMMA DisableCallTyped ==
    ASSUME Typed, NEW fails \in BOOLEAN, DisableCall(fails) PROVE Typed'
  <1>0. /\ TypeOK /\ api \in ApiRow /\ api.key <= used.requests + 1 /\ used \in Used
        /\ cont \in Container /\ sec \in Security /\ off \in OffRow /\ login \in BOOLEAN
    BY TypesByName DEF Typed
  <1>1. used' \in Used /\ used'.requests = used.requests
    BY <1>0, Counted DEF DisableCall
  <1>2. cont' \in Container
    <2>1. [cont EXCEPT !.up = FALSE] \in Container
      BY <1>0 DEF Container
    <2>2. cont' \in {cont, [cont EXCEPT !.up = FALSE], NoContainer}
      BY DEF DisableCall
    <2> QED  BY <1>0, <2>1, <2>2, EmptyRows
  <1>3. login' \in BOOLEAN /\ sec' \in Security
    <2>1. [sec EXCEPT !.granted = FALSE] \in Security
      BY <1>0 DEF Security
    <2>2. sec' \in {sec, [sec EXCEPT !.granted = FALSE]}
      BY DEF DisableCall
    <2>3. login' \in BOOLEAN
      BY <1>0 DEF DisableCall
    <2> QED  BY <1>0, <2>1, <2>2, <2>3
  <1>4. /\ api' \in ApiRow /\ api'.key = api.key /\ off' \in OffRow
        /\ last' \in {"none", "succeeded", "failed", "disabled"}
    <2>0. last \in {"none", "succeeded", "failed", "disabled"}
      BY <1>0, TypesByName
    <2>1. CASE off.at = 3
      <3>1. api' = [api EXCEPT !.enabled = FALSE, !.cid = 0] /\ off' = NotOff /\ last' = "disabled"
        BY <2>1 DEF DisableCall
      <3> QED  BY <1>0, <3>1, EmptyRows DEF ApiRow
    <2>2. CASE off.at # 3
      <3>1. off' = [off EXCEPT !.at = off.at + 1] /\ api' = api /\ last' = last
        BY <2>2 DEF DisableCall
      <3>2. off.at + 1 \in 0..3
        BY <1>0, <2>2 DEF OffRow
      <3> QED  BY <1>0, <2>0, <3>1, <3>2 DEF OffRow
    <2> QED  BY <2>1, <2>2
  <1> QED  BY <1>0, <1>1, <1>2, <1>3, <1>4, TypesByName, TypesAgain DEF Typed, DisableCall

LEMMA ClaimTyped ==
    ASSUME Typed, NEW j \in RestJobs, RowInv(j), Claim(j) PROVE Typed'
  <1>0. /\ TypeOK /\ api \in ApiRow /\ api.key <= used.requests + 1
        /\ job \in [RestJobs -> JobRow] /\ run \in [RestJobs -> RunRow]
    BY TypesByName DEF Typed
  <1>1. CASE project = "deleted"
    <2>1. job' \in [RestJobs -> JobRow] /\ run' \in [RestJobs -> RunRow]
      BY <1>0, <1>1, EmptyRows DEF Claim
    <2> QED  BY <1>0, <2>1, TypesByName, TypesAgain DEF Typed, Claim, security
  <1>2. CASE project # "deleted"
    <2>1. [job[j] EXCEPT !.state = "running", !.attempts = @ + 1] \in JobRow
      <3>1. job[j] \in JobRow /\ job[j].attempts + 1 \in 0..MaxAttempts
        BY <1>0, Limits DEF JobRow, Claim, RowInv
      <3> QED  BY <3>1 DEF JobRow
    <2>2. job' = [job EXCEPT ![j] = [job[j] EXCEPT !.state = "running", !.attempts = @ + 1]]
      BY <1>2 DEF Claim
    <2>3. ResumeAt(job[j].steps) \in 0..6
      BY <1>0 DEF ResumeAt, JobRow
    <2>4. [at |-> ResumeAt(job[j].steps), key |-> api.key, cid |-> api.cid] \in RunRow
      BY <1>0, <2>3 DEF RunRow, ApiRow
    <2>5. job' \in [RestJobs -> JobRow] /\ run' \in [RestJobs -> RunRow]
      BY <1>0, <1>2, <2>1, <2>2, <2>4 DEF Claim
    <2> QED  BY <1>0, <2>5, TypesByName, TypesAgain DEF Typed, Claim, security
  <1> QED  BY <1>1, <1>2

\* A call that returns, by what becomes of the job.
LEMMA ReturnsEffect ==
    ASSUME TypeOK, NEW j \in RestJobs, CallReturns(j)
    PROVE  /\ run[j].at \in 1..6 /\ ~ Cancelled(j) /\ Succeeds(j) /\ Acts(j)
           /\ UNCHANGED <<project, off, del, used, security>>
           /\ api' = Records(j)
           /\ \/ /\ run[j].at = 6 /\ last' = "succeeded"
                 /\ job' = [job EXCEPT ![j] = NoJob] /\ run' = [run EXCEPT ![j] = NoRun]
              \/ /\ run[j].at \in 1..5 /\ last' = last
                 /\ \A k \in RestJobs : k # j => job'[k] = job[k] /\ run'[k] = run[k]
                 /\ job' \in [RestJobs -> JobRow] /\ run' \in [RestJobs -> RunRow]
                 /\ job'[j].state = job[j].state /\ job'[j].attempts = job[j].attempts
                 /\ job'[j].steps = StepsAfter(j)
                 /\ run'[j].at = run[j].at + 1 /\ run'[j].key = run[j].key
                 /\ run'[j].cid = CASE run[j].at = 4 -> Fresh [] run[j].at = 5 -> api.cid
                                    [] OTHER -> run[j].cid
  <1>0. /\ job \in [RestJobs -> JobRow] /\ run \in [RestJobs -> RunRow]
        /\ job[j] \in JobRow /\ run[j] \in RunRow /\ api \in ApiRow
    BY TypesByName
  <1>1. run[j].at \in 1..6
    BY <1>0 DEF CallReturns, RunRow
  <1>2. CASE run[j].at = 6
    BY <1>1, <1>2, CallNames DEF CallReturns
  <1>3. CASE run[j].at # 6
    <2> DEFINE steps == StepsAfter(j)
               at == run[j].at + 1
               cid == CASE run[j].at = 4 -> Fresh [] run[j].at = 5 -> api.cid [] OTHER -> run[j].cid
    <2>1. /\ job' = [job EXCEPT ![j] = [job[j] EXCEPT !.steps = steps]]
          /\ run' = [run EXCEPT ![j] = [run[j] EXCEPT !.at = at, !.cid = cid]]
      BY <1>1, <1>3, CallNames DEF CallReturns
    <2>2. steps \in 0..4
      BY <1>0 DEF StepsAfter, JobRow
    <2>3. at \in 0..6
      BY <1>0, <1>1, <1>3
    <2>4. cid \in {0} \cup Ids
      BY <1>0, FreshExists DEF RunRow, ApiRow
    <2>5. last' = last
      BY <1>1, <1>3, CallNames DEF CallReturns
    <2> HIDE DEF steps, at, cid
    <2>6. [job[j] EXCEPT !.steps = steps] \in JobRow
      BY <1>0, <2>2 DEF JobRow
    <2>7. [run[j] EXCEPT !.at = at, !.cid = cid] \in RunRow
      BY <1>0, <2>3, <2>4 DEF RunRow
    <2>8. job' \in [RestJobs -> JobRow] /\ run' \in [RestJobs -> RunRow]
      BY <1>0, <2>1, <2>6, <2>7
    <2>9. \A k \in RestJobs : k # j => job'[k] = job[k] /\ run'[k] = run[k]
      BY <1>0, <2>1
    <2>10. /\ job'[j].state = job[j].state /\ job'[j].attempts = job[j].attempts
           /\ job'[j].steps = steps
      BY <1>0, <2>1 DEF JobRow
    <2>11. run'[j].at = at /\ run'[j].key = run[j].key /\ run'[j].cid = cid
      BY <1>0, <2>1 DEF RunRow
    <2> QED
      BY <1>1, <1>3, <2>5, <2>8, <2>9, <2>10, <2>11 DEF CallReturns, steps, at, cid
  <1> QED  BY <1>2, <1>3

LEMMA CallReturnsTyped ==
    ASSUME Typed, NEW j \in RestJobs, CallReturns(j) PROVE Typed'
  <1>0. /\ TypeOK /\ api \in ApiRow /\ api.key <= used.requests + 1
        /\ job \in [RestJobs -> JobRow] /\ run \in [RestJobs -> RunRow]
        /\ last \in {"none", "succeeded", "failed", "disabled"}
    BY TypesByName DEF Typed
  <1>1. cont' \in Container /\ login' \in BOOLEAN
    BY <1>0, ReturnsEffect, ActsTyped DEF CallReturns
  <1>2. job' \in [RestJobs -> JobRow] /\ run' \in [RestJobs -> RunRow]
    BY <1>0, ReturnsEffect, EmptyRows
  <1>3. api' \in ApiRow /\ api'.key = api.key
    <2>1. api' \in {api, [api EXCEPT !.cid = Fresh], [api EXCEPT !.enabled = TRUE]}
      BY DEF CallReturns, Records
    <2> QED  BY <1>0, <2>1, FreshExists DEF ApiRow
  <1>4. last' \in {"none", "succeeded", "failed", "disabled"}
    BY <1>0, ReturnsEffect
  <1> QED
    BY <1>0, <1>1, <1>2, <1>3, <1>4, TypesByName, TypesAgain DEF Typed, CallReturns, security

LEMMA CallThrowsTyped ==
    ASSUME Typed, NEW j \in RestJobs, CallThrows(j) PROVE Typed'
  <1>0. /\ TypeOK /\ api.key <= used.requests + 1 /\ used \in Used
        /\ job \in [RestJobs -> JobRow] /\ run \in [RestJobs -> RunRow]
        /\ last \in {"none", "succeeded", "failed", "disabled"}
    BY TypesByName DEF Typed
  <1>1. used' \in Used /\ used'.requests = used.requests
    BY <1>0, Counted DEF CallThrows
  <1>2. job' \in [RestJobs -> JobRow] /\ run' \in [RestJobs -> RunRow]
    BY <1>0, RowsTyped, EmptyRows DEF CallThrows
  <1>3. last' \in {"none", "succeeded", "failed", "disabled"}
    BY <1>0 DEF CallThrows
  <1> QED
    BY <1>0, <1>1, <1>2, <1>3, TypesByName, TypesAgain DEF Typed, CallThrows, security

LEMMA DeletionTyped ==
    ASSUME Typed, DeletionInv, ClaimDelete \/ DeleteStep PROVE Typed'
  <1>0. /\ TypeOK /\ api.key <= used.requests + 1 /\ used \in Used /\ del \in DelRow
        /\ project \in {"running", "stopped", "deleting", "deleted"}
    BY TypesByName DEF Typed
  <1>1. used' \in Used /\ used'.requests = used.requests
    BY <1>0, Counted DEF ClaimDelete, DeleteStep
  <1>2. DeleteFailed \in DelRow
    BY <1>0 DEF DeleteFailed, DelRow
  <1>3. del' \in DelRow
    <2>1. CASE ClaimDelete
      <3>1. del.attempts + 1 \in 0..MaxDeletes
        BY <1>0, <2>1, Limits DEF ClaimDelete, DelRow, DeletionInv
      <3>2. del' = [del EXCEPT !.state = "running", !.attempts = del.attempts + 1]
        BY <2>1 DEF ClaimDelete
      <3> QED  BY <1>0, <3>1, <3>2 DEF DelRow
    <2>2. CASE DeleteStep
      <3>1. del.steps + 1 \in 0..4
        BY <1>0, <2>2 DEF DeleteStep, DelRow, DeletionInv
      <3>2. [del EXCEPT !.steps = del.steps + 1,
                        !.state = IF del.steps = 3 THEN "done" ELSE @] \in DelRow
        BY <1>0, <3>1 DEF DelRow
      <3> QED  BY <1>2, <2>2, <3>2 DEF DeleteStep
    <2> QED  BY <2>1, <2>2
  <1>4. project' \in {"running", "stopped", "deleting", "deleted"}
    BY <1>0 DEF ClaimDelete, DeleteStep
  <1> QED
    BY <1>0, <1>1, <1>3, <1>4, TypesByName, TypesAgain DEF Typed, ClaimDelete, DeleteStep, security

LEMMA CrashTyped ==
    ASSUME Typed, Crash PROVE Typed'
  <1>0. /\ TypeOK /\ api.key <= used.requests + 1 /\ used \in Used /\ del \in DelRow
        /\ job \in [RestJobs -> JobRow] /\ sec \in Security /\ cont \in Container /\ login \in BOOLEAN
        /\ expose \in [at : 0..6, draft : Security] /\ lifted \subseteq {"rls", "policy"}
        /\ last \in {"none", "succeeded", "failed", "disabled"}
    BY TypesByName DEF Typed
  <1>1. used' \in Used /\ used'.requests = used.requests
    BY <1>0, Counted DEF Crash
  <1>2. cont' \in Container /\ login' \in BOOLEAN
    BY <1>0, ActsTyped DEF Crash
  <1>3. job' \in [RestJobs -> JobRow] /\ run' \in [RestJobs -> RunRow]
    BY <1>0, RowsTyped, EmptyRows DEF Crash
  <1>4. del' \in DelRow
    BY <1>0 DEF Crash, DeleteFailed, DelRow
  <1>5. /\ sec' \in Security /\ lifted' \subseteq {"rls", "policy"}
        /\ expose' \in [at : 0..6, draft : Security]
    <2>1. NotExposing \in [at : 0..6, draft : Security]
      BY EmptyRows DEF NotExposing
    <2>2. expose.draft \in Security
      BY <1>0
    <2> QED  BY <1>0, <2>1, <2>2 DEF Crash
  <1>6. off' \in OffRow /\ last' \in {"none", "succeeded", "failed", "disabled"}
    BY <1>0, EmptyRows DEF Crash
  <1> QED
    BY <1>0, <1>1, <1>2, <1>3, <1>4, <1>5, <1>6, TypesByName, TypesAgain DEF Typed, Crash

LEMMA TypedNext == Typed /\ RowsInv /\ DeletionInv /\ [Next]_vars => Typed'
  <1> SUFFICES ASSUME Typed, RowsInv, DeletionInv, [Next]_vars PROVE Typed'
    OBVIOUS
  <1>1. CASE UNCHANGED vars
    BY <1>1 DEF vars, Typed, TypeOK
  <1>2. ASSUME NEW fails \in BOOLEAN, DisableCall(fails) PROVE Typed'
    BY <1>2, DisableCallTyped
  <1>3. ASSUME NEW j \in RestJobs, Claim(j) \/ CallReturns(j) \/ CallThrows(j) PROVE Typed'
    BY <1>3, ClaimTyped, CallReturnsTyped, CallThrowsTyped DEF RowsInv
  <1> QED
    BY <1>1, <1>2, <1>3, RequestsTyped, TablesTyped, DeletionTyped, CrashTyped DEF Next

\* A row is touched by a request, by its handler, or by the death of the process.
LEMMA EnqueuedRows ==
    ASSUME Typed, RowsInv, Pending # RestJobs, job' = Enqueued, run' = run
    PROVE  RowsInv'
  <1>0. TypeOK /\ job \in [RestJobs -> JobRow]
    BY TypesByName DEF Typed
  <1>1. PICK free \in RestJobs : /\ job[free] = NoJob
                                 /\ Enqueued = [job EXCEPT ![free] = [NoJob EXCEPT !.state = "queued"]]
    BY <1>0, EnqueuedTyped
  <1>2. RowInv(free)'
    BY <1>0, <1>1, Limits, EmptyRows DEF RowsInv, RowInv, NoJob
  <1>3. \A j \in RestJobs : j # free => RowInv(j)'
    BY <1>0, <1>1 DEF RowsInv, RowInv
  <1> QED  BY <1>2, <1>3 DEF RowsInv

\* An attempt that fails or dies leaves a row that may be claimed again, or none.
LEMMA FailedRow ==
    ASSUME TypeOK, NEW j \in RestJobs, RowInv(j),
           job'[j] \in {NoJob, FailedAttempt(j)}, run'[j] = NoRun,
           run[j].at # 0
    PROVE  RowInv(j)'
  <1>1. job[j] \in JobRow
    BY TypesByName
  <1>2. \/ job'[j] = NoJob
        \/ /\ job'[j].state = "queued" /\ job'[j].steps = job[j].steps
           /\ job'[j].attempts = job[j].attempts /\ job[j].attempts < MaxAttempts
    BY <1>1, Limits DEF FailedAttempt, JobRow
  <1> QED  BY <1>2, EmptyRows DEF RowInv, NoJob, NoRun

LEMMA RowsNext == Typed /\ RowsInv /\ DeletionInv /\ [Next]_vars => RowsInv' /\ DeletionInv'
  <1> SUFFICES ASSUME Typed, RowsInv, DeletionInv, [Next]_vars PROVE RowsInv' /\ DeletionInv'
    OBVIOUS
  <1>0. /\ TypeOK /\ job \in [RestJobs -> JobRow] /\ run \in [RestJobs -> RunRow] /\ del \in DelRow
        /\ project \in {"running", "stopped", "deleting", "deleted"}
    BY TypesByName DEF Typed
  <1>1. ASSUME UNCHANGED <<job, run>> PROVE RowsInv'
    BY <1>1 DEF RowsInv, RowInv
  <1>2. ASSUME UNCHANGED del, project' = project \/ del.state \notin {"queued", "running"}
        PROVE  DeletionInv'
    BY <1>2 DEF DeletionInv
  <1>3. CASE Enable \/ Rotate
    <2>1. RowsInv'
      BY <1>1, <1>3, EnqueuedRows DEF Enable, Rotate
    <2> QED  BY <1>2, <1>3, <2>1 DEF Enable, Rotate
  <1>4. CASE Disable \/ \E fails \in BOOLEAN : DisableCall(fails)
    BY <1>1, <1>2, <1>4 DEF Disable, DisableCall
  <1>5. CASE Delete
    <2>1. project' = "deleting" /\ del'.state = "queued" /\ del'.attempts = 0 /\ del'.steps = 0
      BY <1>5 DEF Delete
    <2>2. RowsInv'
      BY <1>1, <1>5 DEF Delete
    <2> QED  BY <2>1, <2>2, Limits DEF DeletionInv
  <1>6. ASSUME NEW state \in {"running", "stopped"}, SetRunning(state) PROVE RowsInv' /\ DeletionInv'
    <2>1. project \in {"running", "stopped"} /\ UNCHANGED <<job, run, del>>
      BY <1>6 DEF SetRunning
    <2>2. del.state \notin {"queued", "running"}
      BY <2>1 DEF DeletionInv
    <2> QED  BY <1>1, <1>2, <2>1, <2>2
  <1>7. ASSUME NEW j \in RestJobs, RequestCancel(j) PROVE RowsInv' /\ DeletionInv'
    <2>1. /\ UNCHANGED <<run, del, project>>
          /\ \A k \in RestJobs : k # j => job'[k] = job[k]
          /\ \/ job[j].state = "queued" /\ job'[j] = NoJob
             \/ job'[j] = [job[j] EXCEPT !.cancel = TRUE] /\ job[j].state # "none"
      BY <1>0, <1>7 DEF RequestCancel
    <2>2. [job[j] EXCEPT !.cancel = TRUE].state = job[j].state
          /\ [job[j] EXCEPT !.cancel = TRUE].steps = job[j].steps
          /\ [job[j] EXCEPT !.cancel = TRUE].attempts = job[j].attempts
      BY <1>0 DEF JobRow
    <2>3. RowInv(j)'
      <3>1. RowInv(j) /\ run'[j] = run[j]
        BY <2>1 DEF RowsInv
      <3>2. CASE job[j].state = "queued" /\ job'[j] = NoJob
        BY <3>1, <3>2, EmptyRows DEF RowInv
      <3>3. CASE job'[j] = [job[j] EXCEPT !.cancel = TRUE] /\ job[j].state # "none"
        <4>1. /\ job'[j].state = job[j].state /\ job'[j].steps = job[j].steps
              /\ job'[j].attempts = job[j].attempts
          BY <2>2, <3>3
        <4> QED  BY <3>1, <3>3, <4>1 DEF RowInv
      <3> QED  BY <2>1, <3>2, <3>3
    <2>4. \A k \in RestJobs : k # j => RowInv(k)'
      BY <2>1 DEF RowsInv, RowInv
    <2> QED  BY <1>2, <2>1, <2>3, <2>4 DEF RowsInv
  <1>8. CASE \/ Expose \/ ExposeStatement \/ ExposeFails \/ Unexpose \/ CreatePolicy \/ DropPolicy
             \/ \E on \in BOOLEAN : SetRlsEnabled(on)
    <2>1. UNCHANGED <<job, run, del, project>>
      BY <1>8 DEF Expose, ExposeStatement, ExposeFails, Unexpose, CreatePolicy, DropPolicy,
                  SetRlsEnabled, Statement
    <2> QED  BY <1>1, <1>2, <2>1
  <1>9. ASSUME NEW j \in RestJobs, Claim(j) PROVE RowsInv' /\ DeletionInv'
    <2>1. \A k \in RestJobs : k # j => job'[k] = job[k] /\ run'[k] = run[k]
      BY <1>0, <1>9 DEF Claim
    <2>2. RowInv(j)'
      <3>1. RowInv(j)
        BY DEF RowsInv
      <3>2. CASE project = "deleted"
        <4>1. job'[j] = NoJob /\ run'[j] = run[j]
          BY <1>0, <1>9, <3>2 DEF Claim
        <4>2. run[j].at = 0
          BY <1>9, <3>1 DEF RowInv, Claim
        <4> QED  BY <3>1, <4>1, <4>2, EmptyRows DEF RowInv
      <3>3. CASE project # "deleted"
        <4>1. job'[j].state = "running" /\ job'[j].steps = job[j].steps
          BY <1>0, <1>9, <3>3 DEF Claim, JobRow
        <4>2. run'[j].at = ResumeAt(job[j].steps)
          BY <1>0, <1>9, <3>3 DEF Claim, RunRow
        <4>3. ResumeAt(job[j].steps) # 0
          BY <1>0, <3>1 DEF ResumeAt, RowInv, JobRow
        <4> QED  BY <3>1, <4>1, <4>2, <4>3 DEF RowInv
      <3> QED  BY <3>2, <3>3
    <2>3. \A k \in RestJobs : k # j => RowInv(k)'
      BY <2>1 DEF RowsInv, RowInv
    <2> QED  BY <1>2, <1>9, <2>2, <2>3 DEF RowsInv, Claim
  <1>10. ASSUME NEW j \in RestJobs, CallReturns(j) PROVE RowsInv' /\ DeletionInv'
    <2>1. \A k \in RestJobs : k # j => job'[k] = job[k] /\ run'[k] = run[k]
      BY <1>0, <1>10, ReturnsEffect
    <2>2. RowInv(j)'
      <3>1. RowInv(j) /\ run[j].at # 0 /\ job[j].state = "running"
        BY <1>10 DEF RowsInv, RowInv, CallReturns
      <3>2. CASE run[j].at = 6
        <4>1. job'[j] = NoJob /\ run'[j] = NoRun
          BY <1>0, <1>10, <3>2, ReturnsEffect
        <4> QED  BY <4>1, EmptyRows DEF RowInv
      <3>3. CASE run[j].at # 6
        <4>1. /\ job'[j].state = "running" /\ job'[j].steps = StepsAfter(j)
              /\ run[j].at \in 1..5 /\ run'[j].at = run[j].at + 1
          BY <1>0, <1>10, <3>1, <3>3, ReturnsEffect
        <4>2. StepsAfter(j) <= 3
          <5>1. Call(j) # "ready"
            BY <4>1, CallNames
          <5> QED  BY <1>0, <3>1, <5>1 DEF StepsAfter, RowInv, JobRow
        <4> QED  BY <4>1, <4>2 DEF RowInv
      <3> QED  BY <3>2, <3>3
    <2>3. \A k \in RestJobs : k # j => RowInv(k)'
      BY <2>1 DEF RowsInv, RowInv
    <2> QED  BY <1>2, <1>10, <2>2, <2>3 DEF RowsInv, CallReturns
  <1>11. ASSUME NEW j \in RestJobs, CallThrows(j) PROVE RowsInv' /\ DeletionInv'
    <2>1. \A k \in RestJobs : k # j => job'[k] = job[k] /\ run'[k] = run[k]
      BY <1>0, <1>11 DEF CallThrows
    <2>2. job'[j] \in {NoJob, FailedAttempt(j)} /\ run'[j] = NoRun /\ run[j].at # 0
      BY <1>0, <1>11 DEF CallThrows
    <2>3. RowInv(j)'
      BY <1>0, <2>2, FailedRow DEF RowsInv
    <2>4. \A k \in RestJobs : k # j => RowInv(k)'
      BY <2>1 DEF RowsInv, RowInv
    <2> QED  BY <1>2, <1>11, <2>3, <2>4 DEF RowsInv, CallThrows
  <1>12. CASE ClaimDelete \/ DeleteStep
    <2>1. RowsInv'
      BY <1>1, <1>12 DEF ClaimDelete, DeleteStep
    <2>2. CASE ClaimDelete
      <3>1. del'.state = "running" /\ del'.steps = del.steps /\ project' = project
        BY <1>0, <2>2 DEF ClaimDelete, DelRow
      <3>2. del.state = "queued"
        BY <2>2 DEF ClaimDelete
      <3> QED  BY <2>1, <3>1, <3>2 DEF DeletionInv
    <2>3. CASE DeleteStep
      <3>1. del.state = "running" /\ project = "deleting"
        BY <2>3 DEF DeleteStep, DeletionInv
      <3>2. CASE del' = DeleteFailed /\ project' = project
        <4>1. /\ del'.steps = del.steps /\ del'.attempts = del.attempts
              /\ del'.state = IF del.attempts >= MaxDeletes THEN "failed" ELSE "queued"
          BY <1>0, <3>1, <3>2 DEF DeleteFailed, DelRow
        <4>2. del.attempts \in Nat /\ MaxDeletes \in Nat
          BY <1>0, Limits DEF DelRow
        <4> QED  BY <2>1, <3>1, <3>2, <4>1, <4>2 DEF DeletionInv
      <3>3. CASE /\ del' = [del EXCEPT !.steps = @ + 1, !.state = IF del.steps = 3 THEN "done" ELSE @]
                 /\ project' = IF del.steps = 3 THEN "deleted" ELSE project
        <4>1. del'.steps = del.steps + 1 /\ del'.state = IF del.steps = 3 THEN "done" ELSE "running"
          BY <1>0, <3>1, <3>3 DEF DelRow
        <4>2. del.steps \in Nat /\ del.steps <= 3
          BY <1>0, <3>1 DEF DelRow, DeletionInv
        <4> QED  BY <2>1, <3>1, <3>3, <4>1, <4>2 DEF DeletionInv
      <3> QED  BY <2>3, <3>2, <3>3 DEF DeleteStep
    <2> QED  BY <1>12, <2>2, <2>3
  <1>13. CASE Crash
    <2>1. ASSUME NEW k \in RestJobs PROVE RowInv(k)'
      <3>1. RowInv(k)
        BY DEF RowsInv
      <3>2. run'[k] = NoRun
        BY <1>13 DEF Crash
      <3>3. CASE run[k].at = 0
        <4>1. job'[k] = job[k] /\ run[k] = NoRun
          BY <1>13, <3>1, <3>3 DEF Crash, RowInv
        <4> QED  BY <3>1, <3>2, <4>1 DEF RowInv
      <3>4. CASE run[k].at # 0
        <4>1. job'[k] = FailedAttempt(k)
          BY <1>13, <3>4 DEF Crash
        <4> QED  BY <1>0, <3>1, <3>2, <3>4, <4>1, FailedRow
      <3> QED  BY <3>3, <3>4
    <2>2. DeletionInv'
      <3>1. project' = project
        BY <1>13 DEF Crash
      <3>2. CASE del.state = "running"
        <4>1. /\ del'.steps = del.steps /\ del'.attempts = del.attempts
              /\ del'.state = IF del.attempts >= MaxDeletes THEN "failed" ELSE "queued"
          BY <1>0, <1>13, <3>2 DEF Crash, DeleteFailed, DelRow
        <4>2. del.attempts \in Nat /\ MaxDeletes \in Nat
          BY <1>0, Limits DEF DelRow
        <4> QED  BY <3>1, <3>2, <4>1, <4>2 DEF DeletionInv
      <3>3. CASE del.state # "running"
        <4>1. del' = del
          BY <1>13, <3>3 DEF Crash
        <4> QED  BY <3>1, <4>1 DEF DeletionInv
      <3> QED  BY <3>2, <3>3
    <2> QED  BY <2>1, <2>2 DEF RowsInv
  <1>14. CASE UNCHANGED vars
    BY <1>1, <1>2, <1>14 DEF vars
  <1> QED
    BY <1>3, <1>4, <1>5, <1>6, <1>7, <1>8, <1>9, <1>10, <1>11, <1>12, <1>13, <1>14 DEF Next

LEMMA RowsInit == Init => Typed /\ RowsInv /\ DeletionInv
  <1> SUFFICES ASSUME Init PROVE Typed /\ RowsInv /\ DeletionInv
    OBVIOUS
  <1>1. TypeOK
    <2>1. [at |-> 0, draft |-> Private] \in [at : 0..6, draft : Security]
      BY EmptyRows
    <2>2. [state |-> "none", attempts |-> 0, steps |-> 0] \in DelRow
      BY Limits DEF DelRow
    <2>3. [requests |-> 0, faults |-> 0] \in Used
      BY Limits DEF Used
    <2>4. /\ project \in {"running", "stopped", "deleting", "deleted"}
          /\ api \in ApiRow /\ cont \in Container /\ login \in BOOLEAN
          /\ sec \in Security /\ expose \in [at : 0..6, draft : Security]
          /\ lifted \subseteq {"rls", "policy"}
          /\ job \in [RestJobs -> JobRow] /\ run \in [RestJobs -> RunRow]
          /\ off \in OffRow /\ del \in DelRow
          /\ last \in {"none", "succeeded", "failed", "disabled"}
          /\ used \in Used
      BY <2>1, <2>2, <2>3, EmptyRows DEF Init, NotExposing
    <2> QED
      BY <2>4 DEF TypeOK, ApiRow, Container, Security, JobRow, RunRow, OffRow, DelRow, Used
  <1>2. api.key = 0 /\ used.requests = 0
    BY DEF Init, NoApi
  <1>3. RowsInv
    BY EmptyRows DEF Init, RowsInv, RowInv
  <1>4. DeletionInv
    BY DEF Init, DeletionInv
  <1> QED  BY <1>1, <1>2, <1>3, <1>4 DEF Typed

\* The rows, the container, the handlers and the privileges keep their types, with or without
\* overlapping requests.
THEOREM TypeCorrect == Spec => []TypeOK
  <1>1. Typed => TypeOK
    BY DEF Typed
  <1> QED  BY <1>1, RowsInit, RowsNext, TypedNext, PTL DEF Spec

-----------------------------------------------------------------------------
(* Exposed tables. *)

\* Where security is neither granted nor taken away.
LEMMA SecurityKept ==
    ASSUME TypeOK, ExposedIsProtected, Drafted, UNCHANGED security
    PROVE  ExposedIsProtected' /\ Drafted'
  BY DEF security, ExposedIsProtected, ExposedWithoutRls, Drafted

\* The next statement of expose(), as a record of what it leaves.
LEMMA StatementEffect ==
    ASSUME TypeOK, Drafted, ExposeStatement
    PROVE  \/ /\ expose.at = 6 /\ sec' = expose.draft /\ lifted' = {}
              /\ expose' = NotExposing
           \/ /\ expose.at \in 1..5 /\ sec' = sec /\ lifted' = lifted
              /\ expose'.at = expose.at + 1
              /\ expose.at >= 2 => expose'.draft.rls
              /\ expose.at = 5 => expose'.draft.policy
  <1> DEFINE st == Statements[expose.at]
             Rows == [granted : BOOLEAN, rls : BOOLEAN, policy : BOOLEAN]
  <1>1. expose.at \in 1..6 /\ expose.draft \in Rows /\ sec \in Rows
    BY DEF TypeOK, ExposeStatement
  <1>2. Seen \in Rows
    BY <1>1 DEF Seen
  <1>3. CASE expose.at = 6
    <2>1. st = "commit" /\ Held
      BY <1>3 DEF Statements, Held
    <2>2. After(st) = expose.draft
      BY <2>1 DEF After, Seen
    <2> QED  BY <1>3, <2>1, <2>2 DEF ExposeStatement, Committed
  <1>4. CASE expose.at \in 1..5
    <2>1. /\ st # "commit"
          /\ expose.at = 1 => st = "begin"
          /\ expose.at = 2 => st = "enable"
          /\ expose.at = 3 => st = "grant"
          /\ expose.at = 4 => st = "drop"
          /\ expose.at = 5 => st = "create"
      BY <1>4 DEF Statements
    <2>2. /\ sec' = sec /\ lifted' = lifted
          /\ expose' = [at |-> expose.at + 1, draft |-> After(st)]
      BY <2>1 DEF ExposeStatement, Committed
    <2>3. expose.at >= 3 => Seen = expose.draft
      BY <1>4 DEF Seen, Held
    <2>4. expose.at >= 2 => After(st).rls
      BY <1>2, <1>4, <2>1, <2>3 DEF After, Drafted
    <2>5. expose.at = 5 => After(st).policy
      BY <1>2, <1>4, <2>1 DEF After
    <2> QED  BY <1>4, <2>2, <2>4, <2>5
  <1> QED  BY <1>1, <1>3, <1>4

LEMMA ExposureNext == TypeOK /\ ExposedIsProtected /\ Drafted /\ [Next]_vars
                      => ExposedIsProtected' /\ Drafted'
  <1> SUFFICES ASSUME TypeOK, ExposedIsProtected, Drafted, [Next]_vars
               PROVE  ExposedIsProtected' /\ Drafted'
    OBVIOUS
  <1> DEFINE Rows == [granted : BOOLEAN, rls : BOOLEAN, policy : BOOLEAN]
  <1>0. sec \in Rows /\ expose.at \in 0..6 /\ expose.draft \in Rows /\ NotExposing.at = 0
    BY DEF TypeOK, NotExposing
  <1>1. CASE UNCHANGED security
    BY <1>1, SecurityKept
  <1>2. CASE ExposeStatement
    BY <1>0, <1>2, StatementEffect DEF ExposedIsProtected, ExposedWithoutRls, Drafted
  <1>3. CASE Expose
    <2>1. expose'.at = 1 /\ sec' = sec /\ lifted' = lifted
      BY <1>3 DEF Expose, NotExposing
    <2> QED  BY <2>1 DEF ExposedIsProtected, ExposedWithoutRls, Drafted
  <1>4. CASE ExposeFails
    BY <1>0, <1>4 DEF ExposeFails, ExposedIsProtected, ExposedWithoutRls, Drafted
  <1>5. CASE Unexpose
    BY <1>0, <1>5 DEF Unexpose, Statement, ExposedIsProtected, ExposedWithoutRls, Drafted
  <1>6. CASE CreatePolicy \/ DropPolicy
    BY <1>0, <1>6
       DEF CreatePolicy, DropPolicy, Statement, ExposedIsProtected, ExposedWithoutRls, Drafted
  <1>7. ASSUME NEW on \in BOOLEAN, SetRlsEnabled(on)
        PROVE  ExposedIsProtected' /\ Drafted'
    BY <1>0, <1>7
       DEF SetRlsEnabled, Statement, ExposedIsProtected, ExposedWithoutRls, Drafted
  <1>8. ASSUME NEW fails \in BOOLEAN, DisableCall(fails)
        PROVE  ExposedIsProtected' /\ Drafted'
    <2>1. sec' = sec \/ sec' = [sec EXCEPT !.granted = FALSE]
      BY <1>8 DEF DisableCall
    <2>2. expose' = expose /\ lifted' = lifted
      BY <1>8 DEF DisableCall
    <2> QED  BY <1>0, <2>1, <2>2 DEF ExposedIsProtected, ExposedWithoutRls, Drafted
  <1>9. CASE Crash
    BY <1>0, <1>9 DEF Crash, ExposedIsProtected, ExposedWithoutRls, Drafted
  <1> QED
    BY <1>1, <1>2, <1>3, <1>4, <1>5, <1>6, <1>7, <1>8, <1>9
       DEF Next, Enable, Rotate, Disable, Delete, SetRunning, RequestCancel, Claim, CallReturns,
           CallThrows, ClaimDelete, DeleteStep, vars, security

\* A table that expose() has made reachable is protected by row level security and a policy,
\* unless somebody took one of them away since, whatever fails or crashes in between.
THEOREM ExposureIsSafe == Spec => []ExposedIsProtected
  <1>1. Init => ExposedIsProtected /\ Drafted
    BY DEF Init, NotExposing, Private, ExposedIsProtected, ExposedWithoutRls, Drafted
  <1>2. TypeOK /\ ExposedIsProtected /\ Drafted /\ [Next]_vars => (ExposedIsProtected /\ Drafted)'
    BY ExposureNext
  <1> QED  BY <1>1, <1>2, TypeCorrect, PTL DEF Spec

-----------------------------------------------------------------------------
(* Success, when a request waits for the one before. *)

ProgressInv == \A j \in RestJobs : Progress(j)

Sound == Typed /\ RowsInv /\ DeletionInv /\ ProgressInv /\ Alone /\ Success

LEMMA SoundFacts ==
    ASSUME Sound
    PROVE  /\ TypeOK /\ job \in [RestJobs -> JobRow] /\ run \in [RestJobs -> RunRow]
           /\ api \in ApiRow /\ cont \in Container /\ off \in OffRow
           /\ login \in BOOLEAN
           /\ \A j \in RestJobs :
                 /\ RowInv(j) /\ Progress(j)
                 /\ job[j].state = "none" => job[j].steps = 0 /\ run[j].at = 0
                 /\ run[j].at # 0 => job[j].state # "none"
                 /\ job[j].state # "none" => off = NotOff /\ last # "succeeded"
                 /\ job[j].steps >= 1 => job[j].state # "none"
  <1>1. /\ TypeOK /\ job \in [RestJobs -> JobRow] /\ run \in [RestJobs -> RunRow]
        /\ api \in ApiRow /\ cont \in Container /\ off \in OffRow /\ login \in BOOLEAN
    BY TypesByName DEF Sound, Typed
  <1>2. ASSUME NEW j \in RestJobs
        PROVE  /\ RowInv(j) /\ Progress(j)
               /\ job[j].state = "none" => job[j].steps = 0 /\ run[j].at = 0
               /\ run[j].at # 0 => job[j].state # "none"
    BY EmptyRows DEF Sound, RowsInv, ProgressInv, RowInv
  <1>3. ASSUME NEW j \in RestJobs, job[j].state # "none" PROVE off = NotOff /\ last # "succeeded"
    <2>1. Pending # {}
      BY <1>3 DEF Pending
    <2> QED  BY <2>1 DEF Sound, Alone, Success, Idle
  <1> QED  BY <1>1, <1>2, <1>3

\* With nothing pending, no row has a step behind it and no handler is at work.
LEMMA NothingPending ==
    ASSUME Sound, Pending = {}
    PROVE  \A j \in RestJobs : /\ job[j] = NoJob /\ job[j].state = "none" /\ job[j].steps = 0
                               /\ run[j].at = 0
  <1>1. \A j \in RestJobs : job[j].state = "none"
    BY DEF Pending
  <1> QED  BY <1>1, SoundFacts, EmptyRows DEF RowInv

LEMMA FreshRows ==
    ASSUME \A j \in RestJobs : run'[j].at = 0 /\ job'[j].steps = 0
    PROVE  ProgressInv'
  BY DEF ProgressInv, Progress

LEMMA RequestsProgress ==
    ASSUME ~Overlap, Sound, Enable \/ Rotate
    PROVE  ProgressInv' /\ Alone' /\ Success'
  <1>1. Pending = {} /\ off = NotOff /\ Pending # RestJobs
    BY DEF Enable, Rotate, Request, Idle
  <1>2. \A j \in RestJobs : job[j] = NoJob /\ run[j].at = 0
    BY <1>1, NothingPending
  <1>3. PICK free \in RestJobs : Enqueued = [job EXCEPT ![free] = [NoJob EXCEPT !.state = "queued"]]
    BY <1>1, EnqueuedTyped DEF Sound, Typed
  <1>4. UNCHANGED <<run, off>> /\ last' = "none" /\ job' \in {job, Enqueued}
    BY DEF Enable, Rotate
  <1>5. \A j \in RestJobs : /\ j # free => job'[j] = NoJob
                            /\ job'[j].steps = 0
    BY <1>2, <1>3, <1>4, SoundFacts, EmptyRows DEF NoJob
  <1>6. ProgressInv'
    BY <1>2, <1>4, <1>5, FreshRows
  <1>7. Alone'
    BY <1>1, <1>4, <1>5, EmptyRows DEF Alone
  <1> QED  BY <1>4, <1>6, <1>7 DEF Success

LEMMA DisableProgress ==
    ASSUME ~Overlap, Sound,
           \/ Disable \/ Delete \/ (\E state \in {"running", "stopped"} : SetRunning(state))
           \/ \E fails \in BOOLEAN : DisableCall(fails)
    PROVE  ProgressInv' /\ Alone' /\ Success'
  <1>1. Pending = {} /\ UNCHANGED <<job, run>>
    <2>1. CASE Disable \/ Delete \/ \E state \in {"running", "stopped"} : SetRunning(state)
      BY <2>1 DEF Disable, Delete, SetRunning, Request, Idle
    <2>2. CASE \E fails \in BOOLEAN : DisableCall(fails)
      <3>1. off.at # 0
        BY <2>2 DEF DisableCall
      <3>2. off # NotOff
        BY <3>1, EmptyRows
      <3> QED  BY <2>2, <3>2 DEF DisableCall, Sound, Alone
    <2> QED  BY <2>1, <2>2
  <1>2. \A j \in RestJobs : job[j].state = "none" /\ job[j].steps = 0 /\ run[j].at = 0
    BY <1>1, NothingPending
  <1>3. ProgressInv' /\ Pending' = {}
    BY <1>1, <1>2, FreshRows DEF Pending
  <1>4. (off'.at = 0 => off' = NotOff) /\ last' # "succeeded"
    <2>0. off \in OffRow
      BY SoundFacts
    <2>1. CASE Disable
      <3>1. off'.at \in {1, 3} /\ last' = "none"
        BY <2>1 DEF Disable
      <3> QED  BY <3>1
    <2>2. CASE Delete \/ \E state \in {"running", "stopped"} : SetRunning(state)
      <3>1. off' = off /\ last' = "none"
        BY <2>2 DEF Delete, SetRunning
      <3> QED  BY <3>1 DEF Sound, Alone
    <2>3. CASE \E fails \in BOOLEAN : DisableCall(fails)
      <3>1. off.at # 0
        BY <2>3 DEF DisableCall
      <3>2. last # "succeeded"
        BY <3>1, EmptyRows DEF Sound, Success, Idle
      <3>3. \/ off' = NotOff /\ last' = "disabled"
            \/ off' = [off EXCEPT !.at = off.at + 1] /\ last' = last
        BY <2>3 DEF DisableCall
      <3>4. [off EXCEPT !.at = off.at + 1].at # 0
        BY <2>0 DEF OffRow
      <3> QED  BY <3>2, <3>3, <3>4
    <2> QED  BY <2>1, <2>2, <2>3
  <1>5. Alone'
    BY <1>1, <1>2, <1>3, <1>4 DEF Alone
  <1> QED  BY <1>3, <1>4, <1>5 DEF Success

\* One row goes on; there is no other.
LEMMA OnlyRow ==
    ASSUME Sound, NEW j \in RestJobs, job[j].state # "none",
           \A k \in RestJobs : k # j => job'[k] = job[k] /\ run'[k] = run[k],
           off' = off, Progress(j)',
           Success'
    PROVE  ProgressInv' /\ Alone' /\ Success'
  <1>1. \A k \in RestJobs : k # j => job[k].state = "none"
    BY DEF Sound, Alone
  <1>2. off = NotOff
    BY SoundFacts
  <1>3. \A k \in RestJobs : k # j => /\ job'[k].state = "none" /\ job'[k].steps = 0
                                     /\ run'[k].at = 0
    BY <1>1, SoundFacts
  <1>4. \A k \in RestJobs : k # j => Progress(k)'
    BY <1>3 DEF Progress
  <1>5. ProgressInv'
    BY <1>4 DEF ProgressInv
  <1>6. Alone'
    BY <1>2, <1>3, EmptyRows DEF Alone
  <1> QED  BY <1>5, <1>6

\* An attempt that is over leaves what was done.
LEMMA OverProgress ==
    ASSUME Sound, NEW j \in RestJobs, job'[j] \in {NoJob, job[j], FailedAttempt(j)},
           run'[j].at = 0, login => login', UNCHANGED <<project, api>>,
           job[j].steps >= 3 => cont' = cont
    PROVE  Progress(j)'
  <1>1. job'[j].steps \in {0, job[j].steps}
    BY SoundFacts, EmptyRows DEF FailedAttempt, JobRow
  <1>2. Progress(j)
    BY SoundFacts
  <1>3. CASE job'[j].steps = 0
    BY <1>3 DEF Progress
  <1>4. CASE job'[j].steps = job[j].steps
    BY <1>2, <1>4 DEF Progress, Served
  <1> QED  BY <1>1, <1>3, <1>4

LEMMA CancelProgress ==
    ASSUME Sound, NEW j \in RestJobs, RequestCancel(j) PROVE ProgressInv' /\ Alone' /\ Success'
  <1>1. /\ job[j].state # "none" /\ \A k \in RestJobs : k # j => job'[k] = job[k] /\ run'[k] = run[k]
        /\ last' = "none" /\ UNCHANGED <<project, api, cont, login, run, off>>
    BY SoundFacts DEF RequestCancel
  <1>2. job'[j].steps = job[j].steps \/ (run[j].at = 0 /\ job'[j].steps = 0)
    <2>1. CASE job[j].state = "queued"
      <3>1. job'[j] = NoJob
        BY <2>1, SoundFacts DEF RequestCancel
      <3>2. run[j].at = 0
        BY <2>1, SoundFacts DEF RowInv
      <3> QED  BY <3>1, <3>2, EmptyRows
    <2>2. CASE job[j].state # "queued"
      <3>1. job'[j] = [job[j] EXCEPT !.cancel = TRUE]
        BY <2>2, SoundFacts DEF RequestCancel
      <3> QED  BY <3>1, SoundFacts DEF JobRow
    <2> QED  BY <2>1, <2>2
  <1>3. Progress(j)
    BY SoundFacts
  <1>4. Progress(j)'
    <2>1. CASE job'[j].steps = job[j].steps
      BY <1>1, <1>3, <2>1 DEF Progress, Stage, Served
    <2>2. CASE run[j].at = 0 /\ job'[j].steps = 0
      BY <1>1, <2>2 DEF Progress
    <2> QED  BY <1>2, <2>1, <2>2
  <1>5. Success'
    BY <1>1 DEF Success
  <1> QED  BY <1>1, <1>4, <1>5, OnlyRow

LEMMA ClaimProgress ==
    ASSUME Sound, NEW j \in RestJobs, Claim(j) PROVE ProgressInv' /\ Alone' /\ Success'
  <1>1. /\ job[j].state = "queued" /\ \A k \in RestJobs : k # j => job'[k] = job[k] /\ run'[k] = run[k]
        /\ UNCHANGED <<project, api, cont, login, off, last>>
    BY SoundFacts DEF Claim
  <1>2. last # "succeeded"
    BY <1>1, SoundFacts
  <1>3. Progress(j) /\ RowInv(j) /\ job[j] \in JobRow
    BY SoundFacts
  <1>4. Progress(j)'
    <2>1. CASE project = "deleted"
      <3>1. job'[j] = NoJob /\ run'[j] = run[j]
        BY <2>1, SoundFacts DEF Claim
      <3>2. run'[j].at = 0
        BY <1>1, <1>3, <3>1 DEF RowInv
      <3> QED  BY <3>1, <3>2, EmptyRows DEF Progress
    <2>2. CASE project # "deleted"
      <3>1. job'[j].steps = job[j].steps
        BY <2>2, SoundFacts DEF Claim, JobRow
      <3>2. run'[j] = [at |-> ResumeAt(job[j].steps), key |-> api.key, cid |-> api.cid]
        BY <2>2, SoundFacts DEF Claim
      <3>3. job[j].steps \in 0..3
        BY <1>3 DEF RowInv, JobRow
      <3>4. /\ run'[j].at = ResumeAt(job[j].steps) /\ run'[j].key = api.key /\ run'[j].cid = api.cid
            /\ ResumeAt(0) = 1 /\ ResumeAt(1) = 2 /\ ResumeAt(2) = 3 /\ ResumeAt(3) = 6
        BY <3>2 DEF ResumeAt
      <3>5. Stage(j)'
        BY <1>1, <3>1, <3>3, <3>4 DEF Stage
      <3> QED  BY <1>1, <1>3, <3>1, <3>4, <3>5 DEF Progress, Served
    <2> QED  BY <2>1, <2>2
  <1>5. Success'
    BY <1>1, <1>2 DEF Success
  <1> QED  BY <1>1, <1>4, <1>5, OnlyRow

LEMMA ThrowsProgress ==
    ASSUME Sound, NEW j \in RestJobs, CallThrows(j) PROVE ProgressInv' /\ Alone' /\ Success'
  <1>1. /\ run[j].at # 0 /\ \A k \in RestJobs : k # j => job'[k] = job[k] /\ run'[k] = run[k]
        /\ UNCHANGED <<project, api, cont, login, off>>
        /\ last' \in {"failed", last} /\ run'[j] = NoRun /\ job'[j] \in {NoJob, FailedAttempt(j)}
    BY SoundFacts DEF CallThrows
  <1>2. job[j].state # "none" /\ last # "succeeded"
    BY <1>1, SoundFacts
  <1>3. Progress(j)'
    BY <1>1, OverProgress, EmptyRows
  <1>4. Success'
    BY <1>1, <1>2 DEF Success
  <1> QED  BY <1>1, <1>2, <1>3, <1>4, OnlyRow

LEMMA ReturnsProgress ==
    ASSUME Sound, NEW j \in RestJobs, CallReturns(j) PROVE ProgressInv' /\ Alone' /\ Success'
  <1>0. /\ TypeOK /\ job[j] \in JobRow /\ run[j] \in RunRow /\ api \in ApiRow /\ cont \in Container
        /\ Progress(j) /\ RowInv(j)
    BY SoundFacts
  <1>1. /\ run[j].at \in 1..6 /\ Acts(j) /\ Succeeds(j) /\ api' = Records(j)
        /\ project' = project /\ off' = off
        /\ job' \in [RestJobs -> JobRow]
        /\ \A k \in RestJobs : k # j => job'[k] = job[k] /\ run'[k] = run[k]
    <2>1. job' \in [RestJobs -> JobRow]
      BY <1>0, SoundFacts, ReturnsEffect, EmptyRows
    <2> QED  BY <1>0, <2>1, SoundFacts, ReturnsEffect
  <1>2. /\ (Call(j) = "roles") <=> (run[j].at = 1)
        /\ (Call(j) = "auth") <=> (run[j].at = 2)
        /\ (Call(j) = "remove") <=> (run[j].at = 3)
        /\ (Call(j) = "create") <=> (run[j].at = 4)
        /\ (Call(j) = "start") <=> (run[j].at = 5)
        /\ (Call(j) = "ready") <=> (run[j].at = 6)
    BY <1>1, CallNames
  <1>3. /\ job[j].state # "none" /\ last # "succeeded" /\ off = NotOff
        /\ run[j].key = api.key /\ Stage(j)
    BY <1>0, <1>1, SoundFacts DEF Progress
  <1>4. login' = (login \/ run[j].at = 1)
    BY <1>1, <1>2 DEF Acts
  <1>5. CASE run[j].at = 6
    <2>1. last' = "succeeded" /\ job'[j] = NoJob /\ run'[j] = NoRun
      BY <1>0, <1>5, SoundFacts, ReturnsEffect
    <2>2. cont' = cont
      BY <1>1, <1>2, <1>5 DEF Acts
    <2>3. api' = [api EXCEPT !.enabled = TRUE]
      BY <1>1, <1>2, <1>5 DEF Records
    <2>4. api'.enabled /\ api'.cid = api.cid /\ api'.key = api.key
      BY <1>0, <2>3 DEF ApiRow
    <2>5. job[j].steps = 3
      BY <1>3, <1>5 DEF Stage
    <2>6. Served /\ login /\ project = "running"
      BY <1>0, <2>5 DEF Progress
    <2>7. Served' /\ login'
      BY <1>4, <2>2, <2>4, <2>6 DEF Served
    <2>8. \A k \in RestJobs : k # j => job[k].state = "none"
      BY <1>3 DEF Sound, Alone
    <2>9. Pending' = {}
      BY <1>1, <2>1, <2>8, EmptyRows DEF Pending
    <2>10. Success'
      BY <1>1, <1>3, <2>4, <2>6, <2>7, <2>9 DEF Success, Idle
    <2>11. Progress(j)'
      BY <2>1, EmptyRows DEF Progress
    <2> QED  BY <1>1, <1>3, <2>10, <2>11, OnlyRow
  <1>6. CASE run[j].at # 6
    <2>1. /\ run[j].at \in 1..5 /\ last' = last
          /\ job'[j].steps = StepsAfter(j)
          /\ run'[j].at = run[j].at + 1 /\ run'[j].key = run[j].key
          /\ run'[j].cid = CASE run[j].at = 4 -> Fresh [] run[j].at = 5 -> api.cid
                             [] OTHER -> run[j].cid
      BY <1>0, <1>6, SoundFacts, ReturnsEffect
    <2>2. Success'
      BY <1>3, <2>1 DEF Success
    <2>3. Progress(j)'
      <3>1. CASE run[j].at = 1
        <4>1. job'[j].steps = 1 /\ run'[j].at = 2
          BY <1>2, <2>1, <3>1 DEF StepsAfter
        <4>2. api' = api /\ login' /\ project = "running"
          BY <1>1, <1>2, <1>4, <3>1 DEF Records, Succeeds, Reachable
        <4>3. Stage(j)'
          BY <4>1 DEF Stage
        <4> QED  BY <1>1, <1>3, <2>1, <4>1, <4>2, <4>3 DEF Progress
      <3>2. CASE run[j].at = 2
        <4>0. job[j].steps = 1
          BY <1>3, <3>2 DEF Stage
        <4>1. job'[j].steps = 2 /\ run'[j].at = 3
          BY <1>2, <2>1, <3>2 DEF StepsAfter
        <4>2. api' = api /\ login' /\ project = "running"
          <5>1. api' = api
            BY <1>1, <1>2, <3>2 DEF Records
          <5>2. login /\ project = "running"
            BY <1>0, <4>0 DEF Progress
          <5> QED  BY <1>4, <5>1, <5>2
        <4>3. Stage(j)'
          BY <4>1 DEF Stage
        <4> QED  BY <1>1, <1>3, <2>1, <4>1, <4>2, <4>3 DEF Progress
      <3>3. CASE run[j].at = 3
        <4>0. job[j].steps = 2
          BY <1>3, <3>3 DEF Stage
        <4>1. job'[j].steps = 2 /\ run'[j].at = 4
          BY <1>2, <2>1, <3>3, <4>0 DEF StepsAfter
        <4>2. api' = api /\ login' /\ project = "running"
          <5>1. api' = api
            BY <1>1, <1>2, <3>3 DEF Records
          <5>2. login /\ project = "running"
            BY <1>0, <4>0 DEF Progress
          <5> QED  BY <1>4, <5>1, <5>2
        <4>3. Stage(j)'
          BY <4>1 DEF Stage
        <4> QED  BY <1>1, <1>3, <2>1, <4>1, <4>2, <4>3 DEF Progress
      <3>4. CASE run[j].at = 4
        <4>0. job[j].steps = 2
          BY <1>3, <3>4 DEF Stage
        <4>1. job'[j].steps = 2 /\ run'[j].at = 5 /\ run'[j].cid = Fresh
          BY <1>2, <2>1, <3>4, <4>0 DEF StepsAfter
        <4>2. api' = [api EXCEPT !.cid = Fresh] /\ login' /\ project = "running"
          <5>1. api' = [api EXCEPT !.cid = Fresh]
            BY <1>1, <1>2, <3>4 DEF Records
          <5>2. login /\ project = "running"
            BY <1>0, <4>0 DEF Progress
          <5> QED  BY <1>4, <5>1, <5>2
        <4>3. api'.cid = Fresh /\ api'.key = api.key
          BY <1>0, <4>2 DEF ApiRow
        <4>4. cont'.id = Fresh /\ cont'.key = run[j].key
          BY <1>1, <1>2, <3>4 DEF Acts
        <4>5. Stage(j)'
          BY <1>3, <4>1, <4>3, <4>4, FreshExists DEF Stage
        <4> QED  BY <1>1, <1>3, <2>1, <4>1, <4>2, <4>3, <4>5 DEF Progress
      <3>5. CASE run[j].at = 5
        <4>0. /\ job[j].steps = 2 /\ cont.id = api.cid /\ cont.id # 0 /\ cont.key = api.key
          BY <1>3, <3>5 DEF Stage
        <4>1. job'[j].steps = 3 /\ run'[j].at = 6 /\ run'[j].cid = api.cid
          BY <1>2, <2>1, <3>5 DEF StepsAfter
        <4>2. api' = api /\ login' /\ project = "running"
          <5>1. api' = api
            BY <1>1, <1>2, <3>5 DEF Records
          <5>2. login /\ project = "running"
            BY <1>0, <4>0 DEF Progress
          <5> QED  BY <1>4, <5>1, <5>2
        <4>3. cont' = [cont EXCEPT !.up = TRUE]
          BY <1>1, <1>2, <3>5 DEF Acts
        <4>4. cont'.up /\ cont'.id = cont.id /\ cont'.key = cont.key
          BY <1>0, <4>3 DEF Container
        <4>5. Stage(j)'
          BY <4>1, <4>2 DEF Stage
        <4>6. Served'
          BY <4>0, <4>2, <4>4 DEF Served
        <4> QED  BY <1>1, <1>3, <2>1, <4>1, <4>2, <4>5, <4>6 DEF Progress
      <3> QED  BY <2>1, <3>1, <3>2, <3>3, <3>4, <3>5
    <2> QED  BY <1>1, <1>3, <2>2, <2>3, OnlyRow
  <1> QED  BY <1>5, <1>6

LEMMA CrashProgress == ASSUME Sound, Crash PROVE ProgressInv' /\ Alone' /\ Success'
  <1>1. UNCHANGED <<project, api>> /\ off' = NotOff
    BY DEF Crash
  <1>2. \/ UNCHANGED <<cont, login>>
        \/ \E m \in RestJobs : run[m].at # 0 /\ Acts(m)
    BY DEF Crash
  <1>3. login => login'
    BY <1>2 DEF Acts
  <1>4. ASSUME NEW j \in RestJobs
        PROVE  /\ run'[j].at = 0 /\ job'[j] \in {job[j], FailedAttempt(j)}
               /\ job'[j].state # "none" => job[j].state # "none"
    <2>1. run'[j].at = 0 /\ job'[j] \in {job[j], FailedAttempt(j)}
      BY EmptyRows DEF Crash
    <2>2. job'[j] # job[j] => run[j].at # 0
      BY DEF Crash
    <2> QED  BY <2>1, <2>2, SoundFacts
  <1>5. ASSUME NEW j \in RestJobs PROVE Progress(j)'
    <2>1. ASSUME job[j].steps >= 3 PROVE cont' = cont
      <3>1. CASE UNCHANGED <<cont, login>>
        BY <3>1
      <3>2. ASSUME NEW m \in RestJobs, run[m].at # 0, Acts(m) PROVE cont' = cont
        <4>0. job[j].steps \in Nat
          BY SoundFacts DEF JobRow
        <4>1. job[j].state # "none" /\ job[m].state # "none"
          BY <2>1, <3>2, <4>0, SoundFacts
        <4>2. m = j
          BY <4>1 DEF Sound, Alone
        <4>3. Stage(j) /\ run[j].at \in 1..6
          BY <3>2, <4>2, SoundFacts DEF Progress, RunRow
        <4>4. run[j].at = 6
          BY <2>1, <4>3 DEF Stage
        <4>5. Call(m) = "ready"
          BY <4>2, <4>3, <4>4, CallNames
        <4> QED  BY <3>2, <4>5 DEF Acts
      <3> QED  BY <1>2, <3>1, <3>2
    <2> QED  BY <1>1, <1>3, <1>4, <2>1, OverProgress
  <1>6. Alone'
    BY <1>1, <1>4, EmptyRows DEF Sound, Alone
  <1>7. Success'
    <2> SUFFICES ASSUME last' = "succeeded"
                 PROVE  Idle' /\ project' # "deleted" /\ api'.enabled /\ Served' /\ login'
      BY DEF Success
    <2>1. Pending = {} /\ last = "succeeded"
      BY DEF Crash
    <2>2. \A j \in RestJobs : run[j].at = 0 /\ job[j].state = "none"
      BY <2>1, NothingPending
    <2>3. UNCHANGED <<cont, login>>
      BY <1>2, <2>2
    <2>4. project # "deleted" /\ api.enabled /\ Served /\ login
      BY <2>1 DEF Sound, Success
    <2>5. Idle'
      BY <1>1, <1>4, <2>2 DEF Idle, Pending
    <2> QED  BY <1>1, <2>3, <2>4, <2>5 DEF Served
  <1> QED  BY <1>5, <1>6, <1>7 DEF ProgressInv

\* Everything else leaves the API alone; deleting the project only goes through when its
\* container does not run.
LEMMA OthersProgress ==
    ASSUME Sound,
           \/ Expose \/ ExposeStatement \/ ExposeFails \/ Unexpose \/ CreatePolicy \/ DropPolicy
           \/ (\E on \in BOOLEAN : SetRlsEnabled(on)) \/ ClaimDelete \/ DeleteStep \/ UNCHANGED vars
    PROVE  ProgressInv' /\ Alone' /\ Success'
  <1>1. UNCHANGED <<api, cont, login, job, run, off, last>>
    BY DEF Expose, ExposeStatement, ExposeFails, Unexpose, CreatePolicy, DropPolicy, SetRlsEnabled,
           Statement, ClaimDelete, DeleteStep, vars
  <1>2. project' = project \/ (project = "deleting" /\ ~ cont.up)
    <2>1. CASE DeleteStep
      BY <2>1 DEF DeleteStep, Sound, DeletionInv
    <2>2. CASE ~ DeleteStep
      BY <2>2 DEF Expose, ExposeStatement, ExposeFails, Unexpose, CreatePolicy, DropPolicy,
                  SetRlsEnabled, Statement, ClaimDelete, vars
    <2> QED  BY <2>1, <2>2
  <1>3. ASSUME NEW j \in RestJobs PROVE Progress(j)'
    <2>1. Progress(j)
      BY SoundFacts
    <2> QED  BY <1>1, <1>2, <2>1 DEF Progress, Stage, Served
  <1>4. Alone'
    BY <1>1 DEF Sound, Alone, Pending
  <1>5. Success'
    <2>1. last = "succeeded" => project' = project
      BY <1>2 DEF Sound, Success, Served
    <2> QED  BY <1>1, <2>1 DEF Sound, Success, Idle, Pending, Served
  <1> QED  BY <1>3, <1>4, <1>5 DEF ProgressInv

LEMMA SoundNext == ASSUME ~Overlap PROVE Sound /\ [Next]_vars => Sound'
  <1> SUFFICES ASSUME Sound, [Next]_vars PROVE Sound'
    OBVIOUS
  <1>1. Typed' /\ RowsInv' /\ DeletionInv'
    BY TypedNext, RowsNext DEF Sound
  <1>2. ASSUME NEW j \in RestJobs, RequestCancel(j) \/ Claim(j) \/ CallReturns(j) \/ CallThrows(j)
        PROVE  ProgressInv' /\ Alone' /\ Success'
    BY <1>2, CancelProgress, ClaimProgress, ReturnsProgress, ThrowsProgress
  <1>3. ProgressInv' /\ Alone' /\ Success'
    BY <1>2, RequestsProgress, DisableProgress, CrashProgress, OthersProgress DEF Next
  <1> QED  BY <1>1, <1>3 DEF Sound

\* When the operator waits for a request to be done before the next, a rest.enable job that has
\* succeeded has left a running container that the row knows and that trusts the current secret,
\* and a role that may log in, whatever crashed, failed or was resumed on the way.
THEOREM SuccessServes == ASSUME ~Overlap PROVE Spec => []SucceededServes
  <1>1. Init => Sound
    <2> SUFFICES ASSUME Init PROVE Sound
      OBVIOUS
    <2>1. ProgressInv
      BY EmptyRows DEF Init, ProgressInv, Progress
    <2>2. Alone
      BY EmptyRows DEF Init, Alone, Pending
    <2>3. Success
      BY DEF Init, Success
    <2> QED  BY <2>1, <2>2, <2>3, RowsInit DEF Sound
  <1>2. Sound => SucceededServes
    BY DEF Sound, Success, Served, SucceededServes, Forwarded, Target
  <1> QED  BY <1>1, <1>2, SoundNext, PTL DEF Spec
=============================================================================
