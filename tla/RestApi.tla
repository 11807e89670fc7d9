------------------------------ MODULE RestApi -------------------------------
(***************************************************************************)
(* The REST API of a project: enabling, disabling and rotating its keys    *)
(* (rest/service.ts), the rest.enable job that replaces the PostgREST      *)
(* container (jobs/handlers/rest-enable.ts), what it does to the database  *)
(* (rest/bootstrap.ts, through data/pool.ts), which of its tables a        *)
(* stranger may read (rest/rls.ts), the proxy in front (rest/proxy.ts),    *)
(* and the deletion of the project (jobs/handlers/project-delete.ts).      *)
(*                                                                         *)
(* One step is an awaited call and the code up to the next await.  Jobs    *)
(* follow the life cycle that JobQueue implements; a settled rest.enable   *)
(* job is forgotten.  A secret is the number of its rotation.              *)
(***************************************************************************)
EXTENDS Integers, Sequences, FiniteSets

CONSTANTS
    RestJobs,     \* slots for rest.enable jobs that are queued or running
    Concurrency,  \* jobs the worker runs at a time
    MaxAttempts,  \* of a rest.enable job
    MaxDeletes,   \* attempts of a project.delete job
    Overlap,      \* does the operator act while an earlier request is not done?
    MaxRequests,  \* bound: requests of the operator
    MaxFaults     \* bound: crashes, and calls that fail for reasons of their own

ASSUME SlotsAssumption == IsFiniteSet(RestJobs) /\ Cardinality(RestJobs) >= 2
ASSUME LimitsAssumption == /\ {Concurrency, MaxAttempts, MaxDeletes} \subseteq Nat \ {0}
                           /\ {MaxRequests, MaxFaults} \subseteq Nat /\ Overlap \in BOOLEAN

VARIABLES
    project,  \* the state of the project's row
    api,      \* its api_configs row
    cont,     \* the PostgREST container with its name
    login,    \* may the authenticator role log in?
    sec,      \* a table's privileges for anon, row level security, policy
    expose,   \* the expose() that is under way
    lifted,   \* history: the protections of the table that somebody took away
    job,      \* the rest.enable jobs
    run,      \* their handlers
    off,      \* the disable() that is under way
    del,      \* the project.delete job: attempts, the call it is in, its state
    last,     \* history: how the last request about the API came out
    used      \* how much of each bound is used up

vars == <<project, api, cont, login, sec, expose, lifted, job, run, off, del, last, used>>
security == <<sec, expose, lifted>>

Ids == 1..(Cardinality(RestJobs) + 4)  \* enough for a fresh one
Keys == 0..(MaxRequests + 1)
NoJob == [state |-> "none", attempts |-> 0, steps |-> 0, cancel |-> FALSE]
NoRun == [at |-> 0, key |-> 0, cid |-> 0]
NoContainer == [id |-> 0, up |-> FALSE, key |-> 0]
NoApi == [made |-> FALSE, enabled |-> FALSE, key |-> 0, cid |-> 0]
NotOff == [at |-> 0, cid |-> 0]
Private == [granted |-> FALSE, rls |-> FALSE, policy |-> FALSE]
NotExposing == [at |-> 0, draft |-> Private]

TypeOK ==
    /\ project \in {"running", "stopped", "deleting", "deleted"}
    /\ api \in [made : BOOLEAN, enabled : BOOLEAN, key : Keys, cid : {0} \cup Ids]
    /\ cont \in [id : {0} \cup Ids, up : BOOLEAN, key : Keys]
    /\ login \in BOOLEAN
    /\ sec \in [granted : BOOLEAN, rls : BOOLEAN, policy : BOOLEAN]
    /\ expose \in [at : 0..6, draft : [granted : BOOLEAN, rls : BOOLEAN, policy : BOOLEAN]]
    /\ lifted \subseteq {"rls", "policy"}
    /\ job \in [RestJobs -> [state : {"none", "queued", "running"}, attempts : 0..MaxAttempts,
                             steps : 0..4, cancel : BOOLEAN]]
    /\ run \in [RestJobs -> [at : 0..6, key : Keys, cid : {0} \cup Ids]]
    /\ off \in [at : 0..3, cid : {0} \cup Ids]
    /\ del \in [state : {"none", "queued", "running", "failed", "done"}, attempts : 0..MaxDeletes,
                steps : 0..4]
    /\ last \in {"none", "succeeded", "failed", "disabled"}
    /\ used \in [requests : 0..MaxRequests, faults : 0..MaxFaults]

Init ==
    /\ project = "running" /\ api = NoApi /\ cont = NoContainer /\ login = FALSE
    /\ sec = Private /\ expose = NotExposing /\ lifted = {}
    /\ job = [j \in RestJobs |-> NoJob] /\ run = [j \in RestJobs |-> NoRun]
    /\ off = NotOff /\ del = [state |-> "none", attempts |-> 0, steps |-> 0]
    /\ last = "none" /\ used = [requests |-> 0, faults |-> 0]

-----------------------------------------------------------------------------
(* Requests. *)

Pending == {j \in RestJobs : job[j].state # "none"}
Idle == Pending = {} /\ off = NotOff

Request == /\ used.requests < MaxRequests /\ used' = [used EXCEPT !.requests = @ + 1]
           /\ Overlap \/ Idle

Fault == used.faults < MaxFaults /\ used' = [used EXCEPT !.faults = @ + 1]

Enqueued == LET free == CHOOSE j \in RestJobs : job[j] = NoJob
            IN [job EXCEPT ![free] = [NoJob EXCEPT !.state = "queued"]]

\* enable(): the first one makes the row and its secret.
Enable ==
    /\ Request /\ project = "running" /\ Pending # RestJobs
    /\ api' = IF api.made THEN api ELSE [NoApi EXCEPT !.made = TRUE, !.key = 1]
    /\ job' = Enqueued
    /\ last' = "none"
    /\ UNCHANGED <<project, cont, login, run, off, del, security>>

\* rotateKeys(): the container is replaced only when the API is on.
Rotate ==
    /\ Request /\ api.made /\ Pending # RestJobs
    /\ api' = [api EXCEPT !.key = @ + 1]
    /\ job' = IF api.enabled THEN Enqueued ELSE job
    /\ last' = "none"
    /\ UNCHANGED <<project, cont, login, run, off, del, security>>

\* disable() reads the row.
Disable ==
    /\ Request /\ api.made /\ off = NotOff
    /\ off' = [at |-> IF api.cid = 0 THEN 3 ELSE 1, cid |-> api.cid]
    /\ last' = "none"
    /\ UNCHANGED <<project, api, cont, login, job, run, del, security>>

\* Mutant: the database is reached in any state of the project.
ReachableAlways == TRUE

\* poolFor(): the database is reached through the row of a running project.
Reachable == project = "running"

\* The statements of expose(), in one transaction that holds the table from ALTER TABLE on: other
\* statements about it wait (external: Postgres).
Statements == <<"begin", "enable", "grant", "drop", "create", "commit">>
Held == expose.at > 2

\* What is read of the table by the statement that is next.
Seen == IF Held THEN expose.draft ELSE sec

After(statement) ==
    CASE statement = "enable" -> [Seen EXCEPT !.rls = TRUE]
      [] statement = "grant" -> [Seen EXCEPT !.granted = TRUE]
      [] statement = "drop" -> [Seen EXCEPT !.policy = FALSE]
      [] statement = "create" -> [Seen EXCEPT !.policy = TRUE]
      [] OTHER -> Seen

\* Mutant: every statement on a client of its own.
CommittedAtOnce(statement) == After(statement)

\* What others see after a statement.
Committed(statement) == IF statement = "commit" THEN After(statement) ELSE sec

\* revokeApiAccess(), whose failure is only logged: the privileges go, and the right to log in.
Revokes == off.at = 3 /\ Reachable

\* Its calls: stop, remove, revoke; every error is swallowed.  Then the row is written.
DisableCall(fails) ==
    /\ off.at # 0 /\ (Revokes /\ ~ fails => ~ Held)
    /\ IF fails THEN Fault ELSE UNCHANGED used
    /\ cont' = IF fails \/ cont.id # off.cid \/ cont.id = 0 THEN cont
               ELSE IF off.at = 1 THEN [cont EXCEPT !.up = FALSE]
               ELSE IF off.at = 2 THEN NoContainer
               ELSE cont
    /\ login' = IF Revokes /\ ~ fails THEN FALSE ELSE login
    /\ sec' = IF Revokes /\ ~ fails THEN [sec EXCEPT !.granted = FALSE] ELSE sec
    /\ IF off.at = 3
       THEN /\ api' = [api EXCEPT !.enabled = FALSE, !.cid = 0]
            /\ off' = NotOff /\ last' = "disabled"
       ELSE off' = [off EXCEPT !.at = @ + 1] /\ UNCHANGED <<api, last>>
    /\ UNCHANGED <<project, job, run, del, expose, lifted>>

\* setRunning(); the PostgREST container is left alone.
SetRunning(state) ==
    /\ Request /\ project \in {"running", "stopped"} /\ project # state
    /\ project' = state
    /\ last' = "none"
    /\ UNCHANGED <<api, cont, login, job, run, off, del, security>>

\* delete() of the project.
Delete ==
    /\ Request /\ project \in {"running", "stopped"}
    /\ project' = "deleting"
    /\ del' = [state |-> "queued", attempts |-> 0, steps |-> 0]
    /\ last' = "none"
    /\ UNCHANGED <<api, cont, login, job, run, off, security>>

RequestCancel(j) ==
    /\ used.requests < MaxRequests /\ used' = [used EXCEPT !.requests = @ + 1]
    /\ job[j].state # "none"
    /\ job' = [job EXCEPT ![j] = IF @.state = "queued" THEN NoJob ELSE [@ EXCEPT !.cancel = TRUE]]
    /\ last' = "none"
    /\ UNCHANGED <<project, api, cont, login, run, off, del, security>>

-----------------------------------------------------------------------------
(* Which tables are reachable; here one table, with one policy.            *)

\* A statement about the table is asked for: it waits for a transaction that holds the table.
Statement ==
    /\ used.requests < MaxRequests /\ used' = [used EXCEPT !.requests = @ + 1]
    /\ Reachable /\ ~ Held
    /\ UNCHANGED <<project, api, cont, login, expose, job, run, off, del, last>>

\* setRlsEnabled(), unexpose(), createRawPolicy(), dropPolicy().
SetRlsEnabled(on) ==
    /\ Statement
    /\ sec' = [sec EXCEPT !.rls = on]
    /\ lifted' = IF on THEN lifted \ {"rls"} ELSE lifted \cup {"rls"}

Unexpose ==
    /\ Statement
    /\ sec' = [sec EXCEPT !.granted = FALSE]
    /\ UNCHANGED lifted

CreatePolicy ==
    /\ Statement /\ ~ sec.policy
    /\ sec' = [sec EXCEPT !.policy = TRUE]
    /\ lifted' = lifted \ {"policy"}

DropPolicy ==
    /\ Statement
    /\ sec' = [sec EXCEPT !.policy = FALSE]
    /\ lifted' = lifted \cup {"policy"}

\* expose() has found the table and takes a client.  Bound: one at a time.
Expose ==
    /\ used.requests < MaxRequests /\ used' = [used EXCEPT !.requests = @ + 1]
    /\ Reachable /\ expose.at = 0
    /\ expose' = [NotExposing EXCEPT !.at = 1]
    /\ UNCHANGED <<project, api, cont, login, sec, lifted, job, run, off, del, last>>

ExposeStatement ==
    /\ expose.at # 0 /\ Reachable
    /\ LET statement == Statements[expose.at]
       IN /\ sec' = Committed(statement)
          /\ expose' = IF statement = "commit" THEN NotExposing
                       ELSE [at |-> expose.at + 1, draft |-> After(statement)]
          /\ lifted' = IF statement = "commit" THEN {} ELSE lifted
    /\ UNCHANGED <<project, api, cont, login, job, run, off, del, last, used>>

\* A statement fails, or the server has gone; what the transaction did is rolled back.
ExposeFails ==
    /\ expose.at # 0
    /\ IF Reachable THEN Fault ELSE UNCHANGED used
    /\ expose' = NotExposing
    /\ UNCHANGED <<project, api, cont, login, sec, lifted, job, run, off, del, last>>

\* targetFor() and forward(): what a request to the public address is answered.
Target == project # "deleted" /\ api.enabled
Forwarded == IF ~ Target THEN "not enabled" ELSE IF cont.up THEN "answered" ELSE "unreachable"

\* securityFor(): the combination the console warns of.
ExposedWithoutRls == sec.granted /\ ~ sec.rls

-----------------------------------------------------------------------------
(* rest.enable. *)

\* Its awaited calls; removing goes through the containers that carry the project's labels.
Calls == <<"roles", "auth", "remove", "create", "start", "ready">>
Call(j) == Calls[run[j].at]

\* Mutant: an attempt goes on behind the container it has started before it was told so.
ResumeSkips(steps) == <<1, 2, 5, 6, 6>>[steps + 1]

\* The call an attempt with so many steps behind it starts with.
ResumeAt(steps) == <<1, 2, 3, 6, 6>>[steps + 1]

StepsAfter(j) == CASE Call(j) = "roles" -> 1
                   [] Call(j) = "auth" -> 2
                   [] Call(j) = "start" -> 3
                   [] Call(j) = "ready" -> 4
                   [] OTHER -> job[j].steps

Running == Cardinality({j \in RestJobs : run[j].at # 0}) + IF del.state = "running" THEN 1 ELSE 0

FailedAttempt(j) == IF job[j].attempts >= MaxAttempts THEN NoJob
                    ELSE [job[j] EXCEPT !.state = "queued"]

\* An attempt starts with the rows of the project and of its API.
Claim(j) ==
    /\ job[j].state = "queued" /\ Running < Concurrency
    /\ IF project = "deleted"
       THEN job' = [job EXCEPT ![j] = NoJob] /\ UNCHANGED run
       ELSE /\ job' = [job EXCEPT ![j].state = "running", ![j].attempts = @ + 1]
            /\ run' = [run EXCEPT ![j] = [at |-> ResumeAt(job[j].steps), key |-> api.key, cid |-> api.cid]]
    /\ UNCHANGED <<project, api, cont, login, off, del, last, used, security>>

Fresh == CHOOSE i \in Ids : i # cont.id /\ i # api.cid /\ i # off.cid /\ \A j \in RestJobs : i # run[j].cid

\* throwIfCancelled() precedes each step; waiting watches the signal.
Cancelled(j) == job[j].cancel /\ Call(j) \in {"roles", "auth", "remove", "ready"}

\* Whether a call can do its work; readiness is read off the logs, which a stopped container keeps.
Succeeds(j) ==
    CASE Call(j) \in {"roles", "auth"} -> Reachable
      [] Call(j) = "create" -> cont.id = 0
      [] Call(j) = "start" -> cont.id = run[j].cid
      [] Call(j) = "ready" -> run[j].cid # 0 /\ cont.id = run[j].cid
      [] OTHER -> TRUE

\* PostgREST logs the same lines before it has reached the database, but not for long.
MayFail(j) == \/ Cancelled(j) \/ ~ Succeeds(j)
              \/ Call(j) = "ready" /\ ~ (cont.up /\ login /\ Reachable)

\* What a call does; the container is told the secret that the attempt has read.
Acts(j) ==
    /\ cont' = CASE Call(j) = "remove" -> NoContainer
                 [] Call(j) = "create" -> [id |-> Fresh, up |-> FALSE, key |-> run[j].key]
                 [] Call(j) = "start" -> [cont EXCEPT !.up = TRUE]
                 [] OTHER -> cont
    /\ login' = (login \/ Call(j) = "roles")

\* What it writes to the row before the next call.
Records(j) ==
    CASE Call(j) = "create" -> [api EXCEPT !.cid = Fresh]
      [] Call(j) = "ready" -> [api EXCEPT !.enabled = TRUE]
      [] OTHER -> api

CallReturns(j) ==
    /\ run[j].at # 0 /\ ~ Cancelled(j) /\ Succeeds(j)
    /\ Acts(j)
    /\ api' = Records(j)
    /\ IF Call(j) = "ready"
       THEN /\ job' = [job EXCEPT ![j] = NoJob] /\ run' = [run EXCEPT ![j] = NoRun]
            /\ last' = "succeeded"
       ELSE /\ job' = [job EXCEPT ![j].steps = StepsAfter(j)]
            /\ run' = [run EXCEPT ![j].at = @ + 1, ![j].cid =
                         CASE Call(j) = "create" -> Fresh [] Call(j) = "start" -> api.cid [] OTHER -> @]
            /\ UNCHANGED last
    /\ UNCHANGED <<project, off, del, used, security>>

\* A call fails, or the cancellation is noticed; the error goes to the row.
CallThrows(j) ==
    /\ run[j].at # 0
    /\ IF MayFail(j) THEN UNCHANGED used ELSE Fault
    /\ job' = [job EXCEPT ![j] = IF Cancelled(j) THEN NoJob ELSE FailedAttempt(j)]
    /\ run' = [run EXCEPT ![j] = NoRun]
    /\ last' = IF job'[j] = NoJob THEN "failed" ELSE last
    /\ UNCHANGED <<project, api, cont, login, off, del, security>>

-----------------------------------------------------------------------------
(* project.delete, and the process. *)

ClaimDelete ==
    /\ del.state = "queued" /\ Running < Concurrency
    /\ del' = [del EXCEPT !.state = "running", !.attempts = @ + 1]
    /\ UNCHANGED <<project, api, cont, login, job, run, off, last, used, security>>

DeleteFailed == [del EXCEPT !.state = IF @ = "running" /\ del.attempts >= MaxDeletes
                                      THEN "failed" ELSE "queued"]

\* Its four steps remove the database's container, the volumes and the network; Docker keeps a
\* network that a running container is attached to.
DeleteStep ==
    /\ del.state = "running"
    /\ \/ /\ del.steps = 3 /\ cont.up
          /\ del' = DeleteFailed
          /\ UNCHANGED <<project, used>>
       \/ /\ ~ (del.steps = 3 /\ cont.up)
          /\ Fault
          /\ del' = DeleteFailed
          /\ UNCHANGED project
       \/ /\ ~ (del.steps = 3 /\ cont.up)
          /\ del' = [del EXCEPT !.steps = @ + 1, !.state = IF del.steps = 3 THEN "done" ELSE @]
          /\ project' = IF del.steps = 3 THEN "deleted" ELSE project
          /\ UNCHANGED used
    /\ UNCHANGED <<api, cont, login, job, run, off, last, security>>

\* The process dies with the calls under way done or not, and is restarted: leases expire, a
\* request is lost.
Crash ==
    /\ Fault
    /\ \/ UNCHANGED <<cont, login>>
       \/ \E j \in RestJobs : run[j].at # 0 /\ Succeeds(j) /\ Acts(j)
    /\ job' = [j \in RestJobs |-> IF run[j].at = 0 THEN job[j] ELSE FailedAttempt(j)]
    /\ run' = [j \in RestJobs |-> NoRun]
    /\ off' = NotOff
    /\ \/ UNCHANGED <<sec, lifted>>
       \/ expose.at = 6 /\ sec' = expose.draft /\ lifted' = {}
    /\ expose' = NotExposing
    /\ del' = IF del.state = "running" THEN DeleteFailed ELSE del
    /\ last' = IF Pending = {} THEN last ELSE "failed"
    /\ UNCHANGED <<project, api>>

Next ==
    \/ Enable \/ Rotate \/ Disable \/ Delete
    \/ Expose \/ ExposeStatement \/ ExposeFails \/ Unexpose \/ CreatePolicy \/ DropPolicy
    \/ \E on \in BOOLEAN : SetRlsEnabled(on)
    \/ \E fails \in BOOLEAN : DisableCall(fails)
    \/ \E state \in {"running", "stopped"} : SetRunning(state)
    \/ \E j \in RestJobs : RequestCancel(j) \/ Claim(j) \/ CallReturns(j) \/ CallThrows(j)
    \/ ClaimDelete \/ DeleteStep \/ Crash

Spec == Init /\ [][Next]_vars

\* The worker claims what is queued, and calls return or throw.
FairSpec ==
    /\ Spec
    /\ WF_vars(DisableCall(FALSE)) /\ WF_vars(ExposeStatement) /\ WF_vars(ClaimDelete) /\ WF_vars(DeleteStep)
    /\ WF_vars(\E j \in RestJobs : Claim(j))
    /\ \A j \in RestJobs : WF_vars(CallReturns(j) \/ CallThrows(j))

-----------------------------------------------------------------------------
(* Properties. *)

\* A rest.enable job that has succeeded, through crashes, failed calls and resumed attempts, leaves
\* a running container that the row knows and that trusts the current secret, and a role that may
\* log in (rest-enable.ts: "a surviving container would still be trusting the old secret").
SucceededServes ==
    Idle /\ last = "succeeded" =>
        Forwarded = "answered" /\ cont.id = api.cid /\ cont.key = api.key /\ login

\* A table whose privileges were granted through expose() has a rule that decides who sees what, and
\* row level security to enforce it, unless somebody took one of them away since; whatever fails or
\* crashes halfway, and with disable() and the other statements in between (rls.ts: "Either the table
\* becomes reachable *with* a rule deciding who sees what, or nothing changes at all").
ExposedIsProtected ==
    /\ ExposedWithoutRls => "rls" \in lifted
    /\ sec.granted /\ ~ sec.policy => "policy" \in lifted

\* The deletion of a project whose PostgREST does not run comes to its end, whatever is asked of the
\* API meanwhile, unless calls fail for reasons of their own (project-delete.ts: "whose next attempt
\* re-runs the remaining steps").  While it runs the network cannot be removed, in no attempt.
DeletionEnds ==
    del.state = "queued" /\ del.attempts = 0 /\ ~ cont.up ~> project = "deleted" \/ used.faults > 0
=============================================================================
