------------------------------ MODULE Upgrade ------------------------------
(***************************************************************************)
(* Major-version upgrades of one project (upgrades/service.ts and          *)
(* handlers/project-upgrade.ts): dump from the old server, load into an    *)
(* empty cluster on a new data directory, compare, adopt the backup        *)
(* repository, and roll back to the untouched old directory on any error.  *)
(*                                                                         *)
(* A data directory is named by the major version it was made for: the     *)
(* row's volumeName and pgMajor are always written together.  What a       *)
(* database holds is a set of Objects (databases, roles, tables), which    *)
(* clients add to while a server is up.                                    *)
(*                                                                         *)
(* One step is an awaited call and the code up to the next await.  The     *)
(* process may die after the call took effect and before that code ran;    *)
(* the job has a single attempt, so that nobody takes it up again.         *)
(***************************************************************************)
EXTENDS Integers, Sequences, FiniteSets

CONSTANTS
    Majors,       \* supported versions, PG_MAJOR_VERSIONS
    Objects,      \* what the databases may contain
    MaxUpgrades,  \* bound: upgrades started
    Failures,     \* may calls fail for reasons of their own?
    Sticky,       \* may the removal of a container fail as well?
    Deaths        \* may the control plane die?

ASSUME MajorsAssumption == Majors \subseteq Nat \ {0} /\ IsFiniteSet(Majors) /\ Majors # {}
ASSUME UpgradesAssumption == MaxUpgrades \in Nat
ASSUME SwitchAssumption == {Failures, Sticky, Deaths} \subseteq BOOLEAN

Lowest == CHOOSE m \in Majors : \A n \in Majors : m <= n
Upgrades == 1..MaxUpgrades
Ids == 1..4   \* container ids: at most three are referred to at a time

VARIABLES
    row,      \* the project's row
    upg,      \* the rows of the upgrades table, in the order they were inserted
    job,      \* their project.upgrade jobs
    run,      \* the handler that is running
    dirs,     \* the data directories on the host and what they hold
    dump,     \* the dump volume, as the set of what was dumped
    cont,     \* the container with the project's name
    repo,     \* the backup repository and the project's backup configuration
    process   \* the control plane: up, stopping

vars == <<row, upg, job, run, dirs, dump, cont, repo, process>>

NoContainer == [id |-> 0, major |-> Lowest, up |-> FALSE]
NoRun == [of |-> 0, phase |-> "off", at |-> 0, cid |-> 0]
NoUpgrade == [state |-> "absent", from |-> Lowest, to |-> Lowest, before |-> {},
              retained |-> FALSE, discarded |-> FALSE]

\* The awaited calls of the handler, and the steps completed when each is made.
Calls == <<"backup", "manifest", "dump", "stop", "remove", "directory", "create", "start", "wait",
           "load", "verify", "adopt", "stop", "remove", "create", "start", "wait", "rmdump">>
StepAt == <<0, 1, 2, 3, 3, 4, 4, 4, 4, 5, 6, 7, 8, 8, 8, 8, 8, 8>>

\* And those of rollback().
RollbackCalls == <<"stop", "remove", "create", "start", "rmscrap", "rmdump">>

TypeOK ==
    /\ row \in [state : {"running", "stopped", "upgrading", "failed"}, cid : 0..4, major : Majors]
    /\ upg \in [Upgrades -> [state : {"absent", "running", "succeeded", "rolled_back", "failed"},
                             from : Majors, to : Majors, before : SUBSET Objects,
                             retained : BOOLEAN, discarded : BOOLEAN]]
    /\ job \in [Upgrades -> {"absent", "queued", "running", "cancelRequested", "settled",
                          "cancelled", "swept"}]
    /\ run \in [of : 0..MaxUpgrades, phase : {"off", "forward", "rollback"}, at : 0..18, cid : 0..4]
    /\ dirs \in [Majors -> [made : BOOLEAN, holds : SUBSET Objects]]
    /\ dump \subseteq Objects
    /\ cont \in [id : 0..4, major : Majors, up : BOOLEAN]
    /\ repo \in [version : Majors \cup {0}, backups : SUBSET Majors, awaitingFirstBackup : BOOLEAN]
    /\ process \in {"up", "stopping"}

\* A provisioned project with its first backup.
Init ==
    /\ row = [state |-> "running", cid |-> 1, major |-> Lowest]
    /\ upg = [u \in Upgrades |-> NoUpgrade]
    /\ job = [u \in Upgrades |-> "absent"]
    /\ run = NoRun
    /\ dirs = [m \in Majors |-> [made |-> m = Lowest, holds |-> {}]]
    /\ dump = {}
    /\ cont = [id |-> 1, major |-> Lowest, up |-> TRUE]
    /\ repo = [version |-> Lowest, backups |-> {Lowest}, awaitingFirstBackup |-> FALSE]
    /\ process = "up"

-----------------------------------------------------------------------------
(* Requests and the world outside. *)

Latest == Cardinality({u \in Upgrades : upg[u].state # "absent"})

\* plan() finds no reason against it.
Plannable(to) ==
    /\ to > row.major /\ row.state = "running"
    /\ Latest > 0 => upg[Latest].state # "running"

\* start(): the plan is checked, the row inserted and the job enqueued.
Start(to) ==
    /\ process = "up" /\ Latest < MaxUpgrades
    /\ Plannable(to)
    /\ upg' = [upg EXCEPT ![Latest + 1] = [NoUpgrade EXCEPT !.state = "running", !.from = row.major,
                                                            !.to = to]]
    /\ job' = [job EXCEPT ![Latest + 1] = "queued"]
    /\ UNCHANGED <<row, run, dirs, dump, cont, repo, process>>

RequestCancel(u) ==
    /\ process = "up" /\ job[u] \in {"queued", "running"}
    /\ job' = [job EXCEPT ![u] = IF @ = "queued" THEN "cancelled" ELSE "cancelRequested"]
    /\ UNCHANGED <<row, upg, run, dirs, dump, cont, repo, process>>

\* Mutant: any upgrade's directory may go.
DiscardsAny(u) ==
    /\ process = "up" /\ upg[u].state # "absent" /\ ~upg[u].discarded
    /\ cont.id = 0 \/ cont.major # upg[u].from
    /\ dirs' = [dirs EXCEPT ![upg[u].from] = [made |-> FALSE, holds |-> {}]]
    /\ upg' = [upg EXCEPT ![u].discarded = TRUE]
    /\ UNCHANGED <<row, job, run, dump, cont, repo, process>>

\* discardPrevious(): Docker refuses to remove a volume that a container mounts.
DiscardPrevious(u) ==
    /\ process = "up" /\ upg[u].retained /\ ~upg[u].discarded /\ upg[u].state = "succeeded"
    /\ cont.id = 0 \/ cont.major # upg[u].from
    /\ dirs' = [dirs EXCEPT ![upg[u].from] = [made |-> FALSE, holds |-> {}]]
    /\ upg' = [upg EXCEPT ![u].discarded = TRUE]
    /\ UNCHANGED <<row, job, run, dump, cont, repo, process>>

\* setRunning() stops or starts the project; a job that owns the project keeps it out.
SetRunning(up) ==
    /\ process = "up" /\ row.state # "upgrading" /\ row.cid = cont.id /\ cont.id # 0 /\ cont.up # up
    /\ cont' = [cont EXCEPT !.up = up]
    /\ row' = [row EXCEPT !.state = IF up THEN "running" ELSE "stopped"]
    /\ UNCHANGED <<upg, job, run, dirs, dump, repo, process>>

\* A client commits something new.
Commit(o) ==
    /\ cont.up /\ o \notin dirs[cont.major].holds
    /\ dirs' = [dirs EXCEPT ![cont.major].holds = @ \cup {o}]
    /\ UNCHANGED <<row, upg, job, run, dump, cont, repo, process>>

\* backup.run: pgBackRest refuses a cluster of another version than the stanza's.
BackUp ==
    /\ process = "up" /\ row.state = "running" /\ row.cid = cont.id /\ cont.up
    /\ repo.version = cont.major
    /\ repo' = [repo EXCEPT !.backups = @ \cup {cont.major}, !.awaitingFirstBackup = FALSE]
    /\ UNCHANGED <<row, upg, job, run, dirs, dump, cont, process>>

-----------------------------------------------------------------------------
(* The handler. *)

Forward == run.phase = "forward"
u0 == run.of
Call == IF Forward THEN Calls[run.at] ELSE RollbackCalls[run.at]
Step == StepAt[run.at]

Aborted == process = "stopping" \/ job[u0] = "cancelRequested"

\* The calls that throwIfCancelled() precedes; waiting for Postgres watches the signal as well.
Opening == {1, 2, 3, 4, 6, 10, 11, 12}
Cancelled == Forward /\ Aborted /\ (run.at \in Opening \/ Call = "wait")

\* readManifest(): what the databases of the running server hold.
Manifest == dirs[cont.major].holds

\* Mutant: the comparison is made and not acted upon.
ComparesNothing == TRUE

\* describeMissing() finds nothing.
NothingMissing == upg[u0].before \subseteq Manifest

\* verify_data reads a second manifest and compares.
Verified == cont.id = run.cid /\ cont.up /\ NothingMissing

\* waitForPostgres() asks the container that was started.
Accepts == cont.id = run.cid /\ cont.up

\* When a call can succeed: names are unique, an exec needs a running container.
Succeeds ==
    CASE Call \in {"manifest", "adopt"} -> cont.id = run.cid /\ cont.up
      [] Call = "verify" -> Verified
      [] Call = "dump" -> cont.up
      [] Call = "create" -> cont.id = 0
      [] Call = "start" -> cont.id = run.cid
      [] Call = "wait" -> Accepts
      [] OTHER -> TRUE

\* An error of these is swallowed.
Tolerated == Call \in {"stop", "remove", "rmdump", "rmscrap"} \/ (Call = "backup" /\ cont.id = run.cid)

\* An id that nothing refers to.
Fresh == CHOOSE i \in Ids : i \notin {cont.id, row.cid, run.cid}

\* rollback() derives the name of the half-built directory from the upgrade's target.
Scrap == upg[u0].to

\* The container after the call.
ContAfter ==
    CASE Call = "create" -> [id |-> Fresh, major |-> row.major, up |-> FALSE]
      [] Call = "start" -> [cont EXCEPT !.up = TRUE]
      [] Call = "stop" /\ cont.id = run.cid -> [cont EXCEPT !.up = FALSE]
      [] Call = "remove" /\ cont.id = run.cid -> NoContainer
      [] OTHER -> cont

\* The data directories after it.  store.create() accepts a directory that exists; a load reports
\* no error, whatever part of the dump it left out.
DirsAfter(loaded) ==
    CASE Call = "directory" -> [dirs EXCEPT ![upg[u0].to].made = TRUE]
      [] Call = "load" /\ cont.up -> [dirs EXCEPT ![cont.major].holds = @ \cup loaded]
      [] Call = "rmscrap" /\ (cont.id = 0 \/ cont.major # Scrap) ->
             [dirs EXCEPT ![Scrap] = [made |-> FALSE, holds |-> {}]]
      [] OTHER -> dirs

\* And the dump volume: everything there is when pg_dumpall runs.
DumpAfter == CASE Call = "dump" -> dirs[cont.major].holds
               [] Call = "rmdump" -> {}
               [] OTHER -> dump

\* Mutant: the flag is left as it was.
AdoptedSilently(upgraded) ==
    [repo EXCEPT !.version = cont.major, !.backups = IF upgraded THEN @ ELSE {}]

\* adoptRepository(): stanza-upgrade, or else the stanza is rebuilt, which drops its backups.
Adopted(upgraded) ==
    [version |-> cont.major, awaitingFirstBackup |-> TRUE,
     backups |-> IF upgraded THEN repo.backups ELSE {}]

Acts ==
    /\ \E loaded \in SUBSET dump : (Call = "load" \/ loaded = {}) /\ dirs' = DirsAfter(loaded)
    /\ dump' = DumpAfter
    /\ cont' = ContAfter
    /\ IF Call = "adopt" THEN \E upgraded \in BOOLEAN : repo' = Adopted(upgraded) ELSE UNCHANGED repo

\* Mutant: the row keeps the new version.
RowStaysNew ==
    CASE Forward /\ Call = "directory" -> [row EXCEPT !.major = upg[u0].to]
      [] Forward /\ Call = "start" /\ Step = 4 -> [row EXCEPT !.cid = run.cid]
      [] Forward /\ Call = "wait" /\ Step = 8 -> [row EXCEPT !.cid = run.cid, !.state = "running"]
      [] ~Forward /\ Call = "start" -> [row EXCEPT !.cid = run.cid, !.state = "running"]
      [] OTHER -> row

\* What is written to the project's row once the call has returned.
RowAfter ==
    CASE Forward /\ Call = "directory" -> [row EXCEPT !.major = upg[u0].to]
      [] Forward /\ Call = "start" /\ Step = 4 -> [row EXCEPT !.cid = run.cid]
      [] Forward /\ Call = "wait" /\ Step = 8 -> [row EXCEPT !.cid = run.cid, !.state = "running"]
      [] ~Forward /\ Call = "remove" -> [row EXCEPT !.major = upg[u0].from]
      [] ~Forward /\ Call = "start" -> [row EXCEPT !.cid = run.cid, !.state = "running"]
      [] OTHER -> row

\* And to the upgrade's.
UpgAfter ==
    CASE Call = "manifest" -> [upg EXCEPT ![u0].before = Manifest]
      [] Forward /\ Call = "wait" /\ Step = 8 ->
             [upg EXCEPT ![u0].state = "succeeded", ![u0].retained = TRUE]
      [] ~Forward /\ run.at = Len(RollbackCalls) -> [upg EXCEPT ![u0].state = "rolled_back"]
      [] OTHER -> upg

\* The handler starts: it reads the row and takes the project over.
Claim(u) ==
    /\ process = "up" /\ run = NoRun /\ job[u] = "queued"
    /\ job' = [job EXCEPT ![u] = "running"]
    /\ run' = [of |-> u, phase |-> "forward", at |-> 1, cid |-> row.cid]
    /\ row' = [row EXCEPT !.state = "upgrading"]
    /\ UNCHANGED <<upg, dirs, dump, cont, repo, process>>

Last == Len(IF Forward THEN Calls ELSE RollbackCalls)

\* The handler goes on to its next call, or returns.
Proceeds ==
    /\ row' = RowAfter /\ upg' = UpgAfter
    /\ IF run.at = Last
       THEN run' = NoRun /\ job' = [job EXCEPT ![u0] = "settled"]
       ELSE /\ run' = [run EXCEPT !.at = @ + 1, !.cid = IF Call = "create" THEN Fresh ELSE @]
            /\ UNCHANGED job

CallReturns ==
    /\ run.of # 0 /\ ~Cancelled /\ Succeeds
    /\ Acts
    /\ Proceeds
    /\ UNCHANGED process

\* A call that fails, with its error swallowed.
CallTolerated ==
    /\ run.of # 0 /\ ~Cancelled /\ Failures /\ Tolerated
    /\ Call = "remove" => Sticky
    /\ Proceeds
    /\ UNCHANGED <<dirs, dump, cont, repo, process>>

\* Mutant: the upgrade's row is left as it is.
EndsUnrecorded(upgState, state) ==
    /\ row' = [row EXCEPT !.state = state]
    /\ run' = NoRun /\ job' = [job EXCEPT ![u0] = "settled"]
    /\ UNCHANGED upg

\* The end of the catch block, when nothing was rolled back.
Ends(upgState, state) ==
    /\ upg' = [upg EXCEPT ![u0].state = upgState]
    /\ row' = [row EXCEPT !.state = state]
    /\ run' = NoRun /\ job' = [job EXCEPT ![u0] = "settled"]

\* A call fails, or the handler notices that it was cancelled: both are errors to the catch block.
\* A repository that could not be rebuilt is left without a stanza.
CallThrows ==
    /\ run.of # 0
    /\ Cancelled \/ (~Tolerated /\ (Failures \/ ~Succeeds))
    /\ \/ Forward /\ Step < 4 /\ Ends("failed", "running")
       \/ /\ Forward /\ Step >= 4
          /\ run' = [run EXCEPT !.phase = "rollback", !.at = 1, !.cid = row.cid]
          /\ UNCHANGED <<row, upg, job>>
       \/ ~Forward /\ Ends("failed", "failed")
    /\ \/ UNCHANGED repo
       \/ Call = "adopt" /\ ~Cancelled /\ repo' = [repo EXCEPT !.version = 0, !.backups = {}]
    /\ UNCHANGED <<dirs, dump, cont, process>>

\* The process dies, before or after the call it is in took effect, and is restarted: the attempt
\* was the only one, so the job is swept and the handler never runs again.
Dies ==
    /\ Deaths /\ run.of # 0
    /\ (~Cancelled /\ Succeeds /\ Acts) \/ UNCHANGED <<dirs, dump, cont, repo>>
    /\ run' = NoRun /\ job' = [job EXCEPT ![u0] = "swept"]
    /\ process' = "up"
    /\ UNCHANGED <<row, upg>>

\* A shutdown aborts the handler; the new process starts when it has ended.
Shutdown ==
    /\ process = "up" /\ run.of # 0
    /\ process' = "stopping"
    /\ UNCHANGED <<row, upg, job, run, dirs, dump, cont, repo>>

Restart ==
    /\ process = "stopping" /\ run.of = 0
    /\ process' = "up"
    /\ UNCHANGED <<row, upg, job, run, dirs, dump, cont, repo>>

Handler == CallReturns \/ CallTolerated \/ CallThrows

Next ==
    \/ \E to \in Majors : Start(to)
    \/ \E u \in Upgrades : RequestCancel(u) \/ DiscardPrevious(u) \/ Claim(u)
    \/ \E up \in BOOLEAN : SetRunning(up)
    \/ \E o \in Objects : Commit(o)
    \/ BackUp
    \/ Handler
    \/ Dies \/ Shutdown \/ Restart

Spec == Init /\ [][Next]_vars

\* The worker claims, calls return or throw, and the container runtime restarts the process.
FairSpec == /\ Spec
            /\ WF_vars(\E u \in Upgrades : Claim(u)) /\ WF_vars(Handler) /\ WF_vars(Restart)

-----------------------------------------------------------------------------
(* Properties. *)

\* A project that claims to run is on a data directory that exists and holds everything that was
\* ever recorded of it before an upgrade, through failed loads, rollbacks, repeated upgrades to
\* the same version and discarded directories (project-upgrade.ts: "Prove nothing was lost").
RunningIsWhole ==
    row.state \in {"running", "stopped"} =>
        /\ dirs[row.major].made
        /\ row.cid = cont.id => cont.major = row.major
        /\ \A u \in Upgrades : upg[u].before \subseteq dirs[row.major].holds

\* The directory that the last upgrade, or an earlier successful one, started from stays, whatever
\* happens, until somebody discards it after a success: it is the way back (rollback()).
WayBackIsKept ==
    \A u \in Upgrades : (u = Latest \/ upg[u].state = "succeeded") /\ ~upg[u].discarded =>
        dirs[upg[u].from].made /\ upg[u].before \subseteq dirs[upg[u].from].holds

\* A project that runs and claims a recovery point has one that its version can restore, unless
\* the rebuilding of its repository failed and left none (adoptRepository).
RecoveryPointIsReal ==
    row.state = "running" /\ ~repo.awaitingFirstBackup /\ repo.version # 0 =>
        repo.version = row.major /\ row.major \in repo.backups

\* An upgrade that is recorded as rolled back left the project with a container of its own on the
\* old directory, one recorded as succeeded on the new one (project-upgrade.ts, rollback).
OutcomeIsTrue ==
    [][\A u \in Upgrades : upg'[u].state # upg[u].state =>
        /\ upg'[u].state = "rolled_back" =>
              row'.major = upg[u].from /\ cont'.major = upg[u].from /\ row'.cid = cont'.id
        /\ upg'[u].state = "succeeded" =>
              row'.major = upg[u].to /\ cont'.major = upg[u].to /\ row'.cid = cont'.id]_vars

\* An upgrade whose job runs comes to an end, and the project with it, unless the process dies
\* (maxAttempts is 1: nobody finishes or rolls back what it left).
UpgradeEnds ==
    \A u \in Upgrades : job[u] \in {"queued", "running"} ~>
        \/ upg[u].state # "running" /\ row.state # "upgrading"
        \/ job[u] \in {"cancelled", "swept"}
============================================================================
