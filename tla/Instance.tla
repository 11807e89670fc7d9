------------------------------ MODULE Instance ------------------------------
(***************************************************************************)
(* The control plane as an instance of its own: the administrator account  *)
(* and its sessions (auth/service.ts, auth/middleware.ts,                  *)
(* api/routes/auth.ts), the recovery of a lost password from the host      *)
(* (admin/reset-admin.ts), and the backups the control plane takes of its  *)
(* own database (admin/cp-backup.ts).                                      *)
(*                                                                         *)
(* The handlers interleave at their awaits: hashing and checking a         *)
(* password, and copying the database, both take place outside the event   *)
(* loop.  What is between two awaits is one step.  reset-admin is another  *)
(* process on the same database.                                           *)
(*                                                                         *)
(* A password stands for its hash (hashing is external).  Time is left     *)
(* out: a session that nobody used for its TTL expires, a lockout ends.    *)
(***************************************************************************)
EXTENDS Integers, Sequences, FiniteSets, SequencesExt

CONSTANTS
    Clients,           \* browsers, each with one cookie; all behind one address
    Emails, Passwords,
    MaxLoginAttempts,
    Slots,             \* runs of the control-plane backup that may overlap (timer, request)
    Keep,              \* backups that pruning keeps
    Bounds             \* bound: what may happen in a behaviour, chosen at its start: the clients
                       \* that act, and how many backups, password changes, runs of
                       \* reset-admin and ends of the process there are

ASSUME LimitsAssumption == {Keep, MaxLoginAttempts} \subseteq Nat \ {0}
ASSUME InstanceBoundsAssumption ==
    Bounds \subseteq [clients : SUBSET Clients, backups : Nat, changes : Nat, resets : Nat, ends : Nat]

VARIABLES
    admins,    \* rows of the admins table
    sessions,  \* rows of the sessions table
    token,     \* the stored setup token, 0 when there is none
    printed,   \* the setup token last printed to the log
    failures,  \* failed logins of the address, in memory
    req,       \* what each client's request is doing
    reset,     \* a run of reset-admin
    files,     \* the backups on disk, by modification time
    backup,    \* the file each backup run is writing, 0 for none
    server,   \* up or down
    count,     \* ids given to accounts, tokens and backups; has a backup been taken?
    left       \* what may still happen

instanceVars == <<admins, sessions, token, printed, failures, req, reset, files, backup, server, count, left>>

None == [id |-> 0]
Idle == [pc |-> "idle", pw |-> 0, row |-> None, next |-> 0, email |-> 0]
NoFailures == [count |-> 0, locked |-> FALSE]

InstanceInit ==
    /\ admins = {} /\ sessions = {}
    /\ token = 1 /\ printed = 1              \* the first boot has printed one
    /\ failures = NoFailures
    /\ req = [c \in Clients |-> Idle]
    /\ reset = "off"
    /\ files = <<>> /\ backup = [s \in Slots |-> 0]
    /\ server = "up"
    /\ count = [claims |-> 0, tokens |-> 1, backups |-> 0, taken |-> FALSE]
    /\ left \in Bounds

-----------------------------------------------------------------------------
(* Accounts. *)

Free(c) == server = "up" /\ c \in left.clients /\ req[c].pc = "idle"

setupRequired == admins = {}

\* setupToken(): the stored token; the first call of an unclaimed instance mints it.
SetupToken == IF token = 0 THEN count.tokens + 1 ELSE token

Stored(t) == token' = t /\ count' = [count EXCEPT !.tokens = IF t > @ THEN t ELSE @]

\* createInitialAdmin() up to hashPassword(): the operator presents the token of the log.
Setup(c, e, pw) ==
    /\ Free(c) /\ setupRequired
    /\ Stored(SetupToken)
    /\ req' = IF printed = SetupToken
              THEN [req EXCEPT ![c] = [Idle EXCEPT !.pc = "hash", !.pw = pw, !.email = e]]
              ELSE req
    /\ UNCHANGED <<admins, sessions, printed, failures, reset, files, backup, server, left>>

\* Mutant: the address stays locked after the time is up.
LockedByCount == failures.count >= MaxLoginAttempts

Locked == failures.locked

\* login() up to verifyPassword(), for the account found now.
Verifying(pw, found) ==
    IF Locked THEN Idle
    ELSE [Idle EXCEPT !.pc = "verify", !.pw = pw, !.row = IF found = {} THEN None ELSE CHOOSE a \in found : TRUE]

\* The password is hashed: the row goes in, unless the address is taken, the token goes, and
\* the new administrator is signed straight in.
SetupHashed(c) ==
    /\ req[c].pc = "hash"
    /\ \/ /\ \E a \in admins : a.email = req[c].email
          /\ req' = [req EXCEPT ![c] = Idle]
          /\ UNCHANGED <<admins, token, count>>
       \/ /\ \A a \in admins : a.email # req[c].email
          /\ LET row == [id |-> count.claims + 1, email |-> req[c].email, pw |-> req[c].pw] IN
             /\ admins' = admins \cup {row}
             /\ req' = [req EXCEPT ![c] = Verifying(req[c].pw, {row})]
          /\ token' = 0
          /\ count' = [count EXCEPT !.claims = @ + 1]
    /\ UNCHANGED <<sessions, printed, failures, reset, files, backup, server, left>>

Login(c, e, pw) ==
    /\ Free(c) /\ ~Locked
    /\ req' = [req EXCEPT ![c] = Verifying(pw, {a \in admins : a.email = e})]
    /\ UNCHANGED <<admins, sessions, token, printed, failures, reset, files, backup, server, count, left>>

\* recordFailure(): the count outlives a lockout, so that the next failure locks again.
RecordFailure(f) ==
    LET n == f.count + 1 IN
    [count |-> IF n > MaxLoginAttempts THEN MaxLoginAttempts ELSE n,
     locked |-> f.locked \/ n >= MaxLoginAttempts]

\* The client's cookie is replaced; the row of its old session stays behind.
Opened(c, row) ==
    {[s EXCEPT !.held = IF @ = c THEN 0 ELSE @] : s \in sessions}
        \cup {[held |-> c, admin |-> row.id, expired |-> FALSE]}

\* The password is checked: a failure is counted, or a session opened for the row read before
\* (its foreign key refuses an account that is gone).
Verified(c) ==
    /\ req[c].pc = "verify"
    /\ LET row == req[c].row IN
       IF row = None \/ row.pw # req[c].pw
       THEN failures' = RecordFailure(failures) /\ UNCHANGED sessions
       ELSE /\ failures' = NoFailures
            /\ sessions' = IF \E a \in admins : a.id = row.id
                           THEN Opened(c, row) ELSE sessions
    /\ req' = [req EXCEPT ![c] = Idle]
    /\ UNCHANGED <<admins, token, printed, reset, files, backup, server, count, left>>

LockoutEnds ==
    /\ failures.locked
    /\ failures' = [failures EXCEPT !.locked = FALSE]
    /\ UNCHANGED <<admins, sessions, token, printed, req, reset, files, backup, server, count, left>>

\* requireAuth() finds no session, an expired one, or lets the request through (which keeps the
\* session from expiring).
SessionOf(c) == {s \in sessions : s.held = c}
Admitted(c) == {s \in SessionOf(c) : ~s.expired}

Request(c) ==
    /\ Free(c) /\ ~setupRequired
    /\ SessionOf(c) # {} /\ Admitted(c) = {}
    /\ sessions' = sessions \ SessionOf(c)
    /\ UNCHANGED <<admins, token, printed, failures, req, reset, files, backup, server, count, left>>

\* Nobody used the session for its TTL.
Expires(s) ==
    /\ s \in sessions /\ ~s.expired
    /\ sessions' = (sessions \ {s}) \cup {[s EXCEPT !.expired = TRUE]}
    /\ UNCHANGED <<admins, token, printed, failures, req, reset, files, backup, server, count, left>>

Logout(c) ==
    /\ Free(c) /\ SessionOf(c) # {}
    /\ sessions' = sessions \ SessionOf(c)
    /\ UNCHANGED <<admins, token, printed, failures, req, reset, files, backup, server, count, left>>

\* changePassword() up to the check of the current password.
ChangePassword(c, current, next) ==
    /\ Free(c) /\ left.changes > 0 /\ left' = [left EXCEPT !.changes = @ - 1]
    /\ \E s \in Admitted(c) : \E a \in admins :
          /\ a.id = s.admin
          /\ req' = [req EXCEPT ![c] = [Idle EXCEPT !.pc = "check", !.pw = current, !.next = next, !.row = a]]
    /\ UNCHANGED <<admins, sessions, token, printed, failures, reset, files, backup, server, count>>

Checked(c) ==
    /\ req[c].pc = "check"
    /\ req' = [req EXCEPT ![c] = IF @.row.pw = @.pw THEN [@ EXCEPT !.pc = "rehash"] ELSE Idle]
    /\ UNCHANGED <<admins, sessions, token, printed, failures, reset, files, backup, server, count, left>>

Without(id) == {s \in sessions : s.admin # id}

\* The new password is hashed: the row is updated and all its sessions end.
Changed(c) ==
    /\ req[c].pc = "rehash"
    /\ LET id == req[c].row.id IN
       /\ admins' = {IF a.id = id THEN [a EXCEPT !.pw = req[c].next] ELSE a : a \in admins}
       /\ sessions' = Without(id)
    /\ req' = [req EXCEPT ![c] = Idle]
    /\ UNCHANGED <<token, printed, failures, reset, files, backup, server, count, left>>

\* reset-admin, a process of its own: the accounts (their sessions with them), then the token.
ResetAccounts ==
    /\ reset = "off" /\ admins # {} /\ left.resets > 0 /\ left' = [left EXCEPT !.resets = @ - 1]
    /\ admins' = {} /\ sessions' = {} /\ reset' = "token"
    /\ UNCHANGED <<token, printed, failures, req, files, backup, server, count>>

ResetToken ==
    /\ reset = "token"
    /\ token' = 0 /\ reset' = "off"
    /\ UNCHANGED <<admins, sessions, printed, failures, req, files, backup, server, count, left>>

-----------------------------------------------------------------------------
(* Backups of the control plane's own database. *)

\* A file is removed, if it is still there.
Named(fs, id) == {i \in DOMAIN fs : fs[i].id = id}
Removed(fs, id) ==
    IF Named(fs, id) = {} THEN fs ELSE RemoveAt(fs, CHOOSE i \in Named(fs, id) : TRUE)

\* The file is written to: it becomes the newest, unless it has been removed meanwhile.
FilesWith(id, content) ==
    IF Named(files, id) = {} THEN files
    ELSE Append(Removed(files, id), [id |-> id, content |-> content])

\* run() up to the copy, by the timer or POST /control-plane-backups.  An unclaimed instance is
\* skipped.
BackupStarts(s) ==
    /\ server = "up" /\ backup[s] = 0 /\ ~setupRequired
    /\ left.backups > 0 /\ left' = [left EXCEPT !.backups = @ - 1]
    /\ LET id == count.backups + 1 IN
       /\ files' = Append(files, [id |-> id, content |-> "partial"])
       /\ backup' = [backup EXCEPT ![s] = id]
       /\ count' = [count EXCEPT !.backups = id]
    /\ UNCHANGED <<admins, sessions, token, printed, failures, req, reset, server>>

BackupCopies(s) ==
    /\ backup[s] # 0
    /\ files' = FilesWith(backup[s], "partial")
    /\ UNCHANGED <<admins, sessions, token, printed, failures, req, reset, backup, server, count, left>>

\* The copy fails and what it wrote is left behind.
BackupFails(s) ==
    /\ backup[s] # 0
    /\ backup' = [backup EXCEPT ![s] = 0]
    /\ UNCHANGED <<admins, sessions, token, printed, failures, req, reset, files, server, count, left>>

\* Mutant: sorted the other way round.
PrunedOfNewest(fs) == SubSeq(fs, 1, IF Len(fs) > Keep THEN Keep ELSE Len(fs))

\* prune(): the newest Keep files, whatever is in them.
Pruned(fs) == SubSeq(fs, IF Len(fs) > Keep THEN Len(fs) - Keep + 1 ELSE 1, Len(fs))

\* verify(): the file is there, opens, and has an administrator.
Verifies(fs, id) == \E f \in Range(fs) : f.id = id /\ f.content = "whole"

\* The last pages are copied, and the continuation runs before anything else: old files are
\* pruned, or this one is removed.  SQLite starts a copy over when another process writes, so it
\* has the accounts of its end.
BackupEnds(s) ==
    /\ backup[s] # 0
    /\ LET id == backup[s]
           fs == FilesWith(id, IF setupRequired THEN "unclaimed" ELSE "whole")
       IN IF Verifies(fs, id)
          THEN files' = Pruned(fs) /\ count' = [count EXCEPT !.taken = TRUE]
          ELSE files' = Removed(fs, id) /\ UNCHANGED count
    /\ backup' = [backup EXCEPT ![s] = 0]
    /\ UNCHANGED <<admins, sessions, token, printed, failures, req, reset, server, left>>

-----------------------------------------------------------------------------
(* The process. *)

\* The operator looks for the token in the log and finds one that does not work.
StaleToken == setupRequired /\ reset = "off" /\ printed # SetupToken

\* It crashes or is restarted; what is in memory is lost, a half-written backup stays.
Ends ==
    /\ server = "up" /\ (left.ends > 0 \/ StaleToken)
    /\ server' = "down"
    /\ left' = [left EXCEPT !.ends = IF @ > 0 THEN @ - 1 ELSE @]
    /\ failures' = NoFailures
    /\ req' = [c \in Clients |-> Idle]
    /\ backup' = [s \in Slots |-> 0]
    /\ UNCHANGED <<admins, sessions, token, printed, reset, files, count>>

\* Mutant: printed until the instance was claimed once.
PrintsFirst == count.claims = 0

\* "Deliberately printed on every boot while unclaimed" (index.ts:250).
Prints == setupRequired

\* main(): the token is made and printed, expired sessions are swept.
Boots ==
    /\ server = "down"
    /\ server' = "up"
    /\ IF setupRequired THEN Stored(SetupToken) ELSE UNCHANGED <<token, count>>
    /\ printed' = IF Prints THEN SetupToken ELSE printed
    /\ sessions' = {s \in sessions : ~s.expired}
    /\ UNCHANGED <<admins, failures, req, reset, files, backup, left>>

-----------------------------------------------------------------------------

InstanceNext ==
    \/ \E c \in Clients :
          \/ \E e \in Emails, pw \in Passwords : Setup(c, e, pw) \/ Login(c, e, pw)
          \/ \E p, q \in Passwords : ChangePassword(c, p, q)
          \/ SetupHashed(c) \/ Verified(c) \/ Checked(c) \/ Changed(c)
          \/ Request(c) \/ Logout(c)
    \/ LockoutEnds \/ \E s \in sessions : Expires(s)
    \/ ResetAccounts \/ ResetToken
    \/ \E s \in Slots : BackupStarts(s) \/ BackupCopies(s) \/ BackupFails(s) \/ BackupEnds(s)
    \/ Ends \/ Boots

InstanceSpec == InstanceInit /\ [][InstanceNext]_instanceVars

\* A login with the password the account has.
LoginRight(c) == \E a \in admins : Login(c, a.email, a.pw)

(***************************************************************************)
(* Fairness: an awaited hash resolves, a lockout runs out, the container   *)
(* is started again (compose restarts it), reset-admin finishes.  The      *)
(* operator goes on trying: setup with the token of the log, restarting    *)
(* when that token does not work (as reset-admin tells them), signing in.  *)
(***************************************************************************)
Fairness ==
    /\ \A c \in Clients : /\ WF_instanceVars(SetupHashed(c)) /\ WF_instanceVars(Verified(c))
                           /\ WF_instanceVars(Checked(c)) /\ WF_instanceVars(Changed(c))
                           /\ SF_instanceVars(\E e \in Emails, pw \in Passwords : Setup(c, e, pw))
                           /\ SF_instanceVars(LoginRight(c))
    /\ WF_instanceVars(LockoutEnds) /\ WF_instanceVars(ResetToken)
    /\ WF_instanceVars(Boots) /\ WF_instanceVars(StaleToken /\ Ends)

InstanceFairSpec == InstanceSpec /\ Fairness

-----------------------------------------------------------------------------
(* Safety. *)

\* Once a backup of the control plane was taken and verified, a whole one is on disk, whatever
\* runs overlap, fail or are cut off by the end of the process (cp-backup.ts:146-154).
WholeBackupIsKept == count.taken => \E f \in Range(files) : f.content = "whole"

-----------------------------------------------------------------------------
(* Liveness. *)

\* An unclaimed instance, fresh or reset, can be claimed with the token in the log
\* (index.ts:248-253, reset-admin.ts:18-21).
ClaimSucceeds == setupRequired ~> ~setupRequired

\* Unless wrong passwords keep being tried, a lockout never keeps the administrator out for
\* good, however many failures came before (service.ts:314-315).
WrongAttempt == \E c \in Clients : req[c].pc = "verify" /\ (req[c].row = None \/ req[c].row.pw # req[c].pw)
LoginSucceeds == <>[]~WrongAttempt => \A c \in Clients : []<>(c \in left.clients => Admitted(c) # {})
=============================================================================
