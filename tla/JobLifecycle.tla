---------------------------- MODULE JobLifecycle ----------------------------
(***************************************************************************)
(* What the job queue promises its callers, with no worker, lease or clock *)
(* in sight: each job goes through the states of JobState, independently   *)
(* of the others, on a budget of attempts.  An attempt is paid for when it *)
(* starts, and only handing the job back refunds it.                       *)
(***************************************************************************)
EXTENDS Integers

CONSTANTS Jobs, MaxAttempts

VARIABLES state, attempts

Settled == {"succeeded", "failed", "cancelled"}

Init ==
    /\ state = [j \in Jobs |-> "absent"]
    /\ attempts = [j \in Jobs |-> 0]

Moves(j, from, to) == state[j] \in from /\ state'[j] \in to

Submit(j) == Moves(j, {"absent"}, {"queued"}) /\ attempts'[j] = 0

\* A first or a further attempt; from running, it takes over from one that died.
Attempt(j) ==
    /\ Moves(j, {"queued", "running"}, {"running"})
    /\ attempts[j] < MaxAttempts[j]
    /\ attempts'[j] = attempts[j] + 1

HandBack(j) ==
    /\ Moves(j, {"running"}, {"queued"})
    /\ attempts[j] > 0
    /\ attempts'[j] = attempts[j] - 1

Retry(j) ==
    /\ Moves(j, {"running"}, {"queued"})
    /\ attempts[j] < MaxAttempts[j]
    /\ attempts'[j] = attempts[j]

Settle(j) == Moves(j, {"running"}, Settled) /\ attempts'[j] = attempts[j]

Withdraw(j) == Moves(j, {"queued"}, {"cancelled"}) /\ attempts'[j] = attempts[j]

Rests(j) == state'[j] = state[j] /\ attempts'[j] = attempts[j]

\* One transaction may move several jobs: the sweep does.
Next ==
    /\ state' \in [Jobs -> {"absent", "queued", "running"} \cup Settled]
    /\ attempts' \in [Jobs -> Nat]
    /\ \A j \in Jobs :
          Submit(j) \/ Attempt(j) \/ HandBack(j) \/ Retry(j) \/ Settle(j)
            \/ Withdraw(j) \/ Rests(j)

Spec == Init /\ [][Next]_<<state, attempts>>
=============================================================================
