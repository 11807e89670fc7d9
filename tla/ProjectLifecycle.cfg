\* Requests, crashes, failing calls, cancellations, containers that stop or vanish.
CONSTANTS
    c = c
    d1 = d1
    Creation = c
    Deletions = {d1}
    MaxAttempts <- Attempts2
    MaxDowns = 1
    Cancels = {c}
    Failures = TRUE
    Outside = TRUE
SPECIFICATION FairSpec
INVARIANTS
    ProvisionedForReal
    DeletedMeansGone
PROPERTIES
    JobsFollowLifecycle
    JobsEnd
CHECK_DEADLOCK FALSE
