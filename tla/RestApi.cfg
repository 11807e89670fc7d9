\* One request after the other; crashes, failing calls and cancellations in between.
SPECIFICATION FairSpec
CONSTANTS
    RestJobs = {r1, r2}
    Concurrency = 2
    MaxAttempts = 2
    MaxDeletes = 2
    Overlap = FALSE
    MaxRequests = 5
    MaxFaults = 2
CHECK_DEADLOCK FALSE
INVARIANTS SucceededServes ExposedIsProtected
PROPERTIES DeletionEnds
