\* Everything at once, two jobs at a time.
CONSTANTS
    b1 = b1
    b2 = b2
    b3 = b3
    b4 = b4
    mig = mig
    ext1 = ext1
    chk = chk
    BackupJobs = {b1, b2, b3, b4}
    Migration = mig
    Extensions = {ext1}
    Check = chk
    Concurrency = 2
    MaxAttempts <- Attempts
    MaxRequests = 3
    MaxFaults = 1
SPECIFICATION FairSpec
INVARIANTS
    MigrationDelivers
    
PROPERTIES
    
    BackupsGoOn
CHECK_DEADLOCK FALSE
