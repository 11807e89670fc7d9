\* Both data stores; restores, late targets and branches; promotion; one fault.
CONSTANTS
    src = src
    res = res
    copying = copying
    Source = src
    Restored = res
    Copying = copying
    MaxAttempts <- Attempts
    MaxFaults = 1
    Promotes = TRUE
SPECIFICATION FairSpec
INVARIANTS
    CopyIsIndependent
    
PROPERTIES
    RestoreSucceeds
CHECK_DEADLOCK FALSE
