\* A copy is promoted; nothing else goes wrong.
CONSTANTS
    src = src
    res = res
    copying = copying
    Source = src
    Restored = res
    Copying = copying
    MaxAttempts <- Attempts
    MaxFaults = 0
    Promotes = TRUE
SPECIFICATION Spec
INVARIANT PromotedServes
CHECK_DEADLOCK FALSE
