\* Leases are renewed in time; processes crash, stop and overlap; j2 cannot run.
CONSTANTS
    j1 = j1
    j2 = j2
    w1 = w1
    w2 = w2
    e1 = e1
    e2 = e2
    e3 = e3
    None = None
    Jobs = {j1, j2}
    Workers = {w1, w2}
    Execs = {e1, e2}
    Priority <- MCPriority
    MaxAttempts <- TwoAndOne
    Poison = {j2}
    Steps = 2
    Concurrency = 1
    Stalls = FALSE
SPECIFICATION FairSpec
INVARIANTS
    OneExecution
PROPERTIES
    EveryJobSettles
