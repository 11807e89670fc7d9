\* A live process may stall past its lease: executions of one job overlap.
CONSTANTS
    j1 = j1
    j2 = j2
    w1 = w1
    w2 = w2
    e1 = e1
    e2 = e2
    e3 = e3
    None = None
    Jobs = {j1, j2}
    Workers = {w1, w2}
    Execs = {e1, e2, e3}
    Priority <- MCPriority
    MaxAttempts <- TwoAndOne
    Poison = {}
    Steps = 2
    Concurrency = 2
    Stalls = TRUE
SPECIFICATION Spec
SYMMETRY Symmetry
INVARIANTS
    TypeOK
    NoneStranded
    ResumeIsSound
    OutcomeIsExplained
PROPERTIES
    SettledForGood
    LifecycleSpec
