\* Clients that wait for their answers; connections break, the route changes, clients leave.
CONSTANTS
    s1 = s1
    s2 = s2
    c1 = c1
    c2 = c2
    None = None
    Clients = {s1, s2}
    Conns = {c1, c2}
    Size = 1
    MaxQueries = 2
    MaxRoutes = 2
    Pipelining = FALSE
    ResetQuery = FALSE
    Faults = TRUE
SPECIFICATION FairSpec
 
INVARIANTS
    ServerConnectionsBounded
    AnswersReachTheirSender
    TransactionsAreExclusive
CHECK_DEADLOCK FALSE
