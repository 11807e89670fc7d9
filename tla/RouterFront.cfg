\* Two clients, a port that finds a new owner, TLS and plain connections.
SPECIFICATION FairSpec
CONSTANTS
    Conns = {c1, c2}
    c1 = c1
    c2 = c2
    p1 = p1
    p2 = p2
    Projects = {p1, p2}
    Ports = {5433}
    None = None
    Password <- MCPassword
    Tls = TRUE
    Requests <- MCRequests
    FirstRows <- MCFirstRows
    MaxEvents = 2
CHECK_DEADLOCK FALSE
INVARIANTS BytesInOrder AdmittedByPassword
 
