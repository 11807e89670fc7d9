\* Two browsers on one account, two backups that overlap.
CONSTANTS
    c1 = c1
    c2 = c2
    e1 = e1
    p = p
    q = q
    s1 = s1
    s2 = s2
    Clients = {c1, c2}
    Emails = {e1}
    Passwords = {p, q}
    MaxLoginAttempts = 2
    Slots = {s1, s2}
    Keep = 1
    Bounds <- Scenarios
SPECIFICATION InstanceFairSpec
INVARIANTS
    WholeBackupIsKept
PROPERTIES
    ClaimSucceeds
    LoginSucceeds
CHECK_DEADLOCK FALSE
