\* Two requests at a time on a pool of two clients.
CONSTANTS
    r1 = r1
    r2 = r2
    a = a
    b = b
    Requests = {r1, r2}
    Conns = {a, b}
    Keys = {1, 2, 3}
    SortValues = {1, 2}
    Limit = 1
    MaxLexemes = 4
    Scripts <- SomeScripts
    StudioBounds <- Scenarios
SPECIFICATION MCSpec
INVARIANTS
    EditsAreReal
    
    ReadsScripts
SYMMETRY Symmetry
CHECK_DEADLOCK FALSE
