\* Two upgrades in a row among three versions, with failures, cancellations, shutdowns and deaths.
CONSTANTS
    o1 = o1
    Majors = {16, 17, 18}
    Objects = {o1}
    MaxUpgrades = 2
    Failures = TRUE
    Sticky = FALSE
    Deaths = TRUE
SPECIFICATION FairSpec
INVARIANTS
    
    WayBackIsKept
    
PROPERTIES
    OutcomeIsTrue
    UpgradeEnds
CHECK_DEADLOCK FALSE
