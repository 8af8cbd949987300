SPECIFICATION FairSpec
CONSTANTS
    User = {u1, u2}
    MaxCopies = 3
    Enabled = TRUE
    MaxWeeks = 1
    MaxFaults = 2
    None = None
INVARIANTS
    WInv
    ReportOnce
    NobodyLeftOut
PROPERTIES
    SummaryTrue
    Settles
CHECK_DEADLOCK FALSE
