SPECIFICATION Spec
CONSTANTS
    Id = {1}
    Req = {r1, r2}
    Sweeper = {w1}
    LastDay = 1
    Inactive = 0
    DaysOld = 0
    MaxDeaths = 0
    MaxSessions = 1
    AddStatus = {"want_to_read", "reading"}
    PatchStatus = {"reading", "finished"}
    PatchRating = {TRUE}
    None = None
SYMMETRY Symmetric
INVARIANTS
    LInv
PROPERTIES
    DatesKept
    SweepExact
