SPECIFICATION FairSpec
CONSTANTS
    Id = {1, 2}
    Req = {}
    Sweeper = {w1, w2}
    LastDay = 2
    Inactive = 1
    DaysOld = 1
    MaxDeaths = 1
    MaxSessions = 1
    AddStatus = {"reading"}
    PatchStatus = {}
    PatchRating = {}
    None = None
INVARIANTS
    NobodyStuck
PROPERTIES
    SweepExact
    InactiveSwept
