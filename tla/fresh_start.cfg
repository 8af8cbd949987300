SPECIFICATION Spec
CONSTANTS
    Id = {1}
    Req = {r1}
    Sweeper = {w1}
    LastDay = 1
    Inactive = 0
    DaysOld = 0
    MaxDeaths = 0
    MaxSessions = 1
    AddStatus = {"want_to_read"}
    PatchStatus = {"reading"}
    PatchRating = {}
    None = None
PROPERTIES
    StartedIsActive
