SPECIFICATION FairSpec
CONSTANTS
    Req = {r1, r2}
    Key = {k1}
    Times = 3
    Second = 4
    Seconds = 2
    MaxCount = 5
    None = None
INVARIANTS
    RInv
    WindowBound
    RetryHonest
PROPERTIES
    WindowsEnd
