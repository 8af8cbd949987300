SPECIFICATION FairSpec
CONSTANTS
    User = {u1, u2}
    Day = {0, 1, 3}
    MaxAborts = 1
    None = None
INVARIANTS
    SInv
PROPERTIES
    CurrentExact
    LongestExact
    EveryoneComputed
