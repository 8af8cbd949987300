SPECIFICATION FairSpec
CONSTANTS
    User = {u1}
    Board = {b1}
    Reader = {r1, r2}
    Writer = {w1, w2}
    TaskBoards = {b1}
    StatsTTL = 1
    BoardTTL = 2
    MaxChanges = 2
    None = None
INVARIANTS
    CInv
    StaleOnlyByRace
PROPERTIES
    EventuallyFresh
