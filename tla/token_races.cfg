SPECIFICATION Spec
CONSTANTS
    Req = {r1, r2}
    User = {u1, u2}
    Email = {e1}
    Token = {t1, t2, t3}
    Second = 2
    AccessLife = 4
    RefreshLife = 1
    Moments = {1, 3}
    MaxFaults = 1
    None = None
SYMMETRY Symmetric
INVARIANTS
    AInv
    OneAccountPerEmail
    OneLivePerLogin
    LoggedOutRefused
    DeadlocksAreLogouts
PROPERTIES
    LogoutTotal
    Atomic
