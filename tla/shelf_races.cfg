SPECIFICATION Spec
CONSTANTS
    Req = {r1, r2}
    User = {u1, u2}
    Book = {c1}
    UserBookId = {b1, b2}
    SessionId = {s1}
    PagesTotal <- MCPagesTotal
    BookPages = {1, 2}
    SessionPages = {1, 2}
    IntMax = 2
    Ops = {"add_book", "update_book", "delete_book", "create_session", "update_session", "delete_session"}
    None = None
SYMMETRY Symmetric
INVARIANTS
    IInv
    NoOrphanSessions
    UniqueShelfEntry
    AckedRowsKept
    DeadlocksInvolveDeletion
PROPERTIES
    OwnRowsOnly
    Atomic
