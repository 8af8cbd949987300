SPECIFICATION Spec
CONSTANTS
    Req = {r1}
    User = {u1}
    Book = {c1}
    UserBookId = {b1}
    SessionId = {s1}
    PagesTotal <- MCPagesTotal
    BookPages = {0, 1}
    SessionPages = {1, 2}
    IntMax = 2
    Ops = {"add_book", "update_book", "create_session", "update_session"}
    None = None
INVARIANTS
    PagesNonNegative
