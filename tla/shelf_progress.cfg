SPECIFICATION FairSpec
CONSTANTS
    Req = {r1, r2}
    User = {u1}
    Book = {c1}
    UserBookId = {b1}
    SessionId = {s1}
    PagesTotal <- MCPagesTotal
    BookPages = {1}
    SessionPages = {1, 2}
    IntMax = 2
    Ops = {"add_book", "update_book", "delete_book", "create_session", "update_session", "delete_session", "shutdown"}
    None = None
PROPERTIES
    Drains
