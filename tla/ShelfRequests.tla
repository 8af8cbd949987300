--------------------------- MODULE ShelfRequests ---------------------------
(***************************************************************************)
(* The books and sessions features as concurrent HTTP requests over one    *)
(* PostgreSQL database.  Each request runs in its own transaction at READ  *)
(* COMMITTED (get_db, src/app/db/session.py) and is a sequence of SQL      *)
(* statements, one action per statement.  An action that only reads sees   *)
(* what is committed.  What a transaction writes becomes visible when it   *)
(* commits, so its writes are applied by its commit action; from the       *)
(* statement that writes until the commit the transaction holds the row    *)
(* locks of PostgreSQL, and statements of other requests wait for them.    *)
(*                                                                         *)
(* A label "<handler>.<statement>" in pc[r] names the statement request r  *)
(* executes next.  At "<handler>.commit" the response is already sent:     *)
(* get_db commits after the handler has returned.                          *)
(***************************************************************************)
EXTENDS Integers, FiniteSets

CONSTANTS Req,           \* requests in flight at most (pool connections)
          User,          \* accounts
          Book,          \* catalog books
          UserBookId,    \* uuids for user_books, each used once
          SessionId,     \* uuids for reading_sessions, each used once
          PagesTotal,    \* [Book -> Nat]: books.pages_total
          BookPages,     \* pages_read values a PATCH of a book may carry
          SessionPages,  \* pages_read values a session may carry
          IntMax,        \* the largest INTEGER of the database
          Ops,           \* what happens: handlers that clients call, shutdown
          None           \* no row, no value

Handlers == {"add_book", "update_book", "delete_book",
             "create_session", "update_session", "delete_session"}

ASSUME IntMaxAssumption == IntMax \in Nat \ {0}
ASSUME PagesAssumption ==
    /\ PagesTotal \in [Book -> 0..IntMax]
    /\ BookPages \subseteq 0..IntMax        \* BookUpdate: ge=0
    /\ SessionPages \subseteq 1..IntMax     \* SessionCreate, SessionUpdate: gt=0
ASSUME IdsAssumption == IsFiniteSet(SessionId)     \* a uuid has 128 bits
ASSUME OpsAssumption == Ops \subseteq Handlers \cup {"shutdown"}
ASSUME NoneAssumption ==
    /\ None \notin Book \cup User \cup UserBookId \cup SessionId \cup Int
    /\ None \notin [user: User, book: Book, pages: Int]
    /\ None \notin [user: User, book: Book]
    /\ None \notin [book: UserBookId, pages: Int]

VARIABLES
    catalog,           \* catalog books that are not soft-deleted
    user_books,        \* committed rows of user_books, by id
    reading_sessions,  \* committed rows of reading_sessions, by id
    used,              \* ids that were ever handed to an INSERT
    open,              \* FALSE once the server stops accepting requests
    pc,                \* the next statement of each request
    job,               \* what each request asks for
    seen,              \* user_book.pages_read as the request's SELECT saw it
    old                \* the session's pages_read as the request's SELECT saw it

tables == <<catalog, user_books, reading_sessions>>
vars   == <<tables, used, open, pc, job, seen, old>>

Int4     == (-IntMax - 1)..IntMax
UserBook == [user: User, book: Book, pages: Int4]
Session  == [book: UserBookId, pages: SessionPages]
Job      == [user: User \cup {None}, book: Book \cup {None},
             id: UserBookId \cup {None}, sid: SessionId \cup {None},
             pages: BookPages \cup SessionPages \cup {None}]
NoJob    == [user |-> None, book |-> None, id |-> None, sid |-> None,
             pages |-> None]

Labels ==
    {"idle",
     "add_book.catalog", "add_book.exists", "add_book.insert",
     "add_book.respond", "add_book.commit",
     "update_book.find", "update_book.catalog", "update_book.write",
     "update_book.respond", "update_book.commit",
     "delete_book.delete", "delete_book.cascade", "delete_book.commit",
     "create_session.find", "create_session.insert", "create_session.write",
     "create_session.commit",
     "update_session.find", "update_session.session", "update_session.edit",
     "update_session.write", "update_session.respond", "update_session.commit",
     "delete_session.find", "delete_session.session", "delete_session.erase",
     "delete_session.write", "delete_session.commit"}

TypeOK ==
    /\ catalog \subseteq Book
    /\ user_books \in [UserBookId -> UserBook \cup {None}]
    /\ reading_sessions \in [SessionId -> Session \cup {None}]
    /\ used \subseteq UserBookId \cup SessionId
    /\ open \in BOOLEAN
    /\ pc \in [Req -> Labels]
    /\ job \in [Req -> Job]
    /\ seen \in [Req -> Int4]
    /\ old \in [Req -> {0} \cup SessionPages]

Init ==
    /\ catalog = Book
    /\ user_books = [b \in UserBookId |-> None]
    /\ reading_sessions = [s \in SessionId |-> None]
    /\ used = {}
    /\ open = TRUE
    /\ pc = [r \in Req |-> "idle"]
    /\ job = [r \in Req |-> NoJob]
    /\ seen = [r \in Req |-> 0]
    /\ old = [r \in Req |-> 0]

-----------------------------------------------------------------------------
(* What a request sees and computes.                                       *)

\* The row a SELECT, UPDATE or DELETE with "id = .. AND user_id = .." finds.
Mine(r) == /\ user_books[job[r].id] # None
           /\ user_books[job[r].id].user = job[r].user

HasSession(r) == reading_sessions[job[r].sid] # None

SessionsOf(b) == {s \in SessionId : /\ reading_sessions[s] # None
                                    /\ reading_sessions[s].book = b}

HasBook(u, c) == \E b \in UserBookId : /\ user_books[b] # None
                                       /\ user_books[b].user = u
                                       /\ user_books[b].book = c

\* Mutant: delete_session leaves the counter alone.
LoweredNot(r) == seen[r]

\* max(0, user_book.pages_read - pages_to_subtract)
Lowered(r) == IF seen[r] < old[r] THEN 0 ELSE seen[r] - old[r]

\* The SQLAlchemy flush emits an UPDATE of user_books only for a new value.
Amends(r)    == job[r].pages \notin {None, old[r]}
Subtracts(r) == HasSession(r) /\ Lowered(r) # seen[r]

\* Mutant: what the session had before is not subtracted.
AmendedWhole(r) == seen[r] + job[r].pages

\* The value written to user_books.pages_read: always one computed by the
\* request from what it saw, never relative to the row being updated.
Created(r) == seen[r] + job[r].pages
Amended(r) == seen[r] + (job[r].pages - old[r])

-----------------------------------------------------------------------------
(* Row locks of PostgreSQL, as the statement a request has reached implies  *)
(* them.  They are released by the end of the transaction, i.e. "idle".     *)

\* FOR KEY SHARE on a user book: the foreign key check of an inserted session.
ShareLock(r, b) == /\ job[r].id = b
                   /\ pc[r] \in {"create_session.write", "create_session.commit"}

\* Mutant: delete_session locks the book before it deletes the session.
WriteLockEarly(r, b) ==
    /\ job[r].id = b
    /\ \/ pc[r] \in {"update_book.respond", "update_book.commit",
                     "create_session.commit", "update_session.respond",
                     "update_session.commit", "delete_session.commit"}
       \/ pc[r] = "delete_session.erase"

\* FOR NO KEY UPDATE on a user book: an UPDATE of it.
WriteLock(r, b) ==
    /\ job[r].id = b
    /\ \/ pc[r] \in {"update_book.respond", "update_book.commit",
                     "create_session.commit"}
       \/ /\ pc[r] \in {"update_session.respond", "update_session.commit"}
          /\ Amends(r)
       \/ pc[r] = "delete_session.commit" /\ Subtracts(r)

\* FOR UPDATE on a user book: a DELETE of it.
DeleteLock(r, b) == /\ job[r].id = b
                    /\ pc[r] \in {"delete_book.cascade", "delete_book.commit"}

\* The lock of an UPDATE or DELETE, by a request or by ON DELETE CASCADE.
SessionLock(r, s) ==
    /\ reading_sessions[s] # None
    /\ \/ /\ job[r].sid = s
          /\ pc[r] \in {"update_session.write", "update_session.respond",
                        "update_session.commit", "delete_session.write",
                        "delete_session.commit"}
       \/ pc[r] = "delete_book.commit" /\ reading_sessions[s].book = job[r].id

\* Mutant: user_books has no unique constraint.
KeyLockMissing(r, u, c) == FALSE

\* An uncommitted entry of the unique index uq_user_book.
KeyLock(r, u, c) == /\ job[r].user = u
                    /\ job[r].book = c
                    /\ pc[r] \in {"add_book.respond", "add_book.commit"}

\* The next statement of r has to wait for the transaction of q to end.
Waits(r, q) ==
    /\ r # q
    /\ \/ /\ pc[r] = "add_book.insert"
          /\ \/ KeyLock(q, job[r].user, job[r].book)
             \/ \E b \in UserBookId : /\ user_books[b] # None
                                      /\ user_books[b].user = job[r].user
                                      /\ user_books[b].book = job[r].book
                                      /\ DeleteLock(q, b)
       \/ pc[r] = "create_session.insert" /\ DeleteLock(q, job[r].id)
       \/ /\ pc[r] \in {"update_book.write", "create_session.write",
                        "update_session.write", "delete_session.write"}
          /\ WriteLock(q, job[r].id) \/ DeleteLock(q, job[r].id)
       \/ /\ pc[r] = "delete_book.delete" /\ Mine(r)
          /\ \/ ShareLock(q, job[r].id)
             \/ WriteLock(q, job[r].id)
             \/ DeleteLock(q, job[r].id)
       \/ /\ pc[r] = "delete_book.cascade"
          /\ \E s \in SessionsOf(job[r].id) : SessionLock(q, s)
       \/ /\ pc[r] \in {"update_session.edit", "delete_session.erase"}
          /\ SessionLock(q, job[r].sid)

Free(r) == \A q \in Req : ~Waits(r, q)

\* r waits for a transaction that waits, in the end, for r.
Deadlocked(r) ==
    \E D \in SUBSET Req :
       /\ r \in D
       /\ \A p \in D : /\ \E q \in D : Waits(p, q)
                       /\ \E q \in D : Waits(q, p)

-----------------------------------------------------------------------------
(* Steps every handler shares.                                              *)

Goto(r, label) == pc' = [pc EXCEPT ![r] = label]

\* The transaction is over and the connection goes back to the pool.
End(r) == /\ pc' = [pc EXCEPT ![r] = "idle"]
          /\ job' = [job EXCEPT ![r] = NoJob]
          /\ seen' = [seen EXCEPT ![r] = 0]
          /\ old' = [old EXCEPT ![r] = 0]

\* Any exception makes get_db roll back: nothing was visible to others.
Fail(r) == End(r) /\ UNCHANGED <<tables, used, open>>

\* A statement or check that goes on to the next one or raises.
Check(r, holds, label) ==
    \/ /\ holds
       /\ Goto(r, label)
       /\ UNCHANGED <<tables, used, open, job, seen, old>>
    \/ ~holds /\ Fail(r)

-----------------------------------------------------------------------------
(* Requests arrive.  Clients name rows they know: ids of used.              *)

Start(r, op, label, j) ==
    /\ open /\ op \in Ops
    /\ pc[r] = "idle"
    /\ Goto(r, label)
    /\ job' = [job EXCEPT ![r] = j]
    /\ UNCHANGED <<tables, used, open, seen, old>>

\* Bound of the model: no more INSERTs start than there are ids left.
IdsLeft(ids, labels) ==
    Cardinality({r \in Req : pc[r] \in labels}) < Cardinality(ids \ used)

BeginAddBook(r) ==
    /\ IdsLeft(UserBookId, {"add_book.catalog", "add_book.exists",
                            "add_book.insert"})
    /\ \E u \in User, c \in Book :
          Start(r, "add_book", "add_book.catalog",
                [NoJob EXCEPT !.user = u, !.book = c])

BeginUpdateBook(r) ==
    \E u \in User, b \in UserBookId \cap used, n \in BookPages \cup {None} :
       Start(r, "update_book", "update_book.find",
             [NoJob EXCEPT !.user = u, !.id = b, !.pages = n])

BeginDeleteBook(r) ==
    \E u \in User, b \in UserBookId \cap used :
       Start(r, "delete_book", "delete_book.delete",
             [NoJob EXCEPT !.user = u, !.id = b])

BeginCreateSession(r) ==
    /\ IdsLeft(SessionId, {"create_session.find", "create_session.insert"})
    /\ \E u \in User, b \in UserBookId \cap used, n \in SessionPages :
          Start(r, "create_session", "create_session.find",
                [NoJob EXCEPT !.user = u, !.id = b, !.pages = n])

BeginUpdateSession(r) ==
    \E u \in User, b \in UserBookId \cap used, s \in SessionId \cap used,
       n \in SessionPages \cup {None} :
       Start(r, "update_session", "update_session.find",
             [NoJob EXCEPT !.user = u, !.id = b, !.sid = s, !.pages = n])

BeginDeleteSession(r) ==
    \E u \in User, b \in UserBookId \cap used, s \in SessionId \cap used :
       Start(r, "delete_session", "delete_session.find",
             [NoJob EXCEPT !.user = u, !.id = b, !.sid = s])

Begin(r) == \/ BeginAddBook(r) \/ BeginUpdateBook(r) \/ BeginDeleteBook(r)
            \/ BeginCreateSession(r) \/ BeginUpdateSession(r)
            \/ BeginDeleteSession(r)

-----------------------------------------------------------------------------
(* POST /books: BookService.add_book                                        *)

AddBookCatalog(r) ==
    /\ pc[r] = "add_book.catalog"
    /\ Check(r, job[r].book \in catalog, "add_book.exists")

AddBookExists(r) ==
    /\ pc[r] = "add_book.exists"
    /\ Check(r, ~HasBook(job[r].user, job[r].book), "add_book.insert")

\* Mutant: the INSERT is trusted to the earlier exists().
AddBookInsertUnchecked(r) ==
    /\ pc[r] = "add_book.insert" /\ Free(r)
    /\ \E b \in UserBookId \ used : /\ used' = used \cup {b}
                                   /\ job' = [job EXCEPT ![r].id = b]
    /\ Goto(r, "add_book.respond")
    /\ UNCHANGED <<tables, open, seen, old>>

\* The INSERT waits for an uncommitted equal key, then uq_user_book decides.
AddBookInsert(r) ==
    /\ pc[r] = "add_book.insert" /\ Free(r)
    /\ \/ /\ ~HasBook(job[r].user, job[r].book)
          /\ \E b \in UserBookId \ used :
                /\ used' = used \cup {b}
                /\ job' = [job EXCEPT ![r].id = b]
          /\ Goto(r, "add_book.respond")
          /\ UNCHANGED <<tables, open, seen, old>>
       \/ HasBook(job[r].user, job[r].book) /\ Fail(r)

\* _to_response reads the catalog again: 404 if soft-deleted in between.
AddBookRespond(r) ==
    /\ pc[r] = "add_book.respond"
    /\ Check(r, job[r].book \in catalog, "add_book.commit")

AddBookCommit(r) ==
    /\ pc[r] = "add_book.commit" /\ End(r)
    /\ user_books' = [user_books EXCEPT ![job[r].id] =
          [user |-> job[r].user, book |-> job[r].book, pages |-> 0]]
    /\ UNCHANGED <<catalog, reading_sessions, used, open>>

AddBook(r) == \/ AddBookCatalog(r) \/ AddBookExists(r) \/ AddBookInsert(r)
              \/ AddBookRespond(r) \/ AddBookCommit(r)

-----------------------------------------------------------------------------
(* PATCH /books/{id}: BookService.update_book.  Of the columns it may set   *)
(* only pages_read is modelled here; a PATCH of others carries None.        *)

UpdateBookFind(r) ==
    /\ pc[r] = "update_book.find"
    /\ \/ /\ Mine(r)
          /\ job' = [job EXCEPT ![r].book = user_books[job[r].id].book]
          /\ Goto(r, "update_book.catalog")
          /\ UNCHANGED <<tables, used, open, seen, old>>
       \/ ~Mine(r) /\ Fail(r)

UpdateBookCatalog(r) ==
    /\ pc[r] = "update_book.catalog"
    /\ Check(r, /\ job[r].book \in catalog
                /\ job[r].pages # None => job[r].pages <= PagesTotal[job[r].book],
             "update_book.write")

\* Mutant: the row to return is not selected again after the UPDATE.
UpdateBookWriteBlind(r) ==
    pc[r] = "update_book.write" /\ Free(r) /\ Check(r, TRUE, "update_book.respond")

\* An UPDATE of a row deleted meanwhile matches nothing; get_by_id then
\* returns None and _to_response(None) raises.
UpdateBookWrite(r) ==
    /\ pc[r] = "update_book.write" /\ Free(r)
    /\ Check(r, Mine(r), "update_book.respond")

UpdateBookRespond(r) ==
    /\ pc[r] = "update_book.respond"
    /\ Check(r, job[r].book \in catalog, "update_book.commit")

UpdateBookCommit(r) ==
    /\ pc[r] = "update_book.commit" /\ End(r)
    /\ user_books' = IF job[r].pages = None THEN user_books
                     ELSE [user_books EXCEPT ![job[r].id].pages = job[r].pages]
    /\ UNCHANGED <<catalog, reading_sessions, used, open>>

UpdateBook(r) == \/ UpdateBookFind(r) \/ UpdateBookCatalog(r)
                 \/ UpdateBookWrite(r) \/ UpdateBookRespond(r)
                 \/ UpdateBookCommit(r)

-----------------------------------------------------------------------------
(* DELETE /books/{id}: BookService.delete_book.  One statement, but the     *)
(* row is locked before the cascade locks the sessions.                     *)

DeleteBookDelete(r) ==
    /\ pc[r] = "delete_book.delete" /\ Free(r)
    /\ Check(r, Mine(r), "delete_book.cascade")

DeleteBookCascade(r) ==
    /\ pc[r] = "delete_book.cascade" /\ Free(r)
    /\ Goto(r, "delete_book.commit")
    /\ UNCHANGED <<tables, used, open, job, seen, old>>

\* Mutant: the foreign key of reading_sessions has no ON DELETE CASCADE.
DeleteBookCommitAlone(r) ==
    /\ pc[r] = "delete_book.commit" /\ End(r)
    /\ user_books' = [user_books EXCEPT ![job[r].id] = None]
    /\ UNCHANGED <<catalog, reading_sessions, used, open>>

DeleteBookCommit(r) ==
    /\ pc[r] = "delete_book.commit" /\ End(r)
    /\ user_books' = [user_books EXCEPT ![job[r].id] = None]
    /\ reading_sessions' = [s \in SessionId |->
          IF s \in SessionsOf(job[r].id) THEN None ELSE reading_sessions[s]]
    /\ UNCHANGED <<catalog, used, open>>

DeleteBook(r) == DeleteBookDelete(r) \/ DeleteBookCascade(r) \/ DeleteBookCommit(r)

-----------------------------------------------------------------------------
(* POST /books/{id}/sessions: SessionService.create_session                 *)

\* The SELECT all session handlers start with: pages_read is read here and
\* the value written later is computed from it.
FindBook(r, label) ==
    \/ /\ Mine(r)
       /\ seen' = [seen EXCEPT ![r] = user_books[job[r].id].pages]
       /\ Goto(r, label)
       /\ UNCHANGED <<tables, used, open, job, old>>
    \/ ~Mine(r) /\ Fail(r)

CreateSessionFind(r) ==
    pc[r] = "create_session.find" /\ FindBook(r, "create_session.insert")

\* The foreign key check waits for an uncommitted DELETE of the book.
CreateSessionInsert(r) ==
    /\ pc[r] = "create_session.insert" /\ Free(r)
    /\ \/ /\ user_books[job[r].id] # None
          /\ \E s \in SessionId \ used :
                /\ used' = used \cup {s}
                /\ job' = [job EXCEPT ![r].sid = s]
          /\ Goto(r, "create_session.write")
          /\ UNCHANGED <<tables, open, seen, old>>
       \/ user_books[job[r].id] = None /\ Fail(r)

\* Mutant: a write that fails is tried again, in the same transaction.
CreateSessionWriteRetried(r) ==
    /\ pc[r] = "create_session.write" /\ Free(r)
    /\ user_books[job[r].id] # None /\ Created(r) \in Int4
    /\ Goto(r, "create_session.commit")
    /\ UNCHANGED <<tables, used, open, job, seen, old>>

\* UPDATE user_books SET pages_read = <a value>: out of INTEGER's range it
\* raises, as does an UPDATE that matches no row (StaleDataError).
CreateSessionWrite(r) ==
    /\ pc[r] = "create_session.write" /\ Free(r)
    /\ Check(r, user_books[job[r].id] # None /\ Created(r) \in Int4,
             "create_session.commit")

CreateSessionCommit(r) ==
    /\ pc[r] = "create_session.commit" /\ End(r)
    /\ user_books' = [user_books EXCEPT ![job[r].id].pages = Created(r)]
    /\ reading_sessions' = [reading_sessions EXCEPT ![job[r].sid] =
          [book |-> job[r].id, pages |-> job[r].pages]]
    /\ UNCHANGED <<catalog, used, open>>

CreateSession(r) == \/ CreateSessionFind(r) \/ CreateSessionInsert(r)
                    \/ CreateSessionWrite(r) \/ CreateSessionCommit(r)

-----------------------------------------------------------------------------
(* PATCH /books/{id}/sessions/{sid}: SessionService.update_session          *)

\* Mutant: any session id is accepted under any book of the user.
FindSessionAnyBook(r, label) ==
    \/ /\ HasSession(r)
       /\ old' = [old EXCEPT ![r] = reading_sessions[job[r].sid].pages]
       /\ Goto(r, label)
       /\ UNCHANGED <<tables, used, open, job, seen>>
    \/ ~HasSession(r) /\ Fail(r)

\* The session must be one of the book in the path.
FindSession(r, label) ==
    \/ /\ HasSession(r) /\ reading_sessions[job[r].sid].book = job[r].id
       /\ old' = [old EXCEPT ![r] = reading_sessions[job[r].sid].pages]
       /\ Goto(r, label)
       /\ UNCHANGED <<tables, used, open, job, seen>>
    \/ /\ ~(HasSession(r) /\ reading_sessions[job[r].sid].book = job[r].id)
       /\ Fail(r)

UpdateSessionFind(r) ==
    pc[r] = "update_session.find" /\ FindBook(r, "update_session.session")

UpdateSessionSession(r) ==
    pc[r] = "update_session.session" /\ FindSession(r, "update_session.edit")

\* The UPDATE of the session, which may match no row any more; the counter
\* of the book is written next if the page count is a new one.
UpdateSessionEdit(r) ==
    /\ pc[r] = "update_session.edit" /\ Free(r)
    /\ Goto(r, IF Amends(r) THEN "update_session.write"
               ELSE "update_session.respond")
    /\ UNCHANGED <<tables, used, open, job, seen, old>>

UpdateSessionWrite(r) ==
    /\ pc[r] = "update_session.write" /\ Free(r)
    /\ Check(r, user_books[job[r].id] # None /\ Amended(r) \in Int4,
             "update_session.respond")

\* Mutant: the response is built from existing_session.
UpdateSessionRespondBlind(r) ==
    pc[r] = "update_session.respond" /\ Check(r, TRUE, "update_session.commit")

\* updated is None if the UPDATE of the session matched nothing: it raises.
UpdateSessionRespond(r) ==
    /\ pc[r] = "update_session.respond"
    /\ Check(r, HasSession(r), "update_session.commit")

UpdateSessionCommit(r) ==
    /\ pc[r] = "update_session.commit" /\ End(r)
    /\ \/ /\ Amends(r)
          /\ user_books' = [user_books EXCEPT ![job[r].id].pages = Amended(r)]
       \/ ~Amends(r) /\ UNCHANGED user_books
    /\ reading_sessions' =
          IF job[r].pages = None THEN reading_sessions
          ELSE [reading_sessions EXCEPT ![job[r].sid].pages = job[r].pages]
    /\ UNCHANGED <<catalog, used, open>>

UpdateSession(r) == \/ UpdateSessionFind(r) \/ UpdateSessionSession(r)
                    \/ UpdateSessionEdit(r) \/ UpdateSessionWrite(r)
                    \/ UpdateSessionRespond(r) \/ UpdateSessionCommit(r)

-----------------------------------------------------------------------------
(* DELETE /books/{id}/sessions/{sid}: SessionService.delete_session         *)

DeleteSessionFind(r) ==
    pc[r] = "delete_session.find" /\ FindBook(r, "delete_session.session")

DeleteSessionSession(r) ==
    pc[r] = "delete_session.session" /\ FindSession(r, "delete_session.erase")

\* A session that is gone already leaves the counter alone and answers 204.
DeleteSessionErase(r) ==
    /\ pc[r] = "delete_session.erase" /\ Free(r)
    /\ Goto(r, IF Subtracts(r) THEN "delete_session.write"
               ELSE "delete_session.commit")
    /\ UNCHANGED <<tables, used, open, job, seen, old>>

DeleteSessionWrite(r) ==
    /\ pc[r] = "delete_session.write" /\ Free(r)
    /\ Check(r, user_books[job[r].id] # None, "delete_session.commit")

DeleteSessionCommit(r) ==
    /\ pc[r] = "delete_session.commit" /\ End(r)
    /\ \/ /\ Subtracts(r)
          /\ user_books' = [user_books EXCEPT ![job[r].id].pages = Lowered(r)]
       \/ ~Subtracts(r) /\ UNCHANGED user_books
    /\ reading_sessions' = [reading_sessions EXCEPT ![job[r].sid] = None]
    /\ UNCHANGED <<catalog, used, open>>

DeleteSession(r) == \/ DeleteSessionFind(r) \/ DeleteSessionSession(r)
                    \/ DeleteSessionErase(r) \/ DeleteSessionWrite(r)
                    \/ DeleteSessionCommit(r)

-----------------------------------------------------------------------------
(* The surroundings.                                                        *)

\* PostgreSQL aborts a transaction of a wait cycle (deadlock_timeout).
BreakDeadlock(r) == Deadlocked(r) /\ Fail(r)

\* The worker process or its connection dies: the server rolls back, even
\* when the response of the request was already sent.
Lose(r) == pc[r] # "idle" /\ Fail(r)

\* Books leave the catalog by is_deleted, which no handler of src/ sets.
SoftDelete(c) ==
    /\ c \in catalog
    /\ catalog' = catalog \ {c}
    /\ UNCHANGED <<user_books, reading_sessions, used, open, pc, job, seen, old>>

\* Shutdown: no request arrives any more, those in flight are finished.
Close ==
    /\ "shutdown" \in Ops /\ open
    /\ open' = FALSE
    /\ UNCHANGED <<tables, used, pc, job, seen, old>>

\* A closed server with no request in flight may stop here.
Stopped == ~open /\ (\A r \in Req : pc[r] = "idle") /\ UNCHANGED vars

Step(r) == \/ AddBook(r) \/ UpdateBook(r) \/ DeleteBook(r)
           \/ CreateSession(r) \/ UpdateSession(r) \/ DeleteSession(r)

Next == \/ \E r \in Req : Begin(r) \/ Step(r) \/ BreakDeadlock(r) \/ Lose(r)
        \/ \E c \in Book : SoftDelete(c)
        \/ Close
        \/ Stopped

Spec == Init /\ [][Next]_vars

\* The event loop resumes every request whose statement has returned, and
\* PostgreSQL's deadlock detector runs for whoever waits long enough.
Fairness == \A r \in Req : WF_vars(Step(r)) /\ WF_vars(BreakDeadlock(r))

FairSpec == Spec /\ Fairness

-----------------------------------------------------------------------------
(* Properties.                                                              *)

\* Every reading session belongs to an existing user book: the foreign key
\* of ReadingSession holds although sessions are inserted for books that a
\* concurrent request deletes, and the cascade misses none of them.
NoOrphanSessions ==
    \A s \in SessionId : reading_sessions[s] # None
                         => user_books[reading_sessions[s].book] # None

\* A user has a catalog book at most once, although add_book checks first
\* (exists) and inserts later, with other requests in between.
UniqueShelfEntry ==
    \A b, x \in UserBookId :
       /\ user_books[b] # None /\ user_books[x] # None
       /\ user_books[b].user = user_books[x].user
       /\ user_books[b].book = user_books[x].book
       => b = x

\* The response is sent before the commit: whatever a successful response
\* spoke of must still be there, and still be the caller's, until then.
AckedRowsKept ==
    \A r \in Req :
       /\ pc[r] = "add_book.commit" => ~HasBook(job[r].user, job[r].book)
       /\ pc[r] \in {"update_book.commit", "delete_book.commit",
                     "create_session.commit", "update_session.commit"} => Mine(r)
       /\ pc[r] = "update_session.commit"
             => HasSession(r) /\ reading_sessions[job[r].sid].book = job[r].id

\* The only requests that can wait for each other are a delete_book, which
\* locks the book and then its sessions, and an update_session or
\* delete_session of that book, which lock in the opposite order.
DeadlocksInvolveDeletion ==
    \A r \in Req : Deadlocked(r) =>
       \E d, e \in Req : /\ r \in {d, e} /\ Waits(d, e) /\ Waits(e, d)
                         /\ pc[d] = "delete_book.cascade"
                         /\ pc[e] \in {"update_session.write",
                                       "delete_session.write"}

CommitLabels == {"add_book.commit", "update_book.commit", "delete_book.commit",
                 "create_session.commit", "update_session.commit",
                 "delete_session.commit"}

CommitsFor(u) == \E r \in Req : /\ pc[r] \in CommitLabels /\ pc'[r] = "idle"
                                /\ job[r].user = u

\* The step changes the rows of a user only by that user's commit.
OwnRows ==
    /\ \A b \in UserBookId :
          user_books[b] # None /\ user_books'[b] # user_books[b]
          => CommitsFor(user_books[b].user)
    /\ \A s \in SessionId, row \in Session :
          /\ reading_sessions'[s] # reading_sessions[s]
          /\ row \in {reading_sessions[s], reading_sessions'[s]}
          => /\ user_books[row.book] # None
             /\ CommitsFor(user_books[row.book].user)

\* A user book or a session only changes by a request of the book's owner,
\* although the handlers check the owner and the session's book once, in
\* their first SELECTs, and write by primary key later.
OwnRowsOnly == [][OwnRows]_vars

\* Once no request arrives any more every request in flight ends: nobody
\* waits for ever for a row lock.
Drains == ~open ~> \A r \in Req : pc[r] = "idle"

\* The committed user books without their counters.
ShelfOf == [b \in UserBookId |->
               IF user_books[b] = None THEN None
               ELSE [user |-> user_books[b].user, book |-> user_books[b].book]]

S == INSTANCE Shelf WITH shelf <- ShelfOf, log <- reading_sessions

\* The committed rows change as if each request were one atomic operation,
\* although a handler reads, decides and writes in separate statements.
Atomic == S!Spec

\* BookUpdate.pages_read has ge=0, delete_session takes max(0, ..): a user
\* book never has a negative number of pages read.
PagesNonNegative ==
    \A b \in UserBookId : user_books[b] # None => user_books[b].pages >= 0
=============================================================================
