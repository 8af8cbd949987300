------------------------------- MODULE Shelf -------------------------------
(***************************************************************************)
(* What the books and sessions features promise together, free of          *)
(* transactions: a shelf of user books and the reading sessions logged     *)
(* against them, changed by one whole operation at a time.                 *)
(* ShelfRequests, where every request is a sequence of SQL statements,     *)
(* implements this module (its property Atomic).                           *)
(*                                                                         *)
(* The pages_read counter of a user book is left out: it is not promised   *)
(* that requests change it atomically (see README, lost updates).          *)
(***************************************************************************)
CONSTANTS User,          \* accounts
          Book,          \* catalog books
          UserBookId,    \* primary keys of user_books
          SessionId,     \* primary keys of reading_sessions
          SessionPages,  \* page counts a session may record
          None           \* no row

VARIABLES shelf,         \* the committed user books: who has which book
          log            \* the committed reading sessions

Entry   == [user: User, book: Book]
Session == [book: UserBookId, pages: SessionPages]

TypeOK == /\ shelf \in [UserBookId -> Entry \cup {None}]
          /\ log \in [SessionId -> Session \cup {None}]

Init == /\ shelf = [b \in UserBookId |-> None]
        /\ log = [s \in SessionId |-> None]

\* A user puts a catalog book on the shelf, once.
AddBook(b, e) ==
    /\ shelf[b] = None
    /\ \A x \in UserBookId : shelf[x] # e
    /\ shelf' = [shelf EXCEPT ![b] = e]
    /\ UNCHANGED log

\* A user book goes, and every session logged against it.
DeleteBook(b) ==
    /\ shelf[b] # None
    /\ shelf' = [shelf EXCEPT ![b] = None]
    /\ log' = [s \in SessionId |-> IF log[s] # None /\ log[s].book = b
                                   THEN None ELSE log[s]]

\* A session is only ever logged against a book on the shelf.
CreateSession(s, e) ==
    /\ log[s] = None
    /\ shelf[e.book] # None
    /\ log' = [log EXCEPT ![s] = e]
    /\ UNCHANGED shelf

\* A session may change its page count, never its book.
UpdateSession(s, n) ==
    /\ log[s] # None
    /\ log' = [log EXCEPT ![s].pages = n]
    /\ UNCHANGED shelf

DeleteSession(s) ==
    /\ log[s] # None
    /\ log' = [log EXCEPT ![s] = None]
    /\ UNCHANGED shelf

Next ==
    \/ \E b \in UserBookId : DeleteBook(b) \/ \E e \in Entry : AddBook(b, e)
    \/ \E s \in SessionId :
         \/ \E e \in Session : CreateSession(s, e)
         \/ \E n \in SessionPages : UpdateSession(s, n)
         \/ DeleteSession(s)

vars == <<shelf, log>>

Spec == Init /\ [][Next]_vars
=============================================================================
