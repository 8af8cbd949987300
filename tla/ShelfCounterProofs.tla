------------------------- MODULE ShelfCounterProofs -------------------------
(***************************************************************************)
(* CounterInv is an invariant of ShelfCounter, i.e. of all six handlers in *)
(* every interleaving, for any number of requests, books and sessions: how *)
(* far the counter pages_read can be trusted.                              *)
(***************************************************************************)
EXTENDS ShelfCounter, ShelfRequestsProofs, FiniteSetTheorems

(* First, how the number of pages depends on one session.                   *)

Rows == [SessionId -> Session \cup {None}]

\* What the session s adds to the pages of b.
PagesBy(rows, s, b) == IF rows[s] # None /\ rows[s].book = b THEN rows[s].pages
                       ELSE 0

LEMMA PagesFinite ==
  ASSUME NEW rows, NEW b
  PROVE  /\ IsFiniteSet(PagesIn(rows, b))
         /\ Cardinality(PagesIn(rows, b)) \in Nat
<1>1. IsFiniteSet(1..IntMax)
  BY IntMaxAssumption, FS_Interval
<1>2. IsFiniteSet(SessionId \X (1..IntMax))
  BY <1>1, IdsAssumption, FS_Product
<1>3. PagesIn(rows, b) \subseteq SessionId \X (1..IntMax)
  BY DEF PagesIn
<1>4. IsFiniteSet(PagesIn(rows, b))
  BY <1>2, <1>3, FS_Subset
<1> QED
  BY <1>4, FS_CardinalityType

\* The pages of b are those of s and those of the other sessions.
LEMMA PagesSplit ==
  ASSUME NEW rows \in Rows, NEW s \in SessionId, NEW b
  PROVE  LET others == {p \in PagesIn(rows, b) : p[1] # s}
         IN  /\ Cardinality(others) \in Nat
             /\ PagesBy(rows, s, b) \in Nat
             /\ Cardinality(PagesIn(rows, b)) = Cardinality(others) + PagesBy(rows, s, b)
<1> DEFINE others == {p \in PagesIn(rows, b) : p[1] # s}
           own == {p \in PagesIn(rows, b) : p[1] = s}
           n == PagesBy(rows, s, b)
<1>1. IsFiniteSet(others) /\ IsFiniteSet(own) /\ Cardinality(others) \in Nat
  <2>1. IsFiniteSet(others) /\ IsFiniteSet(own)
    BY PagesFinite, FS_Subset
  <2> QED
    BY <2>1, FS_CardinalityType
<1>2. n \in 0..IntMax
  <2>1. CASE rows[s] # None /\ rows[s].book = b
    <3>1. rows[s] \in Session
      BY <2>1 DEF Rows
    <3>2. rows[s].pages \in 1..IntMax
      BY <3>1, PagesAssumption DEF Session
    <3> QED
      BY <2>1, <3>2, IntMaxAssumption DEF PagesBy
  <2>2. CASE ~(rows[s] # None /\ rows[s].book = b)
    BY <2>2, IntMaxAssumption DEF PagesBy
  <2> QED
    BY <2>1, <2>2
<1>3. own = {s} \X (1..n)
  <2>1. CASE rows[s] # None /\ rows[s].book = b
    <3>1. n = rows[s].pages /\ n \in 0..IntMax
      BY <2>1, <1>2 DEF PagesBy
    <3> HIDE DEF n
    <3>2. ASSUME NEW p \in own PROVE p \in {s} \X (1..n)
      <4>1. /\ p \in SessionId \X (1..IntMax) /\ p[1] = s /\ p[2] <= n
        BY <3>1, <3>2 DEF PagesIn
      <4>2. p[2] \in 1..n
        BY <3>1, <4>1, IntMaxAssumption
      <4> QED
        BY <4>1, <4>2
    <3>3. ASSUME NEW p \in {s} \X (1..n) PROVE p \in own
      <4>1. p[1] = s /\ p[2] \in 1..n /\ p = <<s, p[2]>>
        BY <3>3
      <4>2. p[2] \in 1..IntMax /\ p[2] <= n
        BY <3>1, <4>1, IntMaxAssumption
      <4>3. p \in SessionId \X (1..IntMax)
        BY <4>1, <4>2
      <4> QED
        BY <2>1, <3>1, <4>1, <4>2, <4>3 DEF PagesIn
    <3> QED
      BY <3>2, <3>3
  <2>2. CASE ~(rows[s] # None /\ rows[s].book = b)
    BY <2>2, IntMaxAssumption DEF PagesIn, PagesBy
  <2> QED
    BY <2>1, <2>2
<1>4. Cardinality(own) = n
  <2>1. n \in Nat
    BY <1>2, IntMaxAssumption
  <2>2. IsFiniteSet(1..n) /\ Cardinality(1..n) = n
    BY <2>1, FS_Interval
  <2>3. IsFiniteSet({s}) /\ Cardinality({s}) = 1
    BY FS_Singleton
  <2>4. Cardinality({s} \X (1..n)) = Cardinality({s}) * Cardinality(1..n)
    BY <2>2, <2>3, FS_Product
  <2>5. Cardinality(own) = 1 * Cardinality(1..n)
    BY ONLY <1>3, <2>3, <2>4, Zenon
  <2> HIDE DEF n
  <2> QED
    BY ONLY <2>1, <2>2, <2>5, SMT
<1>5. others \cup own = PagesIn(rows, b) /\ others \cap own = {}
  OBVIOUS
<1>6. Cardinality(others \cup own) = Cardinality(others) + Cardinality(own)
                                        - Cardinality(others \cap own)
  BY <1>1, FS_Union
<1>7. Cardinality(others \cap own) = 0
  BY <1>5, FS_EmptySet
<1> HIDE DEF others, own, n
<1>8. n \in Nat
  BY <1>2, IntMaxAssumption
<1>9. Cardinality(PagesIn(rows, b)) = Cardinality(others) + n
  <2>1. Cardinality(PagesIn(rows, b)) = Cardinality(others \cup own)
    BY ONLY <1>5, Zenon
  <2> QED
    BY ONLY <1>1, <1>4, <1>6, <1>7, <1>8, <2>1, SMT
<1> QED
  BY <1>1, <1>8, <1>9 DEF others, n

\* If s alone changes, the number of pages changes by what s adds.
LEMMA PagesChange ==
  ASSUME NEW rows \in Rows, NEW new \in Rows, NEW s \in SessionId, NEW b,
         \A x \in SessionId \ {s} : new[x] = rows[x]
  PROVE  /\ PagesBy(rows, s, b) <= Cardinality(PagesIn(rows, b))
         /\ Cardinality(PagesIn(new, b)) =
               (Cardinality(PagesIn(rows, b)) - PagesBy(rows, s, b)) + PagesBy(new, s, b)
<1> DEFINE others(f) == {p \in PagesIn(f, b) : p[1] # s}
<1>1. others(new) = others(rows)
  BY DEF PagesIn
<1>2. \A f \in Rows :
         /\ Cardinality(others(f)) \in Nat
         /\ PagesBy(f, s, b) \in Nat
         /\ Cardinality(PagesIn(f, b)) = Cardinality(others(f)) + PagesBy(f, s, b)
  BY PagesSplit
<1> HIDE DEF others
<1> QED
  BY <1>1, <1>2

\* A book that no session names has no pages.
LEMMA NoPages ==
  ASSUME NEW rows, NEW b, \A s \in SessionId : rows[s] # None => rows[s].book # b
  PROVE  Cardinality(PagesIn(rows, b)) = 0
<1>1. PagesIn(rows, b) = {}
  BY DEF PagesIn
<1> QED
  BY <1>1, FS_EmptySet

\* Sessions that do not name b, before or after, do not change its pages.
LEMMA PagesKeep ==
  ASSUME NEW rows, NEW new, NEW b,
         \A s \in SessionId : new[s] # rows[s] =>
            /\ rows[s] # None => rows[s].book # b
            /\ new[s] # None => new[s].book # b
  PROVE  PagesIn(new, b) = PagesIn(rows, b)
BY DEF PagesIn

-----------------------------------------------------------------------------
(* Second, what a request that is not stale can rely on.                    *)

LEMMA BeginStarts ==
  ASSUME NEW r \in Req, Begin(r)
  PROVE  \E j : \/ Start(r, "add_book", "add_book.catalog", j)
               \/ Start(r, "update_book", "update_book.find", j)
               \/ Start(r, "delete_book", "delete_book.delete", j)
               \/ Start(r, "create_session", "create_session.find", j)
               \/ Start(r, "update_session", "update_session.find", j)
               \/ Start(r, "delete_session", "delete_session.find", j)
BY Zenon
DEF Begin, BeginAddBook, BeginUpdateBook, BeginDeleteBook, BeginCreateSession,
    BeginUpdateSession, BeginDeleteSession

LEMMA OthersUntouched ==
  ASSUME IInv, NEW r \in Req, Begin(r) \/ Step(r) \/ Fail(r)
  PROVE  OthersKeep(r)
<1> USE DEF OthersKeep, Check, Fail, End, Goto, tables, IInv, TypeOK
<1>1. CASE Fail(r)
  BY <1>1
<1>2. CASE Begin(r)
  BY <1>2, BeginStarts DEF Start
<1>3. CASE AddBook(r)
  BY <1>3 DEF AddBook, AddBookCatalog, AddBookExists, AddBookInsert, AddBookRespond,
              AddBookCommit
<1>4. CASE UpdateBook(r)
  BY <1>4 DEF UpdateBook, UpdateBookFind, UpdateBookCatalog, UpdateBookWrite,
              UpdateBookRespond, UpdateBookCommit
<1>5. CASE DeleteBook(r)
  BY <1>5 DEF DeleteBook, DeleteBookDelete, DeleteBookCascade, DeleteBookCommit
<1>6. CASE CreateSession(r)
  BY <1>6 DEF CreateSession, CreateSessionFind, CreateSessionInsert,
              CreateSessionWrite, CreateSessionCommit, FindBook
<1>7. CASE UpdateSession(r)
  BY <1>7 DEF UpdateSession, UpdateSessionFind, UpdateSessionSession,
              UpdateSessionEdit, UpdateSessionWrite, UpdateSessionRespond,
              UpdateSessionCommit, FindBook, FindSession
<1>8. CASE DeleteSession(r)
  BY <1>8 DEF DeleteSession, DeleteSessionFind, DeleteSessionSession,
              DeleteSessionErase, DeleteSessionWrite, DeleteSessionCommit,
              FindBook, FindSession
<1> QED
  BY <1>1, <1>2, <1>3, <1>4, <1>5, <1>6, <1>7, <1>8 DEF Step

LEMMA InitCounter == CInit => CounterInv
<1> SUFFICES ASSUME CInit PROVE CounterInv
  OBVIOUS
<1>1. IInv
  BY InitIInv DEF CInit
<1>2. HistoryOK /\ CounterExact
  BY DEF CInit, Init, HistoryOK, CounterExact
<1>3. \A r \in Req : Reckoned(r)
  BY DEF CInit, Init, Reckoned, ReadsHold, Reckoning, Picked, Logging
<1> QED
  BY <1>1, <1>2, <1>3 DEF CounterInv

\* A request that has ended or just begun has read nothing yet.
LEMMA NothingRead ==
  ASSUME NEW r \in Req,
         pc'[r] \in {"idle", "add_book.catalog", "update_book.find",
                     "delete_book.delete", "create_session.find",
                     "update_session.find", "delete_session.find"}
  PROVE  Reckoned(r)'
BY DEF Reckoned, ReadsHold, Reckoning, Picked, Logging

\* A statement reads what the later ones rely on.
LEMMA StatementReads ==
  ASSUME IInv, NEW r \in Req, ReadsHold(r), Step(r), pc'[r] # "idle"
  PROVE  ReadsHold(r)'
<1> USE DEF ReadsHold, Reckoning, Picked, Logging
<1>1. ReadsHold(r) /\ IInv
  OBVIOUS
<1>2. /\ pc \in [Req -> Labels] /\ job \in [Req -> Job]
      /\ seen \in [Req -> Int4] /\ old \in [Req -> {0} \cup SessionPages]
  BY <1>1 DEF IInv, TypeOK
<1>3. ~Fail(r) /\ ~End(r)
  BY <1>1, EndType DEF Fail
<1>4. CASE AddBook(r)
  <2>1. pc'[r] \in {"add_book.exists", "add_book.insert", "add_book.respond",
                    "add_book.commit"}
    BY <1>2, <1>3, <1>4
    DEF AddBook, AddBookCatalog, AddBookExists, AddBookInsert, AddBookRespond,
        AddBookCommit, Check, Goto
  <2> QED
    BY <2>1
<1>5. CASE UpdateBook(r)
  <2>1. pc'[r] \in {"update_book.catalog", "update_book.write",
                    "update_book.respond", "update_book.commit"}
    BY <1>2, <1>3, <1>5
    DEF UpdateBook, UpdateBookFind, UpdateBookCatalog, UpdateBookWrite,
        UpdateBookRespond, UpdateBookCommit, Check, Goto
  <2> QED
    BY <2>1
<1>6. CASE DeleteBook(r)
  <2>1. pc'[r] \in {"delete_book.cascade", "delete_book.commit"}
    BY <1>2, <1>3, <1>6
    DEF DeleteBook, DeleteBookDelete, DeleteBookCascade, DeleteBookCommit, Check, Goto
  <2> QED
    BY <2>1
<1>7. CASE CreateSession(r)
  <2>1. CASE CreateSessionFind(r)
    BY <1>2, <1>3, <2>1 DEF CreateSessionFind, FindBook, Goto, tables
  <2>2. CASE CreateSessionInsert(r)
    <3>1. /\ pc[r] = "create_session.insert" /\ pc'[r] = "create_session.write"
          /\ job'[r].id = job[r].id /\ UNCHANGED <<tables, seen, old>>
      BY <1>2, <1>3, <2>2 DEF CreateSessionInsert, Goto, Job
    <3> QED
      BY <1>1, <3>1 DEF tables
  <2>3. CASE CreateSessionWrite(r)
    BY <1>1, <1>2, <1>3, <2>3 DEF CreateSessionWrite, Check, Goto, tables
  <2>4. ~CreateSessionCommit(r)
    BY <1>3 DEF CreateSessionCommit
  <2> QED
    BY <1>7, <2>1, <2>2, <2>3, <2>4 DEF CreateSession
<1>8. ASSUME NEW label, FindSession(r, label), label \in Picked,
             pc[r] \in {"update_session.session", "delete_session.session"}
      PROVE  ReadsHold(r)'
  BY <1>1, <1>2, <1>3, <1>8 DEF FindSession, Goto, HasSession, tables
<1>9. ASSUME NEW label \in Picked, Goto(r, label), pc[r] \in Picked,
             UNCHANGED <<tables, used, open, job, seen, old>>
      PROVE  ReadsHold(r)'
  BY <1>1, <1>2, <1>9 DEF Goto, HasSession, tables
<1>10. CASE UpdateSession(r)
  <2>1. CASE UpdateSessionFind(r)
    BY <1>2, <1>3, <2>1 DEF UpdateSessionFind, FindBook, Goto, tables
  <2>2. CASE UpdateSessionSession(r)
    BY <1>8, <2>2 DEF UpdateSessionSession
  <2>3. CASE UpdateSessionEdit(r) \/ UpdateSessionWrite(r) \/ UpdateSessionRespond(r)
    BY <1>3, <1>9, <2>3
    DEF UpdateSessionEdit, UpdateSessionWrite, UpdateSessionRespond, Check
  <2>4. ~UpdateSessionCommit(r)
    BY <1>3 DEF UpdateSessionCommit
  <2> QED
    BY <1>10, <2>1, <2>2, <2>3, <2>4 DEF UpdateSession
<1>11. CASE DeleteSession(r)
  <2>1. CASE DeleteSessionFind(r)
    BY <1>2, <1>3, <2>1 DEF DeleteSessionFind, FindBook, Goto, tables
  <2>2. CASE DeleteSessionSession(r)
    BY <1>8, <2>2 DEF DeleteSessionSession
  <2>3. CASE DeleteSessionErase(r) \/ DeleteSessionWrite(r)
    BY <1>3, <1>9, <2>3 DEF DeleteSessionErase, DeleteSessionWrite, Check
  <2>4. ~DeleteSessionCommit(r)
    BY <1>3 DEF DeleteSessionCommit
  <2> QED
    BY <1>11, <2>1, <2>2, <2>3, <2>4 DEF DeleteSession
<1> QED
  BY <1>4, <1>5, <1>6, <1>7, <1>10, <1>11 DEF Step

\* Who is stale stays so until it ends.
LEMMA StaleStays ==
  ASSUME Record, NEW q \in Req, q \in stale, pc'[q] \in Reckoning
  PROVE  q \in stale'
BY DEF Record

\* Of the requests only the one that takes the step writes, and to its book.
LEMMA OneWriter ==
  ASSUME NEW r \in Req, OthersKeep(r), NEW q \in Req, NEW b, Writes(q, b)
  PROVE  q = r /\ b = job[r].id
BY DEF OthersKeep, Writes

LEMMA NobodyWrites ==
  ASSUME UNCHANGED <<user_books, reading_sessions>>, NEW q, NEW b
  PROVE  ~Writes(q, b)
BY DEF Writes

\* A commit leaves alone what others have read, or makes them stale.
LEMMA OthersReckoned ==
  ASSUME CounterInv, IInv', Record, NEW r \in Req, NEW q \in Req \ {r},
         OthersKeep(r),
         CommitLocal(r) \/ UNCHANGED <<user_books, reading_sessions>>
  PROVE  Reckoned(q)'
<1>1. /\ pc'[q] = pc[q] /\ job'[q] = job[q] /\ seen'[q] = seen[q] /\ old'[q] = old[q]
      /\ Reckoned(q) /\ Local(q)'
  BY DEF OthersKeep, CounterInv, IInv
<1>2. CASE pc[q] \notin Reckoning
  BY <1>1, <1>2 DEF Reckoned, ReadsHold, Reckoning
<1>3. SUFFICES ASSUME pc[q] \in Reckoning, q \notin stale'
               PROVE  ReadsHold(q)'
  BY <1>2 DEF Reckoned
<1>4. ReadsHold(q)
  BY <1>1, <1>3, StaleStays DEF Reckoned
<1>5. CASE UNCHANGED <<user_books, reading_sessions>>
  BY <1>1, <1>4, <1>5 DEF ReadsHold, HasSession
<1>6. CASE CommitLocal(r) /\ ~UNCHANGED <<user_books, reading_sessions>>
  <2>1. job[q].id \in UserBookId
    BY <1>1, <1>3 DEF Local, JobOK, Reckoning, Picked, Logging
  <2>2. job[q].id # job[r].id
    <3>1. ~Writes(r, job[q].id)
      BY <1>1, <1>3 DEF Record
    <3>2. pc[r] \in CommitLabels /\ pc'[r] # pc[r]
      BY <1>6, EndType DEF CommitLocal, CommitLabels, CounterInv
    <3> QED
      BY <1>6, <3>1, <3>2 DEF Writes
  <2>3. user_books'[job[q].id] = user_books[job[q].id]
    BY <1>6, <2>1, <2>2 DEF CommitLocal
  <2>4. ASSUME pc[q] \in Picked, HasSession(q)'
        PROVE  reading_sessions'[job[q].sid] = reading_sessions[job[q].sid]
    <3>1. /\ job[q].sid \in SessionId
          /\ reading_sessions'[job[q].sid].book = job[q].id
      BY <1>1, <2>4 DEF Local, JobOK, HasSession
    <3>2. reading_sessions'[job[q].sid] \in Session
      BY <1>1, <2>4, <3>1 DEF IInv, TypeOK, HasSession
    <3> QED
      BY <1>6, <2>2, <3>1, <3>2 DEF CommitLocal
  <2> QED
    BY <1>1, <1>4, <2>3, <2>4 DEF ReadsHold, HasSession
<1> QED
  BY <1>5, <1>6

\* A step that writes nothing keeps the history, up to who has ended.
LEMMA QuietCounter ==
  ASSUME CounterInv, Record, UNCHANGED <<user_books, reading_sessions>>
  PROVE  HistoryOK' /\ CounterExact'
<1>1. \A q, b : ~Writes(q, b)
  BY NobodyWrites
<1>2. /\ drifted' = {b \in UserBookId : user_books[b] # None /\ b \in drifted}
      /\ credit' = [b \in UserBookId |->
            IF user_books[b] = None \/ b \in drifted' THEN 0 ELSE credit[b]]
      /\ stale' \subseteq Req
  BY <1>1 DEF Record, Sets, Spoils
<1>3. HistoryOK'
  BY <1>2 DEF CounterInv, HistoryOK
<1>4. CounterExact'
  BY <1>2 DEF CounterInv, CounterExact, Sum
<1> QED
  BY <1>3, <1>4

\* A commit keeps the history of every other book.
LEMMA OtherBooks ==
  ASSUME CounterInv, IInv', Record, NEW r \in Req, OthersKeep(r), CommitLocal(r),
         NEW x \in UserBookId \ {job[r].id}
  PROVE  /\ user_books'[x] = user_books[x] /\ Sum(x)' = Sum(x)
         /\ x \in drifted' <=> user_books[x] # None /\ x \in drifted
         /\ credit'[x] = IF user_books[x] = None \/ x \in drifted' THEN 0
                         ELSE credit[x]
<1>1. user_books'[x] = user_books[x]
  BY DEF CommitLocal
<1>2. \A n \in SessionId : reading_sessions'[n] # reading_sessions[n] =>
         /\ reading_sessions[n] # None => reading_sessions[n].book # x
         /\ reading_sessions'[n] # None => reading_sessions'[n].book # x
  BY DEF CommitLocal, CounterInv, IInv, TypeOK
<1>3. PagesIn(reading_sessions', x) = PagesIn(reading_sessions, x)
  BY <1>2, PagesKeep
<1>4. \A q \in Req : ~Writes(q, x)
  BY OneWriter
<1> QED
  BY <1>1, <1>3, <1>4 DEF Record, Sets, Spoils, Sum

\* The commit of a handler that has read what is still so writes the sum of
\* the sessions that it leaves behind, plus what was there before beyond it.
LEMMA SessionsCount ==
  ASSUME IInv, IInv', NEW r \in Req, Step(r), CommitLocal(r), ReadsHold(r),
         pc[r] # "update_book.commit",
         pc[r] = "delete_session.commit" => ~(seen[r] < old[r]),
         NEW c \in Int, user_books[job[r].id] = None => c = 0,
         user_books[job[r].id] # None
         => user_books[job[r].id].pages = c + Sum(job[r].id),
         user_books'[job[r].id] # None
  PROVE  user_books'[job[r].id].pages
            = c + Cardinality(PagesIn(reading_sessions', job[r].id))
<1> USE DEF Picked, Logging, Sum
<1> DEFINE b == job[r].id
           s == job[r].sid
           sum == Cardinality(PagesIn(reading_sessions, b))
           by == PagesBy(reading_sessions, s, b)
<1>1. /\ IInv /\ Local(r) /\ ReadsHold(r) /\ b \in UserBookId
      /\ user_books[b] # None => user_books[b].pages = c + sum
      /\ user_books \in [UserBookId -> UserBook \cup {None}]
      /\ reading_sessions \in Rows /\ reading_sessions' \in Rows
  BY DEF IInv, CommitLocal, TypeOK, Rows
<1>2. sum \in Nat
  BY PagesFinite
<1>3. ASSUME s \in SessionId,
             \A x \in SessionId \ {s} : reading_sessions'[x] = reading_sessions[x]
      PROVE  /\ by <= sum
             /\ Cardinality(PagesIn(reading_sessions', b))
                   = (sum - by) + PagesBy(reading_sessions', s, b)
  BY <1>1, <1>3, PagesChange
<1>4. CASE AddBookCommit(r)
  <2>1. /\ UNCHANGED reading_sessions /\ user_books'[b].pages = 0
        /\ user_books[b] = None /\ c = 0
    BY <1>1, <1>4 DEF AddBookCommit, Local, Adding
  <2>2. \A x \in SessionId : reading_sessions[x] # None => reading_sessions[x].book # b
    BY <1>1, <2>1 DEF IInv, NoOrphanSessions
  <2> QED
    BY <2>1, <2>2, NoPages
<1>5. ~UpdateBookCommit(r) /\ ~DeleteBookCommit(r)
  BY <1>1 DEF UpdateBookCommit, DeleteBookCommit
<1>6. CASE CreateSessionCommit(r)
  <2>1. /\ s \in SessionId /\ ~HasSession(r) /\ user_books[b] # None
        /\ seen[r] = c + sum /\ job[r].pages \in SessionPages
    BY <1>1, <1>6
    DEF CreateSessionCommit, Local, JobOK, Pinning, ReadsHold, Reckoning
  <2>2. user_books'[b].pages = c + sum + job[r].pages
    BY <1>1, <1>6, <2>1 DEF CreateSessionCommit, Created, UserBook
  <2>3. /\ \A x \in SessionId \ {s} : reading_sessions'[x] = reading_sessions[x]
        /\ reading_sessions'[s] = [book |-> b, pages |-> job[r].pages]
    BY <1>1, <1>6, <2>1 DEF CreateSessionCommit, Rows
  <2>4. by = 0
    BY <2>1 DEF PagesBy, HasSession
  <2>5. reading_sessions'[s] # None
    BY <1>1, <2>1, <2>3, NoneNotSession DEF Session
  <2>6. PagesBy(reading_sessions', s, b) = job[r].pages
    BY <2>3, <2>5 DEF PagesBy
  <2> QED
    BY <1>2, <1>3, <2>1, <2>2, <2>3, <2>4, <2>6, PagesAreInt4
<1>7. CASE UpdateSessionCommit(r)
  <2>1. /\ s \in SessionId /\ reading_sessions[s] # None
        /\ reading_sessions[s].book = b /\ user_books[b] # None
        /\ seen[r] = c + sum /\ old[r] = reading_sessions[s].pages
        /\ job[r].pages \in SessionPages \cup {None}
    BY <1>1, <1>7
    DEF UpdateSessionCommit, Local, JobOK, HasSession, ReadsHold, Reckoning, Editing,
        IInv, NoOrphanSessions
  <2>2. by = old[r] /\ old[r] \in SessionPages
    BY <1>1, <2>1 DEF PagesBy, Rows, Session
  <2>3. CASE job[r].pages = None
    <3>1. UNCHANGED <<user_books, reading_sessions>>
      BY <1>7, <2>3 DEF UpdateSessionCommit, Amends
    <3> QED
      BY <1>1, <2>1, <3>1
  <2>4. CASE job[r].pages # None
    <3>1. /\ \A x \in SessionId \ {s} : reading_sessions'[x] = reading_sessions[x]
          /\ reading_sessions'[s] = [reading_sessions[s] EXCEPT !.pages = job[r].pages]
      BY <1>1, <1>7, <2>1, <2>4 DEF UpdateSessionCommit, Rows
    <3>2. reading_sessions'[s] # None
      BY <1>1, <2>1, <2>4, <3>1, NoneNotSession DEF Rows, Session
    <3>3. PagesBy(reading_sessions', s, b) = job[r].pages
      BY <1>1, <2>1, <3>1, <3>2 DEF PagesBy, Rows, Session
    <3>4. user_books'[b].pages = c + sum + (job[r].pages - old[r])
      <4>1. CASE Amends(r)
        BY <1>1, <1>7, <2>1, <4>1 DEF UpdateSessionCommit, Amended, UserBook
      <4>2. CASE ~Amends(r)
        <5>1. job[r].pages = old[r] /\ user_books'[b].pages = c + sum
          BY <1>1, <1>7, <2>1, <2>4, <4>2 DEF UpdateSessionCommit, Amends
        <5> QED
          BY <1>2, <2>2, <5>1, PagesAreInt4
      <4> QED
        BY <4>1, <4>2
    <3> QED
      BY <1>2, <1>3, <2>1, <2>2, <2>4, <3>1, <3>3, <3>4, PagesAreInt4
  <2> QED
    BY <2>3, <2>4
<1>8. CASE DeleteSessionCommit(r)
  <2>1. s \in SessionId
    BY <1>1, <1>8 DEF DeleteSessionCommit, Local, JobOK
  <2>2. /\ \A x \in SessionId \ {s} : reading_sessions'[x] = reading_sessions[x]
        /\ reading_sessions'[s] = None
    BY <1>1, <1>8, <2>1 DEF DeleteSessionCommit, Rows
  <2>3. PagesBy(reading_sessions', s, b) = 0
    BY <2>2 DEF PagesBy
  <2>4. CASE ~HasSession(r)
    <3>1. by = 0
      BY <2>4 DEF PagesBy, HasSession
    <3>2. UNCHANGED user_books
      BY <1>8, <2>4 DEF DeleteSessionCommit, Subtracts
    <3> QED
      BY <1>1, <1>2, <1>3, <2>1, <2>2, <2>3, <3>1, <3>2
  <2>5. CASE HasSession(r)
    <3>1. /\ reading_sessions[s] # None /\ reading_sessions[s].book = b
          /\ user_books[b] # None /\ seen[r] = c + sum
          /\ old[r] = reading_sessions[s].pages
      BY <1>1, <1>8, <2>1, <2>5
      DEF DeleteSessionCommit, Local, HasSession, ReadsHold, Reckoning, IInv,
          NoOrphanSessions
    <3>2. by = old[r] /\ old[r] \in SessionPages
      BY <1>1, <2>1, <3>1 DEF PagesBy, Rows, Session
    <3>3. old[r] \in Int /\ old[r] > 0 /\ old[r] <= sum
      BY <1>3, <2>1, <2>2, <3>2, PagesAreInt4
    <3>4. Lowered(r) = (c + sum) - old[r] /\ Subtracts(r)
      BY <1>1, <1>2, <1>8, <2>5, <3>1, <3>3 DEF Lowered, Subtracts, DeleteSessionCommit
    <3>5. user_books'[b].pages = (c + sum) - old[r]
      BY <1>1, <1>8, <3>1, <3>4 DEF DeleteSessionCommit, UserBook
    <3> QED
      BY <1>2, <1>3, <2>1, <2>2, <2>3, <3>2, <3>3, <3>5
  <2> QED
    BY <2>4, <2>5
<1>9. CASE UNCHANGED <<user_books, reading_sessions>>
  BY <1>1, <1>9
<1> QED
  BY <1>4, <1>5, <1>6, <1>7, <1>8, <1>9, StepCases

\* A commit keeps the counter of its book, if that has not drifted, and those
\* of the others.
LEMMA CommitCounts ==
  ASSUME CounterInv, IInv', Record, NEW r \in Req, Step(r), CommitLocal(r),
         OthersKeep(r), ~UNCHANGED <<user_books, reading_sessions>>
  PROVE  HistoryOK' /\ CounterExact'
<1> DEFINE b == job[r].id
           c == credit[b]
           sum == Cardinality(PagesIn(reading_sessions, b))
<1>1. /\ IInv /\ Reckoned(r) /\ b \in UserBookId
      /\ user_books \in [UserBookId -> UserBook \cup {None}]
      /\ user_books' \in [UserBookId -> UserBook \cup {None}]
      /\ c \in Int /\ (user_books[b] = None => c = 0)
      /\ pc[r] \in CommitLabels /\ pc'[r] = "idle"
  BY EndType DEF CounterInv, HistoryOK, IInv, CommitLocal, TypeOK
<1>2. Writes(r, b)
  BY <1>1 DEF Writes, CommitLabels
<1>3. sum \in Nat
  BY PagesFinite
<1>4. \A n \in UserBook : n.pages \in Int
  BY IntMaxAssumption DEF UserBook, Int4
<1>5. HistoryOK'
  <2>1. stale' \subseteq Req /\ drifted' \subseteq UserBookId
    BY DEF Record
  <2>2. \A x \in UserBookId : Sum(x) \in Int
    BY PagesFinite DEF Sum
  <2>3. ASSUME NEW x \in UserBookId
        PROVE  /\ credit'[x] \in Int
               /\ user_books'[x] = None \/ x \in drifted' => credit'[x] = 0
    <3>1. user_books'[x] # None => user_books'[x].pages \in Int
      BY <1>1, <1>4
    <3>2. credit[x] \in Int
      BY DEF CounterInv, HistoryOK
    <3>3. credit'[x] = IF user_books'[x] = None \/ x \in drifted' THEN 0
                      ELSE IF \E q \in Req : Sets(q, x)
                           THEN user_books'[x].pages - Sum(x)
                           ELSE credit[x]
      BY DEF Record
    <3> QED
      BY <2>2, <3>1, <3>2, <3>3
  <2>4. DOMAIN credit' = UserBookId /\ credit' = [x \in UserBookId |-> credit'[x]]
    BY DEF Record
  <2> QED
    BY <2>1, <2>3, <2>4 DEF HistoryOK
<1>6. ASSUME NEW x \in UserBookId \ {b}, user_books'[x] # None, x \notin drifted'
      PROVE  user_books'[x].pages = credit'[x] + Sum(x)'
  BY <1>6, OtherBooks DEF CounterInv, CounterExact
<1>7. SUFFICES ASSUME user_books'[b] # None, b \notin drifted'
               PROVE  user_books'[b].pages
                         = credit'[b] + Cardinality(PagesIn(reading_sessions', b))
  BY <1>5, <1>6 DEF CounterExact, Sum
<1>8. CASE UpdateBookCommit(r)
  <2>1. Sets(r, b) /\ UNCHANGED reading_sessions
    BY <1>2, <1>8 DEF UpdateBookCommit, Sets
  <2>2. credit'[b] = user_books'[b].pages - sum
    BY <1>1, <1>7, <2>1 DEF Record, Sum
  <2>3. user_books'[b].pages \in Int
    BY <1>1, <1>4, <1>7
  <2> HIDE DEF sum, b
  <2> QED
    BY <1>3, <2>1, <2>2, <2>3 DEF sum
<1>9. CASE pc[r] # "update_book.commit"
  <2>1. \A q \in Req : ~Sets(q, b)
    BY <1>9, OneWriter DEF Sets
  <2>2. b \notin drifted /\ ~Spoils(r, b) /\ credit'[b] = c
    BY <1>1, <1>7, <2>1 DEF Record
  <2>3. ReadsHold(r) /\ (pc[r] = "delete_session.commit" => ~(seen[r] < old[r]))
    BY <1>1, <1>2, <2>2 DEF Spoils, Reckoned
  <2>4. user_books[b] # None => user_books[b].pages = c + sum
    BY <1>1, <2>2 DEF CounterInv, CounterExact, Sum
  <2> QED
    BY <1>1, <1>7, <1>9, <2>2, <2>3, <2>4, SessionsCount DEF Sum
<1>10. pc[r] = "update_book.commit" => UpdateBookCommit(r)
  BY <1>1, StepCases
  DEF AddBookCommit, UpdateBookCommit, DeleteBookCommit, CreateSessionCommit,
      UpdateSessionCommit, DeleteSessionCommit
<1> QED
  BY <1>8, <1>9, <1>10

LEMMA NextCounter ==
  ASSUME CounterInv, [Next /\ Record]_cvars
  PROVE  CounterInv'
<1>1. IInv /\ IInv'
  BY NextIInv DEF CounterInv, cvars
<1>2. CASE UNCHANGED cvars
  BY <1>1, <1>2
  DEF CounterInv, HistoryOK, CounterExact, Sum, Reckoned, ReadsHold, HasSession, cvars,
      history, vars, tables
<1>3. ASSUME NEW r \in Req, Record, Begin(r) \/ BreakDeadlock(r) \/ Lose(r)
      PROVE  CounterInv'
  <2>1. UNCHANGED tables /\ OthersKeep(r) /\ Reckoned(r)'
    <3>1. CASE Begin(r)
      <4>1. /\ UNCHANGED tables
            /\ pc'[r] \in {"add_book.catalog", "update_book.find",
                          "delete_book.delete", "create_session.find",
                          "update_session.find", "delete_session.find"}
        BY <1>1, <3>1, BeginStarts DEF Start, Goto, IInv, TypeOK
      <4> QED
        BY <1>1, <3>1, <4>1, NothingRead, OthersUntouched
    <3>2. CASE BreakDeadlock(r) \/ Lose(r)
      <4>1. Fail(r)
        BY <3>2 DEF BreakDeadlock, Lose
      <4> QED
        BY <1>1, <4>1, EndType, NothingRead, OthersUntouched DEF Fail
    <3> QED
      BY <1>3, <3>1, <3>2
  <2>2. \A q \in Req : Reckoned(q)'
    BY <1>1, <1>3, <2>1, OthersReckoned DEF tables
  <2>3. HistoryOK' /\ CounterExact'
    BY <1>3, <2>1, QuietCounter DEF tables
  <2> QED
    BY <1>1, <2>2, <2>3 DEF CounterInv
<1>4. ASSUME NEW r \in Req, Record, Step(r) PROVE CounterInv'
  <2>1. CommitLocal(r) \/ UNCHANGED <<user_books, reading_sessions>>
    BY <1>1, <1>4, StepLocal
  <2>2. OthersKeep(r)
    BY <1>1, <1>4, OthersUntouched
  <2>3. \A q \in Req \ {r} : Reckoned(q)'
    BY <1>1, <1>4, <2>1, <2>2, OthersReckoned
  <2>4. Reckoned(r)'
    <3>1. CASE pc'[r] \notin Reckoning
      BY <3>1 DEF Reckoned, ReadsHold, Reckoning
    <3>2. CASE pc'[r] \in Reckoning
      <4>1. pc'[r] # "idle"
        BY <3>2 DEF Reckoning, Picked, Logging
      <4>2. r \notin stale' => ReadsHold(r)
        BY <1>4, <3>2, StaleStays DEF CounterInv, Reckoned
      <4> QED
        BY <1>1, <1>4, <4>1, <4>2, StatementReads DEF Reckoned
    <3> QED
      BY <3>1, <3>2
  <2>5. HistoryOK' /\ CounterExact'
    BY <1>1, <1>4, <2>1, <2>2, CommitCounts, QuietCounter
  <2> QED
    BY <1>1, <2>3, <2>4, <2>5 DEF CounterInv
<1>5. ASSUME Record, UNCHANGED <<user_books, reading_sessions, pc, job, seen, old>>
      PROVE  CounterInv'
  <2>1. ASSUME NEW q \in Req PROVE Reckoned(q)'
    <3>1. pc[q] \in Reckoning /\ q \notin stale' => ReadsHold(q)
      BY <1>5, StaleStays DEF CounterInv, Reckoned
    <3>2. pc[q] \notin Reckoning => ReadsHold(q)
      BY DEF ReadsHold, Reckoning
    <3> QED
      BY <1>5, <3>1, <3>2 DEF Reckoned, ReadsHold, HasSession
  <2> QED
    BY <1>1, <1>5, <2>1, QuietCounter DEF CounterInv
<1> QED
  BY <1>2, <1>3, <1>4, <1>5 DEF Next, SoftDelete, Close, Stopped, vars, tables

\* In every interleaving of the six handlers, whatever fails: what a session
\* handler has read of its book and its session is still so when it commits,
\* or the history has the commit that made it stale.
THEOREM CounterInvariance == CSpec => []CounterInv
<1>1. CInit => CounterInv
  BY InitCounter
<1>2. CounterInv /\ [Next /\ Record]_cvars => CounterInv'
  BY NextCounter
<1> QED
  BY <1>1, <1>2, PTL DEF CSpec

\* pages_read is the sum of the sessions' pages and of what a PATCH has set
\* by hand, for every book that no stale request has written.
THEOREM CounterAccounted == CSpec => []CounterExact
<1>1. CounterInv => CounterExact
  BY DEF CounterInv
<1> QED
  BY <1>1, CounterInvariance, PTL

\* A negative pages_read comes from a lost update or from a PATCH that sets
\* it below the sum of the sessions, and from nothing else.
THEOREM CounterSigned == CSpec => []CounterNatural
<1>1. CounterInv => CounterNatural
  <2> SUFFICES ASSUME CounterInv, NEW b \in UserBookId, user_books[b] # None,
                      b \notin drifted, user_books[b].pages < 0
               PROVE  credit[b] < 0
    BY DEF CounterNatural
  <2>1. user_books[b].pages = credit[b] + Sum(b)
    BY DEF CounterInv, CounterExact
  <2>2. Sum(b) \in Nat /\ credit[b] \in Int
    BY PagesFinite DEF Sum, CounterInv, HistoryOK
  <2> QED
    BY <2>1, <2>2
<1> QED
  BY <1>1, CounterInvariance, PTL

=============================================================================
