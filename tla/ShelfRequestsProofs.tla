------------------------ MODULE ShelfRequestsProofs ------------------------
(***************************************************************************)
(* IInv is an invariant of ShelfRequests for any number of requests, rows  *)
(* and page counts; type correctness, the foreign key, the unique key and  *)
(* what a response may rely on follow from it, and every step is a step of *)
(* Shelf or a stutter.                                                     *)
(***************************************************************************)
EXTENDS ShelfRequestsInv, TLAPS

LEMMA InitIInv == Init => IInv
  BY NoneAssumption, IntMaxAssumption
  DEF Init, IInv, TypeOK, NoOrphanSessions, UniqueShelfEntry, UsedIds, Local,
      Apart, JobOK, Job, NoJob, Labels, Int4, AddLabels, Adding, Logging, Picked,
      Found, Pinning, Deleting, Editing

\* Page counts of requests are numbers the database can hold.
LEMMA PagesAreInt4 ==
  /\ \A n \in SessionPages : n \in Int /\ n \in Int4 /\ n > 0
  /\ \A n \in BookPages : n \in Int /\ n \in Int4 /\ n >= 0
<1>1. \A n \in SessionPages : n \in 1..IntMax
  BY PagesAssumption
<1>2. \A n \in BookPages : n \in 0..IntMax
  BY PagesAssumption
<1> QED
  BY <1>1, <1>2, IntMaxAssumption DEF Int4

LEMMA NoneNotSession == \A row \in Session : row # None
<1>1. \A row \in Session : row \in [book: UserBookId, pages: Int]
  BY PagesAreInt4 DEF Session
<1> QED
  BY <1>1, NoneAssumption

-----------------------------------------------------------------------------
(* A step of one request that writes no table.                              *)

\* The state of every request but r is what it was.
OthersKeep(r) == \A q \in Req \ {r} : /\ pc'[q] = pc[q]
                                      /\ job'[q] = job[q]
                                      /\ seen'[q] = seen[q]
                                      /\ old'[q] = old[q]

\* A step of request r that leaves the tables alone preserves IInv if r
\* itself may rely on what its new label says.
LEMMA Move ==
  ASSUME IInv, NEW r \in Req, TypeOK', UNCHANGED tables, used \subseteq used',
         OthersKeep(r), Local(r)',
         \A q \in Req \ {r} : Apart(r, q)' /\ Apart(q, r)'
  PROVE  IInv'
<1>1. NoOrphanSessions' /\ UniqueShelfEntry' /\ UsedIds'
  BY DEF IInv, NoOrphanSessions, UniqueShelfEntry, UsedIds, tables
<1>2. ASSUME NEW q \in Req PROVE Local(q)'
  <2>1. CASE q = r
    BY <2>1
  <2>2. CASE q # r
    <3>1. /\ Local(q) /\ pc'[q] = pc[q] /\ job'[q] = job[q]
          /\ seen'[q] = seen[q] /\ old'[q] = old[q]
      BY <2>2 DEF IInv, OthersKeep
    <3> QED
      BY <3>1 DEF Local, JobOK, HasSession, HasBook, Created, Amended, Amends, tables
  <2> QED
    BY <2>1, <2>2
<1>3. ASSUME NEW p \in Req, NEW q \in Req, p # q PROVE Apart(p, q)'
  <2>1. CASE p = r \/ q = r
    BY <2>1, <1>3
  <2>2. CASE p # r /\ q # r
    <3>1. /\ Apart(p, q)
          /\ pc'[p] = pc[p] /\ job'[p] = job[p]
          /\ pc'[q] = pc[q] /\ job'[q] = job[q]
      BY <2>2, <1>3 DEF IInv, OthersKeep
    <3> QED
      BY <3>1 DEF Apart, HasSession, tables
  <2> QED
    BY <2>1, <2>2
<1> QED
  BY <1>1, <1>2, <1>3 DEF IInv

LEMMA EndType ==
  ASSUME IInv, NEW r \in Req, End(r)
  PROVE  /\ pc' \in [Req -> Labels] /\ job' \in [Req -> Job]
         /\ seen' \in [Req -> Int4] /\ old' \in [Req -> {0} \cup SessionPages]
         /\ pc'[r] = "idle" /\ OthersKeep(r)
BY IntMaxAssumption
DEF IInv, TypeOK, End, Job, NoJob, Labels, Int4, OthersKeep

\* A request that ends holds nothing and relies on nothing.
LEMMA IdleIsFree ==
  ASSUME NEW r \in Req, NEW q \in Req, pc'[r] = "idle"
  PROVE  Local(r)' /\ Apart(r, q)' /\ Apart(q, r)'
BY DEF Local, JobOK, Apart, AddLabels, Adding, Logging, Picked, Found, Pinning,
       Deleting, Editing

\* Rolling back, for whatever reason, preserves IInv.
LEMMA FailKeeps ==
  ASSUME IInv, NEW r \in Req, Fail(r)
  PROVE  IInv'
<1>1. pc'[r] = "idle" /\ OthersKeep(r) /\ TypeOK'
  BY EndType DEF IInv, TypeOK, Fail, tables
<1> QED
  BY <1>1, IdleIsFree, Move DEF Fail, tables

\* Going on to the next statement, with nothing else changed.
LEMMA GotoKeeps ==
  ASSUME IInv, NEW r \in Req, NEW label \in Labels,
         Goto(r, label), UNCHANGED <<tables, used, open, job, seen, old>>,
         Local(r)', \A q \in Req \ {r} : Apart(r, q)' /\ Apart(q, r)'
  PROVE  IInv'
<1>1. TypeOK' /\ OthersKeep(r)
  BY DEF IInv, TypeOK, Goto, tables, OthersKeep
<1> QED
  BY <1>1, Move

\* A request that commits and ends preserves IInv if the tables stay
\* consistent and the other requests keep what they rely on.
LEMMA CommitKeeps ==
  ASSUME IInv, NEW r \in Req, TypeOK', End(r),
         NoOrphanSessions', UniqueShelfEntry', UsedIds',
         \A q \in Req \ {r} : Local(q)',
         \A q \in Req \ {r} : pc[q] \in Editing /\ HasSession(q)' => HasSession(q)
  PROVE  IInv'
<1>1. pc'[r] = "idle" /\ OthersKeep(r)
  BY EndType
<1>2. \A q \in Req : Local(q)'
  BY <1>1, IdleIsFree
<1>3. ASSUME NEW p \in Req, NEW q \in Req, p # q PROVE Apart(p, q)'
  <2>1. CASE p = r \/ q = r
    BY <2>1, <1>1, IdleIsFree
  <2>2. CASE p # r /\ q # r
    <3>1. /\ Apart(p, q)
          /\ pc'[p] = pc[p] /\ job'[p] = job[p]
          /\ pc'[q] = pc[q] /\ job'[q] = job[q]
      BY <2>2, <1>1, <1>3 DEF IInv, OthersKeep
    <3>2. pc[p] \in Editing /\ HasSession(p)' => HasSession(p)
      BY <2>2
    <3> QED
      BY <3>1, <3>2 DEF Apart
  <2> QED
    BY <2>1, <2>2
<1> QED
  BY <1>2, <1>3 DEF IInv

\* The same books are on the same shelves, whatever their page counts.
SameRows ==
    \A b \in UserBookId :
       /\ user_books'[b] = None <=> user_books[b] = None
       /\ user_books[b] # None => /\ user_books'[b].user = user_books[b].user
                                 /\ user_books'[b].book = user_books[b].book

LEMMA SetPages ==
  ASSUME IInv, NEW b \in UserBookId, user_books[b] # None, NEW n \in Int4,
         user_books' = [user_books EXCEPT ![b].pages = n]
  PROVE  user_books' \in [UserBookId -> UserBook \cup {None}] /\ SameRows
<1>1. user_books[b] \in UserBook
  BY DEF IInv, TypeOK
<1>2. /\ user_books'[b] \in UserBook
      /\ user_books'[b].user = user_books[b].user
      /\ user_books'[b].book = user_books[b].book
  BY <1>1 DEF IInv, TypeOK, UserBook
<1>3. user_books'[b] # None
  BY <1>2, NoneAssumption, IntMaxAssumption DEF UserBook, Int4
<1> QED
  BY <1>2, <1>3 DEF IInv, TypeOK, SameRows

LEMMA SameRowsKeep ==
  ASSUME IInv, SameRows
  PROVE  /\ UniqueShelfEntry'
         /\ \A u, c : HasBook(u, c)' <=> HasBook(u, c)
BY DEF SameRows, IInv, UniqueShelfEntry, HasBook

\* Another request keeps what it relies on if the commit of r leaves the
\* same books and does not touch a session that request has picked.
LEMMA LocalKeeps ==
  ASSUME IInv, NEW r \in Req, NEW q \in Req \ {r}, End(r), SameRows, UNCHANGED used,
         pc[q] \in Picked \cup Logging /\ HasSession(q)'
            => /\ HasSession(q)
               /\ reading_sessions'[job[q].sid].book
                     = reading_sessions[job[q].sid].book,
         pc[q] = "update_session.commit" => HasSession(q)'
  PROVE  Local(q)'
<1>1. pc'[q] = pc[q] /\ job'[q] = job[q] /\ seen'[q] = seen[q] /\ old'[q] = old[q]
  BY EndType DEF OthersKeep
<1>2. Local(q)
  BY DEF IInv
<1>3. HasBook(job[q].user, job[q].book)' <=> HasBook(job[q].user, job[q].book)
  BY <1>1, SameRowsKeep
<1> QED
  BY <1>1, <1>2, <1>3
  DEF Local, JobOK, SameRows, Created, Amends, Amended, AddLabels, Adding, Logging,
      Picked, Found, Pinning, Deleting, Editing

-----------------------------------------------------------------------------
(* add_book                                                                 *)

LEMMA AddBookKeeps ==
  ASSUME IInv, NEW r \in Req, AddBook(r)
  PROVE  IInv'
<1> USE DEF AddLabels, Adding, Logging, Picked, Found, Pinning, Deleting, Editing
<1>1. Local(r) /\ \A q \in Req \ {r} : Local(q) /\ Apart(r, q) /\ Apart(q, r)
  BY DEF IInv
<1>2. pc \in [Req -> Labels] /\ job \in [Req -> Job]
  BY DEF IInv, TypeOK
<1>3. CASE AddBookCatalog(r)
  <2> SUFFICES ASSUME ~Fail(r) PROVE IInv'
    BY FailKeeps
  <2>1. /\ pc[r] = "add_book.catalog" /\ Goto(r, "add_book.exists")
        /\ UNCHANGED <<tables, used, open, job, seen, old>>
    BY <1>3 DEF AddBookCatalog, Check
  <2>2. pc'[r] = "add_book.exists" /\ \A q \in Req \ {r} : pc'[q] = pc[q]
    BY <2>1, <1>2 DEF Goto
  <2>3. Local(r)'
    BY <2>1, <2>2, <1>1 DEF Local, JobOK
  <2>4. \A q \in Req \ {r} : Apart(r, q)' /\ Apart(q, r)'
    BY <2>1, <2>2, <1>1 DEF Apart
  <2> QED
    BY <2>1, <2>3, <2>4, GotoKeeps DEF Labels
<1>4. CASE AddBookExists(r)
  <2> SUFFICES ASSUME ~Fail(r) PROVE IInv'
    BY FailKeeps
  <2>1. /\ pc[r] = "add_book.exists" /\ Goto(r, "add_book.insert")
        /\ UNCHANGED <<tables, used, open, job, seen, old>>
    BY <1>4 DEF AddBookExists, Check
  <2>2. pc'[r] = "add_book.insert" /\ \A q \in Req \ {r} : pc'[q] = pc[q]
    BY <2>1, <1>2 DEF Goto
  <2>3. Local(r)'
    BY <2>1, <2>2, <1>1 DEF Local, JobOK
  <2>4. \A q \in Req \ {r} : Apart(r, q)' /\ Apart(q, r)'
    BY <2>1, <2>2, <1>1 DEF Apart
  <2> QED
    BY <2>1, <2>3, <2>4, GotoKeeps DEF Labels
<1>5. CASE AddBookInsert(r)
  <2>1. CASE Fail(r)
    BY <2>1, FailKeeps
  <2>2. CASE ~Fail(r)
    <3>1. PICK b \in UserBookId \ used :
             /\ pc[r] = "add_book.insert" /\ Free(r)
             /\ ~HasBook(job[r].user, job[r].book)
             /\ used' = used \cup {b} /\ job' = [job EXCEPT ![r].id = b]
             /\ Goto(r, "add_book.respond")
             /\ UNCHANGED <<tables, open, seen, old>>
      BY <1>5, <2>2 DEF AddBookInsert
    <3>2. /\ pc'[r] = "add_book.respond"
          /\ job'[r].id = b /\ job'[r].user = job[r].user
          /\ job'[r].book = job[r].book
          /\ \A q \in Req \ {r} : pc'[q] = pc[q] /\ job'[q] = job[q]
      BY <3>1, <1>2 DEF Goto, Job
    <3>3. TypeOK' /\ OthersKeep(r)
      <4>1. job[r] \in Job /\ b \in UserBookId
        BY DEF IInv, TypeOK
      <4>2. [job[r] EXCEPT !.id = b] \in Job
        BY <4>1 DEF Job
      <4>3. job' \in [Req -> Job]
        BY <3>1, <4>2 DEF IInv, TypeOK
      <4>4. pc' \in [Req -> Labels]
        BY <3>1 DEF IInv, TypeOK, Goto, Labels
      <4>5. TypeOK'
        BY <3>1, <4>3, <4>4 DEF IInv, TypeOK, tables
      <4> QED
        BY <3>1, <3>2, <4>5 DEF OthersKeep, tables
    <3>4. Local(r)'
      BY <3>1, <3>2, <1>1 DEF Local, JobOK, IInv, UsedIds, HasBook, tables
    <3>5. ASSUME NEW q \in Req \ {r} PROVE Apart(r, q)' /\ Apart(q, r)'
      <4>1. pc[q] \in Adding => job[q].user # job[r].user \/ job[q].book # job[r].book
        BY <3>1, <3>5 DEF Free, Waits, KeyLock
      <4>2. pc[q] \in Adding \cup Found => job[q].id # b
        BY <3>1, <1>1, <3>5 DEF Local
      <4> QED
        BY <4>1, <4>2, <3>2, <3>5 DEF Apart
    <3> QED
      BY <3>1, <3>3, <3>4, <3>5, Move
  <2> QED
    BY <2>1, <2>2
<1>6. CASE AddBookRespond(r)
  <2> SUFFICES ASSUME ~Fail(r) PROVE IInv'
    BY FailKeeps
  <2>1. /\ pc[r] = "add_book.respond" /\ Goto(r, "add_book.commit")
        /\ UNCHANGED <<tables, used, open, job, seen, old>>
    BY <1>6 DEF AddBookRespond, Check
  <2>2. pc'[r] = "add_book.commit" /\ \A q \in Req \ {r} : pc'[q] = pc[q]
    BY <2>1, <1>2 DEF Goto
  <2>3. Local(r)'
    BY <2>1, <2>2, <1>1 DEF Local, JobOK, HasBook, tables
  <2>4. \A q \in Req \ {r} : Apart(r, q)' /\ Apart(q, r)'
    BY <2>1, <2>2, <1>1 DEF Apart
  <2> QED
    BY <2>1, <2>3, <2>4, GotoKeeps DEF Labels
<1>7. CASE AddBookCommit(r)
  <2> DEFINE b == job[r].id
             row == [user |-> job[r].user, book |-> job[r].book, pages |-> 0]
  <2>1. /\ pc[r] = "add_book.commit" /\ End(r)
        /\ user_books' = [user_books EXCEPT ![b] = row]
        /\ UNCHANGED <<catalog, reading_sessions, used, open>>
    BY <1>7 DEF AddBookCommit
  <2>2. /\ b \in UserBookId /\ b \in used /\ row \in UserBook /\ row # None
        /\ user_books[b] = None /\ ~HasBook(job[r].user, job[r].book)
    BY <2>1, <1>1, IntMaxAssumption, NoneAssumption DEF Local, JobOK, UserBook, Int4
  <2>3. TypeOK'
    BY <2>1, <2>2, EndType DEF IInv, TypeOK
  <2>4. NoOrphanSessions' /\ UsedIds'
    BY <2>1, <2>2 DEF IInv, TypeOK, NoOrphanSessions, UsedIds
  <2>5. UniqueShelfEntry'
    BY <2>1, <2>2 DEF IInv, TypeOK, UniqueShelfEntry, HasBook
  <2>6. ASSUME NEW q \in Req \ {r} PROVE Local(q)' /\ (HasSession(q)' => HasSession(q))
    <3>1. pc'[q] = pc[q] /\ job'[q] = job[q] /\ seen'[q] = seen[q] /\ old'[q] = old[q]
      BY <2>1, <2>6 DEF IInv, TypeOK, End
    <3>2. pc[q] \in Adding \cup Found => job[q].id # b
      BY <2>1, <2>6, <1>1 DEF Apart
    <3>3. pc[q] \in Adding => ~HasBook(job[q].user, job[q].book)'
      BY <2>1, <2>2, <2>6, <3>1, <1>1 DEF Apart, Local, HasBook, IInv, TypeOK
    <3>4. pc[q] \in Adding \cup Found => user_books'[job[q].id] = user_books[job[q].id]
      BY <2>1, <2>2, <3>2, <2>6, <1>1 DEF Local, JobOK, IInv, TypeOK
    <3> QED
      BY <2>1, <2>6, <3>1, <3>3, <3>4, <1>1
      DEF Local, JobOK, HasSession, Created, Amends, Amended
  <2> QED
    BY <2>1, <2>3, <2>4, <2>5, <2>6, CommitKeeps
<1> QED
  BY <1>3, <1>4, <1>5, <1>6, <1>7 DEF AddBook

-----------------------------------------------------------------------------
(* update_book                                                              *)

LEMMA UpdateBookKeeps ==
  ASSUME IInv, NEW r \in Req, UpdateBook(r)
  PROVE  IInv'
<1> USE DEF AddLabels, Adding, Logging, Picked, Found, Pinning, Deleting, Editing
<1>1. Local(r) /\ \A q \in Req \ {r} : Local(q) /\ Apart(r, q) /\ Apart(q, r)
  BY DEF IInv
<1>2. pc \in [Req -> Labels] /\ job \in [Req -> Job]
  BY DEF IInv, TypeOK
<1>3. CASE UpdateBookFind(r)
  <2> SUFFICES ASSUME ~Fail(r) PROVE IInv'
    BY FailKeeps
  <2> DEFINE b == job[r].id
  <2>1. /\ pc[r] = "update_book.find" /\ Mine(r)
        /\ job' = [job EXCEPT ![r].book = user_books[b].book]
        /\ Goto(r, "update_book.catalog")
        /\ UNCHANGED <<tables, used, open, seen, old>>
    BY <1>3 DEF UpdateBookFind
  <2>2. /\ b \in UserBookId /\ b \in used /\ user_books[b] # None
        /\ user_books[b].user = job[r].user /\ user_books[b].book \in Book
    BY <2>1, <1>1 DEF Local, JobOK, Mine, IInv, UsedIds, TypeOK, UserBook
  <2>3. /\ pc'[r] = "update_book.catalog"
        /\ job'[r].id = b /\ job'[r].user = job[r].user
        /\ job'[r].book \in Book /\ job'[r].pages = job[r].pages
        /\ \A q \in Req \ {r} : pc'[q] = pc[q] /\ job'[q] = job[q]
    BY <2>1, <2>2, <1>2 DEF Goto, Job
  <2>4. TypeOK' /\ OthersKeep(r)
    <3>1. job' \in [Req -> Job]
      BY <2>1, <2>2, <1>2 DEF Job
    <3>2. pc' \in [Req -> Labels]
      BY <2>1, <1>2 DEF Goto, Labels
    <3> QED
      BY <3>1, <3>2, <2>1, <2>3 DEF IInv, TypeOK, OthersKeep, tables
  <2>5. Local(r)'
    BY <2>1, <2>2, <2>3, <1>1 DEF Local, JobOK, tables
  <2>6. \A q \in Req \ {r} : Apart(r, q)' /\ Apart(q, r)'
    BY <2>2, <2>3, <1>1 DEF Apart, Local
  <2> QED
    BY <2>1, <2>4, <2>5, <2>6, Move
<1>4. CASE UpdateBookCatalog(r)
  <2> SUFFICES ASSUME ~Fail(r) PROVE IInv'
    BY FailKeeps
  <2>1. /\ pc[r] = "update_book.catalog" /\ Goto(r, "update_book.write")
        /\ UNCHANGED <<tables, used, open, job, seen, old>>
    BY <1>4 DEF UpdateBookCatalog, Check
  <2>2. pc'[r] = "update_book.write" /\ \A q \in Req \ {r} : pc'[q] = pc[q]
    BY <2>1, <1>2 DEF Goto
  <2>3. Local(r)'
    BY <2>1, <2>2, <1>1 DEF Local, JobOK, tables
  <2>4. \A q \in Req \ {r} : Apart(r, q)' /\ Apart(q, r)'
    BY <2>1, <2>2, <1>1 DEF Apart
  <2> QED
    BY <2>1, <2>3, <2>4, GotoKeeps DEF Labels
<1>5. CASE UpdateBookWrite(r)
  <2> SUFFICES ASSUME ~Fail(r) PROVE IInv'
    BY FailKeeps
  <2>1. /\ pc[r] = "update_book.write" /\ Goto(r, "update_book.respond") /\ Mine(r) /\ Free(r)
        /\ UNCHANGED <<tables, used, open, job, seen, old>>
    BY <1>5 DEF UpdateBookWrite, Check
  <2>2. pc'[r] = "update_book.respond" /\ \A q \in Req \ {r} : pc'[q] = pc[q]
    BY <2>1, <1>2 DEF Goto
  <2>3. Local(r)'
    BY <2>1, <2>2, <1>1 DEF Local, JobOK, Mine, tables
  <2>4. \A q \in Req \ {r} : Apart(r, q)' /\ Apart(q, r)'
    BY <2>1, <2>2, <1>1 DEF Apart, Free, Waits, DeleteLock
  <2> QED
    BY <2>1, <2>3, <2>4, GotoKeeps DEF Labels
<1>6. CASE UpdateBookRespond(r)
  <2> SUFFICES ASSUME ~Fail(r) PROVE IInv'
    BY FailKeeps
  <2>1. /\ pc[r] = "update_book.respond" /\ Goto(r, "update_book.commit")
        /\ UNCHANGED <<tables, used, open, job, seen, old>>
    BY <1>6 DEF UpdateBookRespond, Check
  <2>2. pc'[r] = "update_book.commit" /\ \A q \in Req \ {r} : pc'[q] = pc[q]
    BY <2>1, <1>2 DEF Goto
  <2>3. Local(r)'
    BY <2>1, <2>2, <1>1 DEF Local, JobOK, tables
  <2>4. \A q \in Req \ {r} : Apart(r, q)' /\ Apart(q, r)'
    BY <2>1, <2>2, <1>1 DEF Apart
  <2> QED
    BY <2>1, <2>3, <2>4, GotoKeeps DEF Labels
<1>7. CASE UpdateBookCommit(r)
  <2> DEFINE b == job[r].id
  <2>1. /\ pc[r] = "update_book.commit" /\ End(r)
        /\ user_books' = IF job[r].pages = None THEN user_books
                         ELSE [user_books EXCEPT ![b].pages = job[r].pages]
        /\ UNCHANGED <<catalog, reading_sessions, used, open>>
    BY <1>7 DEF UpdateBookCommit
  <2>2. b \in UserBookId /\ user_books[b] # None
    BY <2>1, <1>1 DEF Local, JobOK
  <2>3. job[r].pages # None => job[r].pages \in Int4
    BY <2>1, <1>1, PagesAreInt4 DEF Local, JobOK
  <2>4. user_books' \in [UserBookId -> UserBook \cup {None}] /\ SameRows
    <3>1. CASE job[r].pages = None
      BY <3>1, <2>1 DEF IInv, TypeOK, SameRows
    <3>2. CASE job[r].pages # None
      BY <3>2, <2>1, <2>2, <2>3, SetPages
    <3> QED
      BY <3>1, <3>2
  <2>5. TypeOK'
    BY <2>1, <2>4, EndType DEF IInv, TypeOK
  <2>6. NoOrphanSessions' /\ UsedIds'
    BY <2>1, <2>4 DEF IInv, TypeOK, Session, NoOrphanSessions, UsedIds, SameRows
  <2>7. \A q \in Req \ {r} : HasSession(q)' <=> reading_sessions[job[q].sid] # None
    BY <2>1, EndType DEF HasSession, OthersKeep
  <2>8. \A q \in Req \ {r} : Local(q)'
    BY <2>1, <2>4, <2>7, <1>1, LocalKeeps DEF HasSession, Local
  <2> QED
    BY <2>1, <2>4, <2>5, <2>6, <2>7, <2>8, SameRowsKeep, CommitKeeps DEF HasSession
<1> QED
  BY <1>3, <1>4, <1>5, <1>6, <1>7 DEF UpdateBook

-----------------------------------------------------------------------------
(* delete_book *)

LEMMA DeleteBookKeeps ==
  ASSUME IInv, NEW r \in Req, DeleteBook(r)
  PROVE  IInv'
<1> USE DEF AddLabels, Adding, Logging, Picked, Found, Pinning, Deleting, Editing
<1>1. Local(r) /\ \A q \in Req \ {r} : Local(q) /\ Apart(r, q) /\ Apart(q, r)
  BY DEF IInv
<1>2. pc \in [Req -> Labels] /\ job \in [Req -> Job]
  BY DEF IInv, TypeOK
<1>3. CASE DeleteBookDelete(r)
  <2> SUFFICES ASSUME ~Fail(r) PROVE IInv'
    BY FailKeeps
  <2>1. /\ pc[r] = "delete_book.delete" /\ Goto(r, "delete_book.cascade") /\ Mine(r) /\ Free(r)
        /\ UNCHANGED <<tables, used, open, job, seen, old>>
    BY <1>3 DEF DeleteBookDelete, Check
  <2>2. pc'[r] = "delete_book.cascade" /\ \A q \in Req \ {r} : pc'[q] = pc[q]
    BY <2>1, <1>2 DEF Goto
  <2>3. Local(r)'
    BY <2>1, <2>2, <1>1 DEF Local, JobOK, Mine, IInv, UsedIds, tables
  <2>4. \A q \in Req \ {r} : Apart(r, q)' /\ Apart(q, r)'
    BY <2>1, <2>2, <1>1 DEF Apart, Local, Mine, Free, Waits, ShareLock, WriteLock, DeleteLock
  <2> QED
    BY <2>1, <2>3, <2>4, GotoKeeps DEF Labels
<1>4. CASE DeleteBookCascade(r)
  <2> SUFFICES ASSUME ~Fail(r) PROVE IInv'
    BY FailKeeps
  <2>1. /\ pc[r] = "delete_book.cascade" /\ Goto(r, "delete_book.commit") /\ Free(r)
        /\ UNCHANGED <<tables, used, open, job, seen, old>>
    BY <1>4 DEF DeleteBookCascade, Check
  <2>2. pc'[r] = "delete_book.commit" /\ \A q \in Req \ {r} : pc'[q] = pc[q]
    BY <2>1, <1>2 DEF Goto
  <2>3. Local(r)'
    BY <2>1, <2>2, <1>1 DEF Local, JobOK, tables
  <2>4. \A q \in Req \ {r} : Apart(r, q)' /\ Apart(q, r)'
    BY <2>1, <2>2, <1>1 DEF Apart, Local, JobOK, HasSession, Free, Waits, SessionLock, SessionsOf, tables
  <2> QED
    BY <2>1, <2>3, <2>4, GotoKeeps DEF Labels
<1>5. CASE DeleteBookCommit(r)
  <2> DEFINE b == job[r].id
  <2>1. /\ pc[r] = "delete_book.commit" /\ End(r)
        /\ user_books' = [user_books EXCEPT ![b] = None]
        /\ reading_sessions' = [s \in SessionId |->
              IF s \in SessionsOf(b) THEN None ELSE reading_sessions[s]]
        /\ UNCHANGED <<catalog, used, open>>
    BY <1>5 DEF DeleteBookCommit
  <2>2. b \in UserBookId
    BY <2>1, <1>1 DEF Local, JobOK
  <2>3. TypeOK'
    BY <2>1, <2>2, EndType DEF IInv, TypeOK
  <2>4. NoOrphanSessions' /\ UniqueShelfEntry' /\ UsedIds'
    BY <2>1, <2>2
    DEF IInv, TypeOK, NoOrphanSessions, UniqueShelfEntry, UsedIds, SessionsOf
  <2>5. ASSUME NEW q \in Req \ {r} PROVE Local(q)' /\ (pc[q] \in Editing /\ HasSession(q)' => HasSession(q))
    <3>1. pc'[q] = pc[q] /\ job'[q] = job[q] /\ seen'[q] = seen[q] /\ old'[q] = old[q]
      BY <2>1, EndType DEF OthersKeep
    <3>2. ~HasBook(job[q].user, job[q].book) => ~HasBook(job[q].user, job[q].book)'
      BY <2>1, <3>1 DEF HasBook, IInv, TypeOK
    <3>3. pc[q] \in Picked \cup Logging /\ HasSession(q)'
          => HasSession(q) /\ reading_sessions'[job[q].sid] = reading_sessions[job[q].sid]
      BY <2>1, <3>1, <1>1 DEF HasSession, Local, JobOK
    <3>4. pc[q] = "update_session.commit" => HasSession(q)'
      BY <2>1, <3>1, <1>1 DEF HasSession, SessionsOf, Local, JobOK, Apart
    <3>5. pc[q] \in Found \cup Adding =>
             \/ user_books'[job[q].id] = None
             \/ user_books'[job[q].id] = user_books[job[q].id]
      BY <2>1, <1>1 DEF Local, JobOK, IInv, TypeOK
    <3>6. pc[q] \in Pinning \cup Deleting =>
             user_books'[job[q].id] = user_books[job[q].id]
      BY <2>1, <1>1 DEF Local, JobOK, IInv, TypeOK, Apart
    <3> QED
      BY <2>1, <3>1, <3>2, <3>3, <3>4, <3>5, <3>6, <1>1
      DEF Local, JobOK, Created, Amends, Amended
  <2> QED
    BY <2>1, <2>3, <2>4, <2>5, CommitKeeps
<1> QED
  BY <1>3, <1>4, <1>5 DEF DeleteBook

-----------------------------------------------------------------------------
(* create_session *)

\* The SELECT that the session handlers start with.
LEMMA FindBookKeeps ==
  ASSUME IInv, NEW r \in Req, NEW label, FindBook(r, label),
         \/ pc[r] = "create_session.find" /\ label = "create_session.insert"
         \/ pc[r] = "update_session.find" /\ label = "update_session.session"
         \/ pc[r] = "delete_session.find" /\ label = "delete_session.session"
  PROVE  IInv'
<1> USE DEF AddLabels, Adding, Logging, Picked, Found, Pinning, Deleting, Editing
<1> SUFFICES ASSUME ~Fail(r) PROVE IInv'
  BY FailKeeps
<1>1. Local(r) /\ \A q \in Req \ {r} : Local(q) /\ Apart(r, q) /\ Apart(q, r)
  BY DEF IInv
<1>2. /\ Mine(r) /\ Goto(r, label)
      /\ seen' = [seen EXCEPT ![r] = user_books[job[r].id].pages]
      /\ UNCHANGED <<tables, used, open, job, old>>
  BY DEF FindBook
<1>3. /\ job[r].id \in UserBookId /\ job[r].id \in used
      /\ user_books[job[r].id] # None /\ user_books[job[r].id].user = job[r].user
      /\ user_books[job[r].id].pages \in Int4
  BY <1>1, <1>2 DEF Local, JobOK, Mine, IInv, UsedIds, TypeOK, UserBook
<1>4. TypeOK' /\ OthersKeep(r) /\ pc'[r] = label
  <2>1. pc' \in [Req -> Labels] /\ pc'[r] = label /\ \A q \in Req \ {r} : pc'[q] = pc[q]
    BY <1>2 DEF Goto, Labels, IInv, TypeOK
  <2>2. seen' \in [Req -> Int4] /\ \A q \in Req \ {r} : seen'[q] = seen[q]
    BY <1>2, <1>3 DEF IInv, TypeOK
  <2> QED
    BY <1>2, <2>1, <2>2 DEF IInv, TypeOK, OthersKeep, tables
<1>5. Local(r)'
  BY <1>1, <1>2, <1>3, <1>4 DEF Local, JobOK, tables
<1>6. \A q \in Req \ {r} : Apart(r, q)' /\ Apart(q, r)'
  BY <1>1, <1>2, <1>3, <1>4 DEF Apart, Local, OthersKeep
<1> QED
  BY <1>2, <1>4, <1>5, <1>6, Move

LEMMA CreateSessionKeeps ==
  ASSUME IInv, NEW r \in Req, CreateSession(r)
  PROVE  IInv'
<1> USE DEF AddLabels, Adding, Logging, Picked, Found, Pinning, Deleting, Editing
<1>1. Local(r) /\ \A q \in Req \ {r} : Local(q) /\ Apart(r, q) /\ Apart(q, r)
  BY DEF IInv
<1>2. pc \in [Req -> Labels] /\ job \in [Req -> Job]
  BY DEF IInv, TypeOK
<1>3. CASE CreateSessionFind(r)
  <2>1. pc[r] = "create_session.find" /\ FindBook(r, "create_session.insert")
    BY <1>3 DEF CreateSessionFind
  <2> QED
    BY <2>1, FindBookKeeps DEF Labels
<1>4. CASE CreateSessionInsert(r)
  <2> SUFFICES ASSUME ~Fail(r) PROVE IInv'
    BY FailKeeps
  <2>1. PICK s \in SessionId \ used :
           /\ pc[r] = "create_session.insert" /\ Free(r)
           /\ user_books[job[r].id] # None
           /\ used' = used \cup {s} /\ job' = [job EXCEPT ![r].sid = s]
           /\ Goto(r, "create_session.write")
           /\ UNCHANGED <<tables, open, seen, old>>
    BY <1>4 DEF CreateSessionInsert
  <2>2. /\ pc'[r] = "create_session.write"
        /\ job'[r].sid = s /\ job'[r].user = job[r].user
        /\ job'[r].id = job[r].id /\ job'[r].pages = job[r].pages
        /\ \A q \in Req \ {r} : pc'[q] = pc[q] /\ job'[q] = job[q]
    BY <2>1, <1>2 DEF Goto, Job
  <2>3. TypeOK' /\ OthersKeep(r)
    <3>1. job' \in [Req -> Job]
      BY <2>1, <1>2 DEF Job
    <3>2. pc' \in [Req -> Labels]
      BY <2>1, <1>2 DEF Goto, Labels
    <3> QED
      BY <3>1, <3>2, <2>1, <2>2 DEF IInv, TypeOK, OthersKeep, tables
  <2>4. Local(r)'
    BY <2>1, <2>2, <1>1 DEF Local, JobOK, HasSession, IInv, UsedIds, tables
  <2>5. ASSUME NEW q \in Req \ {r} PROVE Apart(r, q)' /\ Apart(q, r)'
    <3>1. pc[q] \in Logging \cup Picked => job[q].sid # s
      BY <2>1, <1>1, <2>5 DEF Local
    <3>2. pc[q] \in Deleting => job[q].id # job[r].id
      BY <2>1, <2>5 DEF Free, Waits, DeleteLock
    <3> QED
      BY <3>1, <3>2, <2>1, <2>2, <2>5, <1>1 DEF Apart
  <2> QED
    BY <2>1, <2>3, <2>4, <2>5, Move
<1>5. CASE CreateSessionWrite(r)
  <2> SUFFICES ASSUME ~Fail(r) PROVE IInv'
    BY FailKeeps
  <2>1. /\ pc[r] = "create_session.write" /\ Goto(r, "create_session.commit") /\ Created(r) \in Int4
        /\ UNCHANGED <<tables, used, open, job, seen, old>>
    BY <1>5 DEF CreateSessionWrite, Check
  <2>2. pc'[r] = "create_session.commit" /\ \A q \in Req \ {r} : pc'[q] = pc[q]
    BY <2>1, <1>2 DEF Goto
  <2>3. Local(r)'
    BY <2>1, <2>2, <1>1 DEF Local, JobOK, HasSession, Created, tables
  <2>4. \A q \in Req \ {r} : Apart(r, q)' /\ Apart(q, r)'
    BY <2>1, <2>2, <1>1 DEF Apart
  <2> QED
    BY <2>1, <2>3, <2>4, GotoKeeps DEF Labels
<1>6. CASE CreateSessionCommit(r)
  <2> DEFINE b == job[r].id
             s == job[r].sid
             row == [book |-> b, pages |-> job[r].pages]
  <2>1. /\ pc[r] = "create_session.commit" /\ End(r)
        /\ user_books' = [user_books EXCEPT ![b].pages = Created(r)]
        /\ reading_sessions' = [reading_sessions EXCEPT ![s] = row]
        /\ UNCHANGED <<catalog, used, open>>
    BY <1>6 DEF CreateSessionCommit
  <2>2. /\ b \in UserBookId /\ user_books[b] # None
        /\ s \in SessionId /\ s \in used /\ Created(r) \in Int4
        /\ job[r].pages \in SessionPages
    BY <2>1, <1>1 DEF Local, JobOK
  <2>3. row \in Session /\ row # None
    <3>1. job[r].pages \in Int
      BY <2>2, PagesAreInt4
    <3>2. row \in [book: UserBookId, pages: Int]
      BY <2>2, <3>1
    <3> QED
      BY <2>2, <3>2, NoneAssumption DEF Session
  <2>4. user_books' \in [UserBookId -> UserBook \cup {None}] /\ SameRows
    BY <2>1, <2>2, SetPages
  <2>5. TypeOK'
    BY <2>1, <2>2, <2>3, <2>4, EndType DEF IInv, TypeOK
  <2>6. NoOrphanSessions' /\ UsedIds'
    BY <2>1, <2>2, <2>4
    DEF IInv, TypeOK, Session, NoOrphanSessions, UsedIds, SameRows
  <2>7. ASSUME NEW q \in Req \ {r}, pc[q] \in Picked \cup Logging
        PROVE  reading_sessions'[job[q].sid] = reading_sessions[job[q].sid]
               /\ (HasSession(q)' <=> HasSession(q))
    <3>1. job[q].sid # s /\ job[q].sid \in SessionId /\ job'[q] = job[q]
      BY <2>1, <2>7, <1>1, EndType DEF Apart, Local, JobOK, OthersKeep
    <3> QED
      BY <3>1, <2>1 DEF HasSession
  <2>8. ASSUME NEW q \in Req \ {r} PROVE Local(q)'
    <3>1. pc[q] = "update_session.commit" => HasSession(q)'
      BY <2>7, <2>8, <1>1 DEF Local
    <3> QED
      BY <2>1, <2>4, <2>7, <2>8, <3>1, LocalKeeps
  <2> QED
    BY <2>1, <2>4, <2>5, <2>6, <2>7, <2>8, SameRowsKeep, CommitKeeps
<1> QED
  BY <1>3, <1>4, <1>5, <1>6 DEF CreateSession

-----------------------------------------------------------------------------
(* update_session *)

\* The SELECT of the session, which must be one of the book in the path.
LEMMA FindSessionKeeps ==
  ASSUME IInv, NEW r \in Req, NEW label, FindSession(r, label),
         \/ pc[r] = "update_session.session" /\ label = "update_session.edit"
         \/ pc[r] = "delete_session.session" /\ label = "delete_session.erase"
  PROVE  IInv'
<1> USE DEF AddLabels, Adding, Logging, Picked, Found, Pinning, Deleting, Editing
<1> SUFFICES ASSUME ~Fail(r) PROVE IInv'
  BY FailKeeps
<1>1. Local(r) /\ \A q \in Req \ {r} : Local(q) /\ Apart(r, q) /\ Apart(q, r)
  BY DEF IInv
<1>2. /\ HasSession(r) /\ reading_sessions[job[r].sid].book = job[r].id
      /\ old' = [old EXCEPT ![r] = reading_sessions[job[r].sid].pages]
      /\ Goto(r, label)
      /\ UNCHANGED <<tables, used, open, job, seen>>
  BY DEF FindSession
<1>3. /\ job[r].sid \in SessionId /\ job[r].sid \in used
      /\ reading_sessions[job[r].sid].pages \in SessionPages
  BY <1>1, <1>2 DEF Local, JobOK, HasSession, IInv, UsedIds, TypeOK, Session
<1>4. TypeOK' /\ OthersKeep(r) /\ pc'[r] = label
  <2>1. pc' \in [Req -> Labels] /\ pc'[r] = label /\ \A q \in Req \ {r} : pc'[q] = pc[q]
    BY <1>2 DEF Goto, Labels, IInv, TypeOK
  <2>2. old' \in [Req -> {0} \cup SessionPages] /\ \A q \in Req \ {r} : old'[q] = old[q]
    BY <1>2, <1>3 DEF IInv, TypeOK
  <2> QED
    BY <1>2, <2>1, <2>2 DEF IInv, TypeOK, OthersKeep, tables
<1>5. Local(r)'
  BY <1>1, <1>2, <1>3, <1>4 DEF Local, JobOK, HasSession, tables
<1>6. ASSUME NEW q \in Req \ {r} PROVE Apart(r, q)' /\ Apart(q, r)'
  <2>1. pc[q] \in Logging => job[q].sid # job[r].sid
    BY <1>1, <1>2, <1>6 DEF Local, HasSession
  <2> QED
    BY <2>1, <1>1, <1>2, <1>4, <1>6 DEF Apart, OthersKeep
<1> QED
  BY <1>2, <1>4, <1>5, <1>6, Move

LEMMA UpdateSessionKeeps ==
  ASSUME IInv, NEW r \in Req, UpdateSession(r)
  PROVE  IInv'
<1> USE DEF AddLabels, Adding, Logging, Picked, Found, Pinning, Deleting, Editing
<1>1. Local(r) /\ \A q \in Req \ {r} : Local(q) /\ Apart(r, q) /\ Apart(q, r)
  BY DEF IInv
<1>2. pc \in [Req -> Labels] /\ job \in [Req -> Job]
  BY DEF IInv, TypeOK
<1>3. CASE UpdateSessionFind(r)
  <2>1. pc[r] = "update_session.find" /\ FindBook(r, "update_session.session")
    BY <1>3 DEF UpdateSessionFind
  <2> QED
    BY <2>1, FindBookKeeps DEF Labels
<1>4. CASE UpdateSessionSession(r)
  <2>1. pc[r] = "update_session.session" /\ FindSession(r, "update_session.edit")
    BY <1>4 DEF UpdateSessionSession
  <2> QED
    BY <2>1, FindSessionKeeps
<1>5. CASE UpdateSessionEdit(r)
  <2> DEFINE label == IF Amends(r) THEN "update_session.write"
                      ELSE "update_session.respond"
  <2>1. /\ pc[r] = "update_session.edit" /\ Free(r) /\ Goto(r, label)
        /\ UNCHANGED <<tables, used, open, job, seen, old>>
    BY <1>5 DEF UpdateSessionEdit
  <2>2. pc'[r] = label /\ \A q \in Req \ {r} : pc'[q] = pc[q]
    BY <2>1, <1>2 DEF Goto
  <2>3. Local(r)'
    BY <2>1, <2>2, <1>1 DEF Local, JobOK, HasSession, Amends, tables
  <2>4. ASSUME NEW q \in Req \ {r} PROVE Apart(r, q)' /\ Apart(q, r)'
    <3>1. HasSession(r) /\ pc[q] \in {"delete_session.write", "delete_session.commit"}
          => job[r].sid # job[q].sid
      BY <2>1, <2>4 DEF Free, Waits, SessionLock, HasSession
    <3>2. HasSession(r) /\ pc[q] = "delete_book.commit" => job[r].id # job[q].id
      BY <2>1, <2>4, <1>1 DEF Free, Waits, SessionLock, HasSession, Local
    <3>3. HasSession(r)' <=> HasSession(r)
      BY <2>1 DEF HasSession, tables
    <3> QED
      BY <3>1, <3>2, <3>3, <2>1, <2>2, <2>4, <1>1 DEF Apart
  <2> QED
    BY <2>1, <2>3, <2>4, GotoKeeps DEF Labels
<1>6. CASE UpdateSessionWrite(r)
  <2> SUFFICES ASSUME ~Fail(r) PROVE IInv'
    BY FailKeeps
  <2>1. /\ pc[r] = "update_session.write" /\ Goto(r, "update_session.respond") /\ Amended(r) \in Int4
        /\ UNCHANGED <<tables, used, open, job, seen, old>>
    BY <1>6 DEF UpdateSessionWrite, Check
  <2>2. pc'[r] = "update_session.respond" /\ \A q \in Req \ {r} : pc'[q] = pc[q]
    BY <2>1, <1>2 DEF Goto
  <2>3. Local(r)'
    BY <2>1, <2>2, <1>1 DEF Local, JobOK, HasSession, Amended, tables
  <2>4. \A q \in Req \ {r} : Apart(r, q)' /\ Apart(q, r)'
    BY <2>1, <2>2, <1>1 DEF Apart, HasSession, tables
  <2> QED
    BY <2>1, <2>3, <2>4, GotoKeeps DEF Labels
<1>7. CASE UpdateSessionRespond(r)
  <2> SUFFICES ASSUME ~Fail(r) PROVE IInv'
    BY FailKeeps
  <2>1. /\ pc[r] = "update_session.respond" /\ Goto(r, "update_session.commit") /\ HasSession(r)
        /\ UNCHANGED <<tables, used, open, job, seen, old>>
    BY <1>7 DEF UpdateSessionRespond, Check
  <2>2. pc'[r] = "update_session.commit" /\ \A q \in Req \ {r} : pc'[q] = pc[q]
    BY <2>1, <1>2 DEF Goto
  <2>3. Local(r)'
    BY <2>1, <2>2, <1>1 DEF Local, JobOK, HasSession, Amends, Amended, tables
  <2>4. \A q \in Req \ {r} : Apart(r, q)' /\ Apart(q, r)'
    BY <2>1, <2>2, <1>1 DEF Apart, HasSession, tables
  <2> QED
    BY <2>1, <2>3, <2>4, GotoKeeps DEF Labels
<1>8. CASE UpdateSessionCommit(r)
  <2> DEFINE b == job[r].id
             s == job[r].sid
  <2>1. /\ pc[r] = "update_session.commit" /\ End(r)
        /\ \/ Amends(r) /\ user_books' = [user_books EXCEPT ![b].pages = Amended(r)]
           \/ ~Amends(r) /\ UNCHANGED user_books
        /\ reading_sessions' = IF job[r].pages = None THEN reading_sessions
              ELSE [reading_sessions EXCEPT ![s].pages = job[r].pages]
        /\ UNCHANGED <<catalog, used, open>>
    BY <1>8 DEF UpdateSessionCommit
  <2>2. /\ b \in UserBookId /\ s \in SessionId
        /\ reading_sessions[s] # None /\ reading_sessions[s].book = b
        /\ job[r].pages \in SessionPages \cup {None}
        /\ Amends(r) => Amended(r) \in Int4
    BY <2>1, <1>1 DEF Local, JobOK, HasSession
  <2>3. user_books[b] # None
    BY <2>2 DEF IInv, NoOrphanSessions
  <2>4. user_books' \in [UserBookId -> UserBook \cup {None}] /\ SameRows
    <3>1. CASE Amends(r)
      BY <3>1, <2>1, <2>2, <2>3, SetPages
    <3>2. CASE ~Amends(r)
      BY <3>2, <2>1 DEF IInv, TypeOK, SameRows
    <3> QED
      BY <3>1, <3>2
  <2>5. /\ reading_sessions' \in [SessionId -> Session \cup {None}]
        /\ \A x \in SessionId :
              /\ reading_sessions'[x] = None <=> reading_sessions[x] = None
              /\ reading_sessions[x] # None
                 => reading_sessions'[x].book = reading_sessions[x].book
    <3>1. reading_sessions[s] \in Session
      BY <2>2 DEF IInv, TypeOK
    <3>2. CASE job[r].pages = None
      BY <3>2, <2>1 DEF IInv, TypeOK
    <3>3. CASE job[r].pages # None
      <4>1. /\ reading_sessions'[s] \in Session /\ reading_sessions'[s].book = b
            /\ reading_sessions'[s].pages \in SessionPages
        BY <3>1, <3>3, <2>1, <2>2 DEF IInv, TypeOK, Session
      <4>2. reading_sessions'[s] # None
        <5>1. reading_sessions'[s] \in [book: UserBookId, pages: Int]
          BY <4>1, PagesAreInt4 DEF Session
        <5> QED
          BY <5>1, NoneAssumption
      <4> QED
        BY <4>1, <4>2, <3>3, <2>1, <2>2 DEF IInv, TypeOK
    <3> QED
      BY <3>2, <3>3
  <2>6. TypeOK'
    BY <2>1, <2>4, <2>5, EndType DEF IInv, TypeOK
  <2>7. NoOrphanSessions' /\ UsedIds'
    BY <2>1, <2>4, <2>5
    DEF IInv, TypeOK, Session, NoOrphanSessions, UsedIds, SameRows
  <2>8. ASSUME NEW q \in Req \ {r}, pc[q] \in Picked \cup Logging
        PROVE  /\ HasSession(q)' <=> HasSession(q)
               /\ HasSession(q) => reading_sessions'[job[q].sid].book
                                     = reading_sessions[job[q].sid].book
    <3>1. job[q].sid \in SessionId /\ job'[q] = job[q]
      BY <2>1, <2>8, <1>1, EndType DEF Local, JobOK, OthersKeep
    <3> QED
      BY <3>1, <2>5 DEF HasSession
  <2>9. ASSUME NEW q \in Req \ {r} PROVE Local(q)'
    <3>1. pc[q] = "update_session.commit" => HasSession(q)'
      BY <2>8, <2>9, <1>1 DEF Local
    <3> QED
      BY <2>1, <2>4, <2>8, <2>9, <3>1, LocalKeeps
  <2> QED
    BY <2>1, <2>4, <2>6, <2>7, <2>8, <2>9, SameRowsKeep, CommitKeeps
<1> QED
  BY <1>3, <1>4, <1>5, <1>6, <1>7, <1>8 DEF UpdateSession

-----------------------------------------------------------------------------
(* delete_session *)

LEMMA LoweredIsInt4 ==
  ASSUME IInv, NEW r \in Req
  PROVE  Lowered(r) \in Int4
<1>1. seen[r] \in Int4 /\ (old[r] = 0 \/ old[r] \in SessionPages)
  BY DEF IInv, TypeOK
<1>2. old[r] \in Int /\ old[r] >= 0
  BY <1>1, PagesAreInt4
<1> QED
  BY <1>1, <1>2, IntMaxAssumption DEF Lowered, Int4

LEMMA DeleteSessionKeeps ==
  ASSUME IInv, NEW r \in Req, DeleteSession(r)
  PROVE  IInv'
<1> USE DEF AddLabels, Adding, Logging, Picked, Found, Pinning, Deleting, Editing
<1>1. Local(r) /\ \A q \in Req \ {r} : Local(q) /\ Apart(r, q) /\ Apart(q, r)
  BY DEF IInv
<1>2. pc \in [Req -> Labels] /\ job \in [Req -> Job]
  BY DEF IInv, TypeOK
<1>3. CASE DeleteSessionFind(r)
  <2>1. pc[r] = "delete_session.find" /\ FindBook(r, "delete_session.session")
    BY <1>3 DEF DeleteSessionFind
  <2> QED
    BY <2>1, FindBookKeeps DEF Labels
<1>4. CASE DeleteSessionSession(r)
  <2>1. pc[r] = "delete_session.session" /\ FindSession(r, "delete_session.erase")
    BY <1>4 DEF DeleteSessionSession
  <2> QED
    BY <2>1, FindSessionKeeps
<1>5. CASE DeleteSessionErase(r)
  <2> DEFINE label == IF Subtracts(r) THEN "delete_session.write"
                      ELSE "delete_session.commit"
  <2>1. /\ pc[r] = "delete_session.erase" /\ Free(r) /\ Goto(r, label)
        /\ UNCHANGED <<tables, used, open, job, seen, old>>
    BY <1>5 DEF DeleteSessionErase
  <2>2. pc'[r] = label /\ \A q \in Req \ {r} : pc'[q] = pc[q]
    BY <2>1, <1>2 DEF Goto
  <2>3. Local(r)'
    BY <2>1, <2>2, <1>1 DEF Local, JobOK, HasSession, tables
  <2>4. ASSUME NEW q \in Req \ {r} PROVE Apart(r, q)' /\ Apart(q, r)'
    <3>1. HasSession(q) /\ pc[q] \in Editing => job[q].sid # job[r].sid
      BY <2>1, <2>4 DEF Free, Waits, SessionLock, HasSession
    <3>2. HasSession(q)' <=> HasSession(q)
      BY <2>1 DEF HasSession, tables
    <3> QED
      BY <3>1, <3>2, <2>1, <2>2, <2>4, <1>1 DEF Apart
  <2> QED
    BY <2>1, <2>3, <2>4, GotoKeeps DEF Labels
<1>6. CASE DeleteSessionWrite(r)
  <2> SUFFICES ASSUME ~Fail(r) PROVE IInv'
    BY FailKeeps
  <2>1. /\ pc[r] = "delete_session.write" /\ Goto(r, "delete_session.commit")
        /\ UNCHANGED <<tables, used, open, job, seen, old>>
    BY <1>6 DEF DeleteSessionWrite, Check
  <2>2. pc'[r] = "delete_session.commit" /\ \A q \in Req \ {r} : pc'[q] = pc[q]
    BY <2>1, <1>2 DEF Goto
  <2>3. Local(r)'
    BY <2>1, <2>2, <1>1 DEF Local, JobOK, HasSession, tables
  <2>4. \A q \in Req \ {r} : Apart(r, q)' /\ Apart(q, r)'
    BY <2>1, <2>2, <1>1 DEF Apart, HasSession, tables
  <2> QED
    BY <2>1, <2>3, <2>4, GotoKeeps DEF Labels
<1>7. CASE DeleteSessionCommit(r)
  <2> DEFINE b == job[r].id
             s == job[r].sid
  <2>1. /\ pc[r] = "delete_session.commit" /\ End(r)
        /\ \/ Subtracts(r) /\ user_books' = [user_books EXCEPT ![b].pages = Lowered(r)]
           \/ ~Subtracts(r) /\ UNCHANGED user_books
        /\ reading_sessions' = [reading_sessions EXCEPT ![s] = None]
        /\ UNCHANGED <<catalog, used, open>>
    BY <1>7 DEF DeleteSessionCommit
  <2>2. b \in UserBookId /\ s \in SessionId
    BY <2>1, <1>1 DEF Local, JobOK
  <2>3. Subtracts(r) => user_books[b] # None
    BY <2>1, <2>2, <1>1 DEF Subtracts, HasSession, Local, IInv, NoOrphanSessions
  <2>4. Lowered(r) \in Int4
    BY LoweredIsInt4
  <2>5. user_books' \in [UserBookId -> UserBook \cup {None}] /\ SameRows
    <3>1. CASE Subtracts(r)
      BY <3>1, <2>1, <2>2, <2>3, <2>4, SetPages
    <3>2. CASE ~Subtracts(r)
      BY <3>2, <2>1 DEF IInv, TypeOK, SameRows
    <3> QED
      BY <3>1, <3>2
  <2>6. TypeOK'
    BY <2>1, <2>5, EndType DEF IInv, TypeOK
  <2>7. NoOrphanSessions' /\ UsedIds'
    BY <2>1, <2>2, <2>5
    DEF IInv, TypeOK, Session, NoOrphanSessions, UsedIds, SameRows
  <2>8. ASSUME NEW q \in Req \ {r}, pc[q] \in Picked \cup Logging
        PROVE  /\ HasSession(q)' => /\ HasSession(q)
                                  /\ reading_sessions'[job[q].sid].book
                                        = reading_sessions[job[q].sid].book
               /\ pc[q] = "update_session.commit" => HasSession(q)'
    <3>1. job[q].sid \in SessionId /\ job'[q] = job[q]
      BY <2>1, <2>8, <1>1, EndType DEF Local, JobOK, OthersKeep
    <3>2. HasSession(q)' => /\ HasSession(q)
                            /\ reading_sessions'[job[q].sid].book
                                  = reading_sessions[job[q].sid].book
      BY <3>1, <2>1, <2>2 DEF HasSession, IInv, TypeOK
    <3>3. ASSUME pc[q] = "update_session.commit" PROVE HasSession(q)'
      BY <3>1, <3>3, <2>1, <2>8, <1>1 DEF HasSession, Local, Apart
    <3> QED
      BY <3>2, <3>3
  <2>9. \A q \in Req \ {r} : Local(q)'
    BY <2>1, <2>5, <2>8, LocalKeeps
  <2> QED
    BY <2>1, <2>5, <2>6, <2>7, <2>8, <2>9, SameRowsKeep, CommitKeeps
<1> QED
  BY <1>3, <1>4, <1>5, <1>6, <1>7 DEF DeleteSession

-----------------------------------------------------------------------------
(* Arrivals and the surroundings.                                           *)

\* A request that starts relies on nothing but its arguments.
LEMMA StartKeeps ==
  ASSUME IInv, NEW r \in Req, NEW op, NEW label, NEW j \in Job,
         Start(r, op, label, j), j.user \in User,
         \/ label = "add_book.catalog" /\ j.book \in Book
         \/ /\ label = "update_book.find" /\ j.id \in UserBookId
            /\ j.pages \in BookPages \cup {None}
         \/ label = "delete_book.delete" /\ j.id \in UserBookId
         \/ /\ label = "create_session.find" /\ j.id \in UserBookId
            /\ j.pages \in SessionPages
         \/ /\ label = "update_session.find" /\ j.id \in UserBookId
            /\ j.sid \in SessionId /\ j.pages \in SessionPages \cup {None}
         \/ /\ label = "delete_session.find" /\ j.id \in UserBookId
            /\ j.sid \in SessionId
  PROVE  IInv'
<1> USE DEF AddLabels, Adding, Logging, Picked, Found, Pinning, Deleting, Editing
<1>1. /\ pc' = [pc EXCEPT ![r] = label] /\ job' = [job EXCEPT ![r] = j]
      /\ UNCHANGED <<tables, used, open, seen, old>>
  BY DEF Start, Goto
<1>2. pc' \in [Req -> Labels] /\ job' \in [Req -> Job]
  BY <1>1 DEF IInv, TypeOK, Labels
<1>3. TypeOK' /\ OthersKeep(r) /\ pc'[r] = label /\ job'[r] = j
  BY <1>1, <1>2 DEF IInv, TypeOK, OthersKeep, tables
<1>4. Local(r)'
  BY <1>3 DEF Local, JobOK
<1>5. \A q \in Req \ {r} : Apart(r, q)' /\ Apart(q, r)'
  BY <1>3 DEF Apart
<1> QED
  BY <1>1, <1>3, <1>4, <1>5, Move

LEMMA BeginKeeps ==
  ASSUME IInv, NEW r \in Req, Begin(r)
  PROVE  IInv'
<1>1. CASE BeginAddBook(r)
  <2>1. PICK u \in User, c \in Book :
          Start(r, "add_book", "add_book.catalog",
                [NoJob EXCEPT !.user = u, !.book = c])
    BY <1>1 DEF BeginAddBook
  <2> DEFINE j == [NoJob EXCEPT !.user = u, !.book = c]
  <2>2. j \in Job /\ j.user = u /\ j.book = c
    BY DEF Job, NoJob
  <2> HIDE DEF j
  <2> QED
    BY <2>1, <2>2, StartKeeps DEF j
<1>2. CASE BeginUpdateBook(r)
  <2>1. PICK u \in User, b \in UserBookId \cap used, n \in BookPages \cup {None} :
          Start(r, "update_book", "update_book.find",
                [NoJob EXCEPT !.user = u, !.id = b, !.pages = n])
    BY <1>2 DEF BeginUpdateBook
  <2> DEFINE j == [NoJob EXCEPT !.user = u, !.id = b, !.pages = n]
  <2>2. j \in Job /\ j.user = u /\ j.id = b /\ j.pages = n
    BY DEF Job, NoJob
  <2> HIDE DEF j
  <2> QED
    BY <2>1, <2>2, StartKeeps DEF j
<1>3. CASE BeginDeleteBook(r)
  <2>1. PICK u \in User, b \in UserBookId \cap used :
          Start(r, "delete_book", "delete_book.delete",
                [NoJob EXCEPT !.user = u, !.id = b])
    BY <1>3 DEF BeginDeleteBook
  <2> DEFINE j == [NoJob EXCEPT !.user = u, !.id = b]
  <2>2. j \in Job /\ j.user = u /\ j.id = b
    BY DEF Job, NoJob
  <2> HIDE DEF j
  <2> QED
    BY <2>1, <2>2, StartKeeps DEF j
<1>4. CASE BeginCreateSession(r)
  <2>1. PICK u \in User, b \in UserBookId \cap used, n \in SessionPages :
          Start(r, "create_session", "create_session.find",
                [NoJob EXCEPT !.user = u, !.id = b, !.pages = n])
    BY <1>4 DEF BeginCreateSession
  <2> DEFINE j == [NoJob EXCEPT !.user = u, !.id = b, !.pages = n]
  <2>2. j \in Job /\ j.user = u /\ j.id = b /\ j.pages = n
    BY DEF Job, NoJob
  <2> HIDE DEF j
  <2> QED
    BY <2>1, <2>2, StartKeeps DEF j
<1>5. CASE BeginUpdateSession(r)
  <2>1. PICK u \in User, b \in UserBookId \cap used, s \in SessionId \cap used,
             n \in SessionPages \cup {None} :
          Start(r, "update_session", "update_session.find",
                [NoJob EXCEPT !.user = u, !.id = b, !.sid = s, !.pages = n])
    BY <1>5 DEF BeginUpdateSession
  <2> DEFINE j == [NoJob EXCEPT !.user = u, !.id = b, !.sid = s, !.pages = n]
  <2>2. j \in Job /\ j.user = u /\ j.id = b /\ j.sid = s /\ j.pages = n
    BY DEF Job, NoJob
  <2> HIDE DEF j
  <2> QED
    BY <2>1, <2>2, StartKeeps DEF j
<1>6. CASE BeginDeleteSession(r)
  <2>1. PICK u \in User, b \in UserBookId \cap used, s \in SessionId \cap used :
          Start(r, "delete_session", "delete_session.find",
                [NoJob EXCEPT !.user = u, !.id = b, !.sid = s])
    BY <1>6 DEF BeginDeleteSession
  <2> DEFINE j == [NoJob EXCEPT !.user = u, !.id = b, !.sid = s]
  <2>2. j \in Job /\ j.user = u /\ j.id = b /\ j.sid = s
    BY DEF Job, NoJob
  <2> HIDE DEF j
  <2> QED
    BY <2>1, <2>2, StartKeeps DEF j
<1> QED
  BY <1>1, <1>2, <1>3, <1>4, <1>5, <1>6 DEF Begin

\* Nothing of IInv is about the catalog or about the server being open.
LEMMA OutsideKeeps ==
  ASSUME IInv, catalog' \subseteq Book, open' \in BOOLEAN,
         UNCHANGED <<user_books, reading_sessions, used, pc, job, seen, old>>
  PROVE  IInv'
<1>1. TypeOK' /\ NoOrphanSessions' /\ UniqueShelfEntry' /\ UsedIds'
  BY DEF IInv, TypeOK, NoOrphanSessions, UniqueShelfEntry, UsedIds
<1>2. \A r \in Req : Local(r)'
  BY DEF IInv, Local, JobOK, HasSession, HasBook, Created, Amended, Amends
<1>3. \A r, q \in Req : r # q => Apart(r, q)'
  BY DEF IInv, Apart, HasSession
<1> QED
  BY <1>1, <1>2, <1>3 DEF IInv

LEMMA NextIInv == IInv /\ [Next]_vars => IInv'
<1> SUFFICES ASSUME IInv, [Next]_vars PROVE IInv'
  OBVIOUS
<1>1. CASE UNCHANGED vars
  BY <1>1, OutsideKeeps DEF vars, tables, IInv, TypeOK
<1>2. ASSUME NEW r \in Req, Begin(r) PROVE IInv'
  BY <1>2, BeginKeeps
<1>3. ASSUME NEW r \in Req, Step(r) PROVE IInv'
  BY <1>3, AddBookKeeps, UpdateBookKeeps, DeleteBookKeeps, CreateSessionKeeps,
     UpdateSessionKeeps, DeleteSessionKeeps DEF Step
<1>4. ASSUME NEW r \in Req, BreakDeadlock(r) \/ Lose(r) PROVE IInv'
  BY <1>4, FailKeeps DEF BreakDeadlock, Lose
<1>5. ASSUME NEW c \in Book, SoftDelete(c) PROVE IInv'
  BY <1>5, OutsideKeeps DEF SoftDelete, IInv, TypeOK
<1>6. CASE Close
  BY <1>6, OutsideKeeps DEF Close, tables, IInv, TypeOK
<1>7. CASE Stopped
  BY <1>7, <1>1 DEF Stopped
<1> QED
  BY <1>1, <1>2, <1>3, <1>4, <1>5, <1>6, <1>7 DEF Next

-----------------------------------------------------------------------------
(* Theorems.                                                                *)

\* The state of all requests and tables always satisfies IInv, for any
\* number of requests in flight, users, books, sessions and page counts.
THEOREM Invariance == Spec => []IInv
<1>1. Init => IInv
  BY InitIInv
<1>2. IInv /\ [Next]_vars => IInv'
  BY NextIInv
<1> QED
  BY <1>1, <1>2, PTL DEF Spec

\* The columns and the requests' variables keep their types; in particular
\* no pages_read leaves the range of INTEGER.
THEOREM TypeCorrect == Spec => []TypeOK
<1>1. IInv => TypeOK
  BY DEF IInv
<1> QED
  BY <1>1, Invariance, PTL

\* No reading session outlives its user book.
THEOREM ShelfConsistent == Spec => []NoOrphanSessions
<1>1. IInv => NoOrphanSessions
  BY DEF IInv
<1> QED
  BY <1>1, Invariance, PTL

\* No user holds a catalog book twice.
THEOREM ShelfUnique == Spec => []UniqueShelfEntry
<1>1. IInv => UniqueShelfEntry
  BY DEF IInv
<1> QED
  BY <1>1, Invariance, PTL

\* Which of two requests that wait and are waited for can wait for the other:
\* a cascade for the write of a session's book, and the reverse.
LEMMA WaitingPairs ==
    ASSUME IInv, NEW p \in Req, NEW q \in Req, Waits(p, q),
           \E n \in Req : Waits(q, n), \E n \in Req : Waits(n, p)
    PROVE  /\ job[p].id = job[q].id
           /\ \/ /\ pc[p] = "delete_book.cascade"
                 /\ pc[q] \in {"update_session.write", "delete_session.write"}
              \/ /\ pc[p] \in {"update_session.write", "delete_session.write"}
                 /\ pc[q] = "delete_book.cascade"
<1> DEFINE Both == {"delete_book.cascade", "create_session.write",
                    "update_session.write", "delete_session.write"}
<1>1. pc[p] \in Both
  BY DEF Waits, KeyLock, DeleteLock, ShareLock, WriteLock, SessionLock
<1>2. pc[q] \in Both
  BY DEF Waits, KeyLock, DeleteLock, ShareLock, WriteLock, SessionLock
<1>3. Local(p) /\ Local(q) /\ p # q /\ Apart(q, p)
  BY DEF IInv, Waits
<1>4. CASE pc[p] = "delete_book.cascade"
  <2>1. PICK s \in SessionsOf(job[p].id) : SessionLock(q, s)
    BY <1>4 DEF Waits
  <2>2. /\ reading_sessions[s] # None /\ reading_sessions[s].book = job[p].id
        /\ job[q].sid = s /\ pc[q] \in {"update_session.write", "delete_session.write"}
    BY <1>2, <2>1 DEF SessionLock, SessionsOf
  <2> QED
    BY <1>3, <1>4, <2>2 DEF Local, Picked, HasSession
<1>5. CASE pc[p] # "delete_book.cascade"
  <2>1. pc[q] = "delete_book.cascade" /\ job[q].id = job[p].id
    BY <1>1, <1>2, <1>5 DEF Waits, WriteLock, DeleteLock
  <2>2. pc[p] # "create_session.write"
    BY <1>3, <2>1 DEF Apart, Deleting, Pinning, Logging
  <2> QED
    BY <1>1, <1>5, <2>1, <2>2
<1> QED
  BY <1>4, <1>5

\* Whoever waits in a cycle is a delete_book or a session's handler that wait
\* for each other, however many requests there are.
THEOREM ShelfDeadlocks == Spec => []DeadlocksInvolveDeletion
<1>1. IInv => DeadlocksInvolveDeletion
  <2> SUFFICES ASSUME IInv, NEW r \in Req, Deadlocked(r)
               PROVE  \E d, e \in Req : /\ r \in {d, e} /\ Waits(d, e) /\ Waits(e, d)
                                        /\ pc[d] = "delete_book.cascade"
                                        /\ pc[e] \in {"update_session.write",
                                                      "delete_session.write"}
    BY DEF DeadlocksInvolveDeletion
  <2>1. PICK D \in SUBSET Req :
           /\ r \in D
           /\ \A p \in D : (\E q \in D : Waits(p, q)) /\ (\E q \in D : Waits(q, p))
    BY DEF Deadlocked
  <2> DEFINE Pair(p, q) ==
        /\ job[p].id = job[q].id
        /\ \/ /\ pc[p] = "delete_book.cascade"
              /\ pc[q] \in {"update_session.write", "delete_session.write"}
           \/ /\ pc[p] \in {"update_session.write", "delete_session.write"}
              /\ pc[q] = "delete_book.cascade"
  <2>2. ASSUME NEW p \in D, NEW q \in D, Waits(p, q) PROVE Pair(p, q)
    BY <2>1, <2>2, WaitingPairs
  <2>3. ASSUME NEW d \in D, NEW e \in D, d # e
        PROVE  ~(/\ pc[d] = "delete_book.cascade" /\ pc[e] = "delete_book.cascade"
                 /\ job[d].id = job[e].id)
    BY <2>3 DEF IInv, Apart, Deleting
  <2>4. PICK q \in D : Waits(r, q)
    BY <2>1
  <2>5. PICK n \in D : Waits(n, r)
    BY <2>1
  <2>6. Pair(r, q) /\ Pair(n, r)
    BY <2>1, <2>2, <2>4, <2>5
  <2>7. CASE pc[r] = "delete_book.cascade"
    <3>1. PICK d \in D : Waits(q, d)
      BY <2>1
    <3>2. Pair(q, d)
      BY <2>2, <3>1
    <3>3. d = r
      BY <2>1, <2>3, <2>6, <2>7, <3>2
    <3> QED
      BY <2>1, <2>4, <2>6, <2>7, <3>1, <3>3
  <2>8. CASE pc[r] # "delete_book.cascade"
    <3>1. n = q
      BY <2>3, <2>6, <2>8
    <3> QED
      BY <2>1, <2>4, <2>5, <2>6, <2>8, <3>1
  <2> QED
    BY <2>7, <2>8
<1> QED
  BY <1>1, Invariance, PTL

\* Of the requests in flight one can execute its next statement, or is in a
\* wait cycle, which PostgreSQL breaks.
SomebodyMoves ==
    (\E r \in Req : pc[r] # "idle") =>
       \E r \in Req : pc[r] # "idle" /\ (Free(r) \/ Deadlocked(r))

\* The requests never all wait: whom a request waits for waits itself for one
\* more at most before somebody can move or a cycle of two is closed.  This
\* is what the liveness property Drains rests on, for any number of requests.
THEOREM ShelfMoves == Spec => []SomebodyMoves
<1>1. IInv => SomebodyMoves
  <2> SUFFICES ASSUME IInv, NEW r \in Req, pc[r] # "idle",
                      \A p \in Req : pc[p] # "idle" => ~Free(p)
               PROVE  \E p \in Req : pc[p] # "idle" /\ Deadlocked(p)
    BY DEF SomebodyMoves
  <2>1. ASSUME NEW p \in Req, NEW q \in Req, Waits(p, q)
        PROVE  pc[p] # "idle" /\ pc[q] # "idle" /\ \E n \in Req : Waits(q, n)
    <3>1. pc[p] # "idle" /\ pc[q] # "idle"
      BY <2>1 DEF Waits, KeyLock, ShareLock, WriteLock, DeleteLock, SessionLock
    <3> QED
      BY <3>1 DEF Free
  <2>2. ASSUME NEW p \in Req, NEW q \in Req, Waits(p, q), Waits(q, p)
        PROVE  Deadlocked(p)
    <3>1. {p, q} \in SUBSET Req
      OBVIOUS
    <3> QED
      BY <2>2, <3>1 DEF Deadlocked
  <2>3. ASSUME NEW p \in Req, NEW q \in Req, p # q,
               pc[p] = "delete_book.cascade", pc[q] = "delete_book.cascade"
        PROVE  job[p].id # job[q].id
    BY <2>3 DEF IInv, Apart, Deleting
  <2>4. PICK p \in Req : Waits(r, p)
    BY DEF Free
  <2>5. PICK q \in Req : Waits(p, q)
    BY <2>1, <2>4
  <2>6. PICK n \in Req : Waits(q, n)
    BY <2>1, <2>5
  <2>7. PICK m \in Req : Waits(n, m)
    BY <2>1, <2>6
  <2>8. \E k \in Req : Waits(m, k)
    BY <2>1, <2>7
  <2>9. /\ job[p].id = job[q].id /\ job[q].id = job[n].id /\ job[n].id = job[m].id
        /\ \/ pc[p] = "delete_book.cascade" /\ pc[n] = "delete_book.cascade"
           \/ pc[q] = "delete_book.cascade" /\ pc[m] = "delete_book.cascade"
    BY <2>4, <2>5, <2>6, <2>7, <2>8, WaitingPairs
  <2>10. p = n \/ q = m
    BY <2>3, <2>9
  <2> QED
    BY <2>1, <2>2, <2>5, <2>6, <2>7, <2>10
<1> QED
  BY <1>1, Invariance, PTL

\* What a success response spoke of is there until the commit.
THEOREM ResponsesHold == Spec => []AckedRowsKept
<1>1. IInv => AckedRowsKept
  <2> SUFFICES ASSUME IInv, NEW r \in Req
               PROVE  /\ pc[r] = "add_book.commit" => ~HasBook(job[r].user, job[r].book)
                      /\ pc[r] \in {"update_book.commit", "delete_book.commit",
                                    "create_session.commit", "update_session.commit"}
                            => Mine(r)
                      /\ pc[r] = "update_session.commit"
                            => HasSession(r)
                               /\ reading_sessions[job[r].sid].book = job[r].id
    BY DEF AckedRowsKept
  <2>1. Local(r)
    BY DEF IInv
  <2>2. pc[r] = "update_session.commit" => user_books[job[r].id] # None
    BY <2>1 DEF Local, JobOK, IInv, NoOrphanSessions, HasSession, Picked
  <2> QED
    BY <2>1, <2>2
    DEF Local, Adding, Logging, Picked, Found, Pinning, Deleting, Mine
<1> QED
  BY <1>1, Invariance, PTL

\* Every statement before the commit leaves the committed rows alone.
LEMMA StepCases ==
  ASSUME NEW r \in Req, Step(r)
  PROVE  \/ AddBookCommit(r) \/ UpdateBookCommit(r) \/ DeleteBookCommit(r)
         \/ CreateSessionCommit(r) \/ UpdateSessionCommit(r)
         \/ DeleteSessionCommit(r)
         \/ UNCHANGED <<user_books, reading_sessions>>
<1> USE DEF Check, Fail, tables
<1>1. CASE AddBook(r)
  BY <1>1 DEF AddBook, AddBookCatalog, AddBookExists, AddBookInsert, AddBookRespond
<1>2. CASE UpdateBook(r)
  BY <1>2 DEF UpdateBook, UpdateBookFind, UpdateBookCatalog, UpdateBookWrite,
              UpdateBookRespond
<1>3. CASE DeleteBook(r)
  BY <1>3 DEF DeleteBook, DeleteBookDelete, DeleteBookCascade
<1>4. CASE CreateSession(r)
  BY <1>4 DEF CreateSession, CreateSessionFind, CreateSessionInsert,
              CreateSessionWrite, FindBook
<1>5. CASE UpdateSession(r)
  BY <1>5 DEF UpdateSession, UpdateSessionFind, UpdateSessionSession,
              UpdateSessionEdit, UpdateSessionWrite, UpdateSessionRespond,
              FindBook, FindSession
<1>6. CASE DeleteSession(r)
  BY <1>6 DEF DeleteSession, DeleteSessionFind, DeleteSessionSession,
              DeleteSessionErase, DeleteSessionWrite, FindBook, FindSession
<1> QED
  BY <1>1, <1>2, <1>3, <1>4, <1>5, <1>6 DEF Step

LEMMA NextCases ==
  ASSUME [Next]_vars
  PROVE  (\E r \in Req : Step(r)) \/ UNCHANGED <<user_books, reading_sessions>>
<1>1. ASSUME NEW r \in Req, Begin(r) \/ BreakDeadlock(r) \/ Lose(r)
      PROVE  UNCHANGED <<user_books, reading_sessions>>
  BY <1>1 DEF Begin, BeginAddBook, BeginUpdateBook, BeginDeleteBook,
     BeginCreateSession, BeginUpdateSession, BeginDeleteSession, Start,
     BreakDeadlock, Lose, Fail, tables
<1> QED
  BY <1>1 DEF Next, SoftDelete, Close, Stopped, vars, tables

\* A commit changes one user book, that of the request, and sessions of that
\* book only.
CommitLocal(r) ==
    LET b == job[r].id
    IN  /\ pc[r] \in CommitLabels /\ End(r)
        /\ b \in UserBookId
        /\ user_books[b] # None => user_books[b].user = job[r].user
        /\ \A x \in UserBookId \ {b} : user_books'[x] = user_books[x]
        /\ \A s \in SessionId, row \in Session :
              /\ reading_sessions'[s] # reading_sessions[s]
              /\ row \in {reading_sessions[s], reading_sessions'[s]}
              => row.book = b /\ user_books[b] # None

LEMMA StepLocal ==
  ASSUME IInv, NEW r \in Req, Step(r)
  PROVE  CommitLocal(r) \/ UNCHANGED <<user_books, reading_sessions>>
<1> DEFINE b == job[r].id
           s == job[r].sid
<1> USE DEF CommitLabels
<1>1. Local(r)
  BY DEF IInv
<1>2. CASE AddBookCommit(r)
  <2>1. b \in UserBookId /\ user_books[b] = None
    BY <1>1, <1>2 DEF AddBookCommit, Local, JobOK, Adding, AddLabels
  <2> QED
    BY <1>2, <2>1 DEF CommitLocal, AddBookCommit, IInv, TypeOK
<1>3. ASSUME pc[r] \in CommitLabels \ {"add_book.commit"}
      PROVE  b \in UserBookId /\ (user_books[b] # None => user_books[b].user = job[r].user)
  BY <1>1, <1>3 DEF Local, JobOK, Found, Picked, Logging, AddLabels
<1>4. CASE UpdateBookCommit(r)
  BY <1>3, <1>4 DEF CommitLocal, UpdateBookCommit, IInv, TypeOK
<1>5. CASE DeleteBookCommit(r)
  <2>1. user_books[b] # None
    BY <1>1, <1>5 DEF DeleteBookCommit, Local, Deleting
  <2>2. \A x \in SessionId, row \in Session :
           /\ reading_sessions'[x] # reading_sessions[x]
           /\ row \in {reading_sessions[x], reading_sessions'[x]}
           => row.book = b
    BY <1>5, NoneNotSession DEF DeleteBookCommit, SessionsOf
  <2> QED
    BY <1>3, <1>5, <2>1, <2>2 DEF CommitLocal, DeleteBookCommit, IInv, TypeOK
<1>6. CASE CreateSessionCommit(r)
  <2>1. user_books[b] # None /\ reading_sessions[s] = None
    BY <1>1, <1>6 DEF CreateSessionCommit, Local, Pinning, Logging, HasSession
  <2>2. \A x \in SessionId, row \in Session :
           /\ reading_sessions'[x] # reading_sessions[x]
           /\ row \in {reading_sessions[x], reading_sessions'[x]}
           => row.book = b
    BY <1>6, <2>1, NoneNotSession DEF CreateSessionCommit, IInv, TypeOK
  <2> QED
    BY <1>3, <1>6, <2>1, <2>2 DEF CommitLocal, CreateSessionCommit, IInv, TypeOK
<1>7. CASE UpdateSessionCommit(r)
  <2>1. /\ s \in SessionId /\ reading_sessions[s] # None
        /\ reading_sessions[s].book = b /\ user_books[b] # None
    BY <1>1, <1>7
    DEF UpdateSessionCommit, Local, JobOK, HasSession, Picked, IInv, NoOrphanSessions
  <2>2. reading_sessions'[s].book = b
    BY <1>7, <2>1 DEF UpdateSessionCommit, IInv, TypeOK, Session
  <2>3. \A x \in SessionId \ {s} : reading_sessions'[x] = reading_sessions[x]
    BY <1>7 DEF UpdateSessionCommit, IInv, TypeOK
  <2>4. \A x \in SessionId, row \in Session :
           /\ reading_sessions'[x] # reading_sessions[x]
           /\ row \in {reading_sessions[x], reading_sessions'[x]}
           => row.book = b /\ user_books[b] # None
    BY <2>1, <2>2, <2>3
  <2>5. \A x \in UserBookId \ {b} : user_books'[x] = user_books[x]
    BY <1>7 DEF UpdateSessionCommit, IInv, TypeOK
  <2> QED
    BY <1>3, <1>7, <2>4, <2>5 DEF CommitLocal, UpdateSessionCommit
<1>8. CASE DeleteSessionCommit(r)
  <2>1. /\ s \in SessionId
        /\ HasSession(r) => reading_sessions[s].book = b /\ user_books[b] # None
    BY <1>1, <1>8
    DEF DeleteSessionCommit, Local, JobOK, HasSession, Picked, IInv, NoOrphanSessions
  <2>2. \A x \in SessionId, row \in Session :
           /\ reading_sessions'[x] # reading_sessions[x]
           /\ row \in {reading_sessions[x], reading_sessions'[x]}
           => row.book = b /\ user_books[b] # None
    BY <1>8, <2>1, NoneNotSession DEF DeleteSessionCommit, HasSession, IInv, TypeOK
  <2> QED
    BY <1>3, <1>8, <2>2 DEF CommitLocal, DeleteSessionCommit, IInv, TypeOK
<1> QED
  BY <1>2, <1>4, <1>5, <1>6, <1>7, <1>8, StepCases

LEMMA NextOwnRows == IInv /\ [Next]_vars => [OwnRows]_vars
<1> SUFFICES ASSUME IInv, [Next]_vars PROVE OwnRows
  OBVIOUS
<1>1. CASE UNCHANGED <<user_books, reading_sessions>>
  BY <1>1 DEF OwnRows
<1>2. ASSUME NEW r \in Req, CommitLocal(r) PROVE OwnRows
  <2>1. CommitsFor(job[r].user)
    BY <1>2, EndType DEF CommitsFor, CommitLocal
  <2> QED
    BY <1>2, <2>1 DEF OwnRows, CommitLocal
<1> QED
  BY <1>1, <1>2, NextCases, StepLocal

\* Only the owner's requests change a user book or its sessions, whatever
\* happens between the SELECT that checks the owner and the commit.
THEOREM OwnersOnly == Spec => OwnRowsOnly
<1>1. IInv /\ [Next]_vars => [OwnRows]_vars
  BY NextOwnRows
<1> QED
  BY <1>1, Invariance, PTL DEF Spec, OwnRowsOnly

-----------------------------------------------------------------------------
(* The requests, statement by statement, implement the atomic operations   *)
(* of Shelf: a commit is one operation, everything else a request does     *)
(* changes no committed row.                                               *)

LEMMA InitRefines == Init => S!Init
  BY DEF Init, S!Init, ShelfOf

\* A step that writes no table is a stutter of the shelf.
LEMMA QuietRefines ==
  ASSUME UNCHANGED <<user_books, reading_sessions>>
  PROVE  UNCHANGED S!vars
BY DEF S!vars, ShelfOf

\* A step that only changes page counts of user books is one too.
LEMMA SameRowsRefine ==
  ASSUME SameRows
  PROVE  ShelfOf' = ShelfOf
<1>1. \A b \in UserBookId : ShelfOf'[b] = ShelfOf[b]
  BY DEF SameRows, ShelfOf
<1> QED
  BY <1>1 DEF ShelfOf

LEMMA AddBookRefines ==
  ASSUME IInv, NEW r \in Req, AddBookCommit(r)
  PROVE  S!Next
<1> DEFINE b == job[r].id
           e == [user |-> job[r].user, book |-> job[r].book]
<1>1. /\ pc[r] = "add_book.commit"
      /\ user_books' = [user_books EXCEPT ![b] =
            [user |-> job[r].user, book |-> job[r].book, pages |-> 0]]
      /\ UNCHANGED reading_sessions
  BY DEF AddBookCommit
<1>2. /\ b \in UserBookId /\ e \in S!Entry
      /\ user_books[b] = None /\ ~HasBook(job[r].user, job[r].book)
  BY <1>1 DEF IInv, Local, JobOK, AddLabels, Adding, S!Entry
<1>3. [user |-> job[r].user, book |-> job[r].book, pages |-> 0] # None
  BY <1>1, NoneAssumption DEF IInv, Local, JobOK, AddLabels
<1>4. ShelfOf[b] = None /\ \A x \in UserBookId : ShelfOf[x] # e
  <2>1. e # None
    BY <1>2, NoneAssumption DEF S!Entry
  <2>2. ASSUME NEW x \in UserBookId PROVE ShelfOf[x] # e
    BY <1>2, <2>1 DEF ShelfOf, HasBook
  <2> QED
    BY <1>2, <2>2 DEF ShelfOf
<1>5. ShelfOf' = [ShelfOf EXCEPT ![b] = e]
  BY <1>1, <1>2, <1>3 DEF ShelfOf, IInv, TypeOK
<1>6. S!AddBook(b, e)
  BY <1>1, <1>4, <1>5 DEF S!AddBook
<1> QED
  BY <1>2, <1>6 DEF S!Next

LEMMA DeleteBookRefines ==
  ASSUME IInv, NEW r \in Req, DeleteBookCommit(r)
  PROVE  S!Next
<1> DEFINE b == job[r].id
<1>1. /\ pc[r] = "delete_book.commit"
      /\ user_books' = [user_books EXCEPT ![b] = None]
      /\ reading_sessions' = [s \in SessionId |->
            IF s \in SessionsOf(b) THEN None ELSE reading_sessions[s]]
  BY DEF DeleteBookCommit
<1>2. b \in UserBookId /\ user_books[b] # None
  BY <1>1 DEF IInv, Local, JobOK, Deleting, AddLabels
<1>3. ShelfOf' = [ShelfOf EXCEPT ![b] = None]
  BY <1>1, <1>2 DEF ShelfOf, IInv, TypeOK
<1>4. ShelfOf[b] # None
  BY <1>2, NoneAssumption DEF ShelfOf, IInv, TypeOK, UserBook
<1>5. S!DeleteBook(b)
  BY <1>1, <1>3, <1>4 DEF S!DeleteBook, SessionsOf
<1> QED
  BY <1>2, <1>5 DEF S!Next

LEMMA CreateSessionRefines ==
  ASSUME IInv, NEW r \in Req, CreateSessionCommit(r)
  PROVE  S!Next
<1> DEFINE b == job[r].id
           s == job[r].sid
           e == [book |-> b, pages |-> job[r].pages]
<1>1. /\ pc[r] = "create_session.commit"
      /\ user_books' = [user_books EXCEPT ![b].pages = Created(r)]
      /\ reading_sessions' = [reading_sessions EXCEPT ![s] = e]
  BY DEF CreateSessionCommit
<1>2. /\ b \in UserBookId /\ user_books[b] # None /\ Created(r) \in Int4
      /\ s \in SessionId /\ reading_sessions[s] = None /\ e \in S!Session
  BY <1>1 DEF IInv, Local, JobOK, HasSession, Logging, Pinning, AddLabels, S!Session
<1>3. ShelfOf' = ShelfOf
  BY <1>1, <1>2, SetPages, SameRowsRefine
<1>4. ShelfOf[b] # None
  BY <1>2, NoneAssumption DEF ShelfOf, IInv, TypeOK, UserBook
<1>5. S!CreateSession(s, e)
  BY <1>1, <1>2, <1>3, <1>4 DEF S!CreateSession
<1> QED
  BY <1>2, <1>5 DEF S!Next

LEMMA UpdateSessionRefines ==
  ASSUME IInv, NEW r \in Req, UpdateSessionCommit(r)
  PROVE  [S!Next]_(S!vars)
<1> DEFINE b == job[r].id
           s == job[r].sid
<1>1. /\ pc[r] = "update_session.commit"
      /\ \/ Amends(r) /\ user_books' = [user_books EXCEPT ![b].pages = Amended(r)]
         \/ ~Amends(r) /\ UNCHANGED user_books
      /\ reading_sessions' = IF job[r].pages = None THEN reading_sessions
            ELSE [reading_sessions EXCEPT ![s].pages = job[r].pages]
  BY DEF UpdateSessionCommit
<1>2. /\ b \in UserBookId /\ s \in SessionId /\ reading_sessions[s] # None
      /\ reading_sessions[s].book = b
      /\ job[r].pages \in SessionPages \cup {None}
      /\ Amends(r) => Amended(r) \in Int4
  BY <1>1 DEF IInv, Local, JobOK, HasSession, Picked, Editing, AddLabels
<1>3. user_books[b] # None
  BY <1>2 DEF IInv, NoOrphanSessions
<1>4. ShelfOf' = ShelfOf
  <2>1. CASE Amends(r)
    BY <2>1, <1>1, <1>2, <1>3, SetPages, SameRowsRefine
  <2>2. CASE ~Amends(r)
    BY <2>2, <1>1 DEF ShelfOf
  <2> QED
    BY <2>1, <2>2
<1>5. CASE job[r].pages = None
  BY <1>5, <1>1, <1>4 DEF S!vars
<1>6. CASE job[r].pages # None
  <2>1. S!UpdateSession(s, job[r].pages)
    BY <1>6, <1>1, <1>2, <1>4 DEF S!UpdateSession
  <2> QED
    BY <2>1, <1>6, <1>2 DEF S!Next
<1> QED
  BY <1>5, <1>6

LEMMA DeleteSessionRefines ==
  ASSUME IInv, NEW r \in Req, DeleteSessionCommit(r)
  PROVE  [S!Next]_(S!vars)
<1> DEFINE b == job[r].id
           s == job[r].sid
<1>1. /\ pc[r] = "delete_session.commit"
      /\ \/ Subtracts(r) /\ user_books' = [user_books EXCEPT ![b].pages = Lowered(r)]
         \/ ~Subtracts(r) /\ UNCHANGED user_books
      /\ reading_sessions' = [reading_sessions EXCEPT ![s] = None]
  BY DEF DeleteSessionCommit
<1>2. /\ b \in UserBookId /\ s \in SessionId
      /\ HasSession(r) => reading_sessions[s].book = b
  BY <1>1 DEF IInv, Local, JobOK, Picked, AddLabels
<1>3. Subtracts(r) => user_books[b] # None
  BY <1>2 DEF Subtracts, HasSession, IInv, NoOrphanSessions
<1>4. ShelfOf' = ShelfOf
  <2>1. CASE Subtracts(r)
    BY <2>1, <1>1, <1>2, <1>3, LoweredIsInt4, SetPages, SameRowsRefine
  <2>2. CASE ~Subtracts(r)
    BY <2>2, <1>1 DEF ShelfOf
  <2> QED
    BY <2>1, <2>2
<1>5. CASE HasSession(r)
  <2>1. S!DeleteSession(s)
    BY <1>5, <1>1, <1>4 DEF S!DeleteSession, HasSession
  <2> QED
    BY <2>1, <1>2 DEF S!Next
<1>6. CASE ~HasSession(r)
  BY <1>6, <1>1, <1>2, <1>4 DEF HasSession, S!vars, IInv, TypeOK
<1> QED
  BY <1>5, <1>6

LEMMA UpdateBookRefines ==
  ASSUME IInv, NEW r \in Req, UpdateBookCommit(r)
  PROVE  UNCHANGED S!vars
<1> DEFINE b == job[r].id
<1>1. /\ pc[r] = "update_book.commit"
      /\ user_books' = IF job[r].pages = None THEN user_books
                       ELSE [user_books EXCEPT ![b].pages = job[r].pages]
      /\ UNCHANGED reading_sessions
  BY DEF UpdateBookCommit
<1>2. /\ b \in UserBookId /\ user_books[b] # None
      /\ job[r].pages # None => job[r].pages \in Int4
  BY <1>1, PagesAreInt4 DEF IInv, Local, JobOK, Pinning, AddLabels
<1>3. ShelfOf' = ShelfOf
  <2>1. CASE job[r].pages = None
    BY <2>1, <1>1 DEF ShelfOf
  <2>2. CASE job[r].pages # None
    BY <2>2, <1>1, <1>2, SetPages, SameRowsRefine
  <2> QED
    BY <2>1, <2>2
<1> QED
  BY <1>1, <1>3 DEF S!vars

LEMMA NextRefines == IInv /\ [Next]_vars => [S!Next]_(S!vars)
<1> SUFFICES ASSUME IInv, [Next]_vars PROVE [S!Next]_(S!vars)
  OBVIOUS
<1>1. CASE UNCHANGED <<user_books, reading_sessions>>
  BY <1>1, QuietRefines
<1>2. ASSUME NEW r \in Req, Step(r) PROVE [S!Next]_(S!vars)
  BY <1>2, <1>1, StepCases, AddBookRefines, UpdateBookRefines, DeleteBookRefines,
     CreateSessionRefines, UpdateSessionRefines, DeleteSessionRefines
<1> QED
  BY <1>1, <1>2, NextCases

\* Whatever the interleaving of the statements of concurrent requests, the
\* committed user books and sessions evolve by the atomic operations of
\* Shelf: books are added once, deleted with their sessions, and a session
\* never changes the book it belongs to.
THEOREM Refinement == Spec => Atomic
<1>1. Init => S!Init
  BY InitRefines
<1>2. IInv /\ [Next]_vars => [S!Next]_(S!vars)
  BY NextRefines
<1> QED
  BY <1>1, <1>2, Invariance, PTL DEF Spec, Atomic, S!Spec
=============================================================================
