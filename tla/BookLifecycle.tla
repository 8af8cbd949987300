---------------------------- MODULE BookLifecycle ----------------------------
(***************************************************************************)
(* The status of a user book and its dates, under PATCH /books/{id} and    *)
(* under the Celery task check_abandoned_books, which reads all books that *)
(* are being read, looks up the last session of each and then writes the   *)
(* marks of all in one flush.                                              *)
(*                                                                         *)
(* update_book and the task are sequences of SQL statements, one action    *)
(* per statement.  The other handlers (their statements are modelled in    *)
(* ShelfRequests) are their commit, at which the row locks they need are   *)
(* free.  Clocks count whole days.                                         *)
(***************************************************************************)
EXTENDS Integers, FiniteSets

CONSTANTS Id,           \* primary keys of user_books; a flush goes by their order
          Req,          \* update_book requests in flight at most
          Sweeper,      \* executions of check_abandoned_books at a time
          LastDay,      \* bound of the model: the last day
          Inactive,     \* days_inactive of check_abandoned_books
          DaysOld,      \* days_old of cleanup_old_sessions
          MaxDeaths,    \* bound of the model: workers that die
          AddStatus,    \* what a POST may carry as status
          PatchStatus,  \* what a PATCH may carry as status
          PatchRating,  \* what a PATCH may carry as rating: TRUE, or FALSE (null)
          MaxSessions,  \* bound of the model: sessions of a book at a time
          None          \* NULL, or a field that a PATCH does not carry

Status == {"want_to_read", "reading", "finished", "abandoned"}
Day    == 0..LastDay

ASSUME IdAssumption == Id \subseteq Nat /\ IsFiniteSet(Id)
ASSUME DayAssumption == LastDay \in Nat /\ Inactive \in Nat /\ DaysOld \in Nat
ASSUME BoundAssumption == MaxSessions \in Nat /\ MaxDeaths \in Nat
ASSUME StatusAssumption == /\ AddStatus \subseteq Status
                           /\ PatchStatus \subseteq Status
                           /\ PatchRating \subseteq BOOLEAN
ASSUME NoneAssumption == None \notin Status \cup Nat \cup BOOLEAN

VARIABLES
    now,       \* today
    books,     \* committed rows of user_books
    sessions,  \* the days on which the sessions of a book started
    used,      \* ids that were ever handed to an INSERT
    pc,        \* the next statement of each update_book request
    job,       \* its id and PATCH, and started_at as its SELECT saw it
    sweep,     \* the state of each execution of check_abandoned_books
    deaths     \* workers that died

vars == <<now, books, sessions, used, pc, job, sweep, deaths>>

UserBook == [status: Status, rated: BOOLEAN,
             started: Day \cup {None}, finished: Day \cup {None}]

ASSUME RowAssumption == None \notin UserBook

\* A PATCH: status and rating may be absent, rating may be an explicit null
\* (FALSE).  id is what the path names, started what the handler selected.
Job == [id: Id \cup {None}, status: PatchStatus \cup {None},
        rating: PatchRating \cup {None}, started: Day \cup {None},
        today: Day]
NoJob == [id |-> None, status |-> None, rating |-> None, started |-> None,
          today |-> 0]

\* cutoff: the day before which activity is too old; todo: selected books
\* whose last session is not looked up yet, with their started_at; marked:
\* books to abandon; done: those whose UPDATE is executed.  touched: books
\* that a request changed since the SELECT (history, read by properties only).
Sweep == [phase: {"idle", "look", "flush"}, cutoff: Int,
          todo: SUBSET Id, started: [Id -> Day \cup {None}],
          marked: SUBSET Id, done: SUBSET Id, touched: SUBSET Id]
NoSweep == [phase |-> "idle", cutoff |-> 0, todo |-> {},
            started |-> [b \in Id |-> None], marked |-> {}, done |-> {},
            touched |-> {}]

TypeOK ==
    /\ now \in Day
    /\ books \in [Id -> UserBook \cup {None}]
    /\ sessions \in [Id -> SUBSET Day]
    /\ used \subseteq Id
    /\ pc \in [Req -> {"idle", "catalog", "write", "commit"}]
    /\ job \in [Req -> Job]
    /\ sweep \in [Sweeper -> Sweep]
    /\ deaths \in 0..MaxDeaths

Init ==
    /\ now = 0
    /\ books = [b \in Id |-> None]
    /\ sessions = [b \in Id |-> {}]
    /\ used = {}
    /\ pc = [r \in Req |-> "idle"]
    /\ job = [r \in Req |-> NoJob]
    /\ sweep = [w \in Sweeper |-> NoSweep]
    /\ deaths = 0

-----------------------------------------------------------------------------
(* Row locks of user_books, held to the end of the transaction.             *)

\* Books whose row an UPDATE of this request has locked.
LockedBy(r) == IF pc[r] = "commit" THEN {job[r].id} ELSE {}

Unlocked(b) == /\ \A r \in Req : b \notin LockedBy(r)
               /\ \A w \in Sweeper : b \notin sweep[w].done

\* Mutant: the flush goes by any order.
IsNextOfAny(w, b) ==
    sweep[w].phase = "flush" /\ b \in sweep[w].marked \ sweep[w].done

\* The row whose UPDATE the flush executes next: SQLAlchemy orders the
\* UPDATEs of a flush by primary key.
IsNext(w, b) ==
    /\ sweep[w].phase = "flush"
    /\ b \in sweep[w].marked \ sweep[w].done
    /\ \A c \in sweep[w].marked \ sweep[w].done : b <= c

\* The books of B are changed while sweeps are under way.
Touch(B) == sweep' = [w \in Sweeper |->
    IF sweep[w].phase = "idle" THEN sweep[w]
    ELSE [sweep[w] EXCEPT !.touched = @ \cup B]]

-----------------------------------------------------------------------------
(* Requests other than update_book, each at its commit.                     *)

\* POST /books: any status, no rating and no dates.
AddBook(b, s) ==
    /\ b \notin used
    /\ used' = used \cup {b}
    /\ books' = [books EXCEPT ![b] = [status |-> s, rated |-> FALSE,
                                      started |-> None, finished |-> None]]
    /\ Touch({b})
    /\ UNCHANGED <<now, sessions, pc, job, deaths>>

\* DELETE /books/{id}, with the cascade.
DeleteBook(b) ==
    /\ books[b] # None /\ Unlocked(b)
    /\ books' = [books EXCEPT ![b] = None]
    /\ sessions' = [sessions EXCEPT ![b] = {}]
    /\ Touch({b})
    /\ UNCHANGED <<now, used, pc, job, deaths>>

\* POST /books/{id}/sessions: of any book, whatever its status; it UPDATEs
\* the pages_read of the book.
CreateSession(b) ==
    /\ books[b] # None /\ Unlocked(b)
    /\ Cardinality(sessions[b]) < MaxSessions
    /\ sessions' = [sessions EXCEPT ![b] = @ \cup {now}]
    /\ Touch({b})
    /\ UNCHANGED <<now, books, used, pc, job, deaths>>

\* DELETE /books/{id}/sessions/{sid}: the last session of its day.  It
\* leaves the row of the book alone if pages_read stays what it is.
DeleteSession(b, d) ==
    /\ d \in sessions[b]
    /\ sessions' = [sessions EXCEPT ![b] = @ \ {d}]
    /\ Touch({b})
    /\ UNCHANGED <<now, books, used, pc, job, deaths>>

-----------------------------------------------------------------------------
(* PATCH /books/{id}: BookService.update_book                               *)

End(r) == /\ pc' = [pc EXCEPT ![r] = "idle"]
          /\ job' = [job EXCEPT ![r] = NoJob]

Fail(r) == End(r) /\ UNCHANGED <<now, books, sessions, used, sweep, deaths>>

\* The SELECT of the row; clients name ids they know.
UpdateFind(r) ==
    /\ pc[r] = "idle"
    /\ \E b \in used, s \in PatchStatus \cup {None}, n \in PatchRating \cup {None} :
          /\ books[b] # None
          /\ job' = [job EXCEPT ![r] = [id |-> b, status |-> s, rating |-> n,
                                        started |-> books[b].started,
                                        today |-> 0]]
    /\ pc' = [pc EXCEPT ![r] = "catalog"]
    /\ UNCHANGED <<now, books, sessions, used, sweep, deaths>>

\* After the SELECT of the catalog book the PATCH is judged and dated.
UpdateJudge(r) ==
    /\ pc[r] = "catalog"
    /\ \/ /\ job[r].status = "finished" => job[r].rating = TRUE
          /\ pc' = [pc EXCEPT ![r] = "write"]
          /\ job' = [job EXCEPT ![r].today = now]
          /\ UNCHANGED <<now, books, sessions, used, sweep, deaths>>
       \/ /\ job[r].status = "finished" /\ job[r].rating # TRUE
          /\ Fail(r)

\* Mutant: that the UPDATE has matched no row goes unnoticed.
UpdateWriteBlind(r) ==
    /\ pc[r] = "write" /\ Unlocked(job[r].id)
    /\ pc' = [pc EXCEPT ![r] = "commit"]
    /\ UNCHANGED <<now, books, sessions, used, job, sweep, deaths>>

\* The UPDATE waits for the row's lock; a row that is gone makes
\* _to_response(None) raise.
UpdateWrite(r) ==
    /\ pc[r] = "write" /\ Unlocked(job[r].id)
    /\ \/ /\ books[job[r].id] # None
          /\ pc' = [pc EXCEPT ![r] = "commit"]
          /\ UNCHANGED <<now, books, sessions, used, job, sweep, deaths>>
       \/ books[job[r].id] = None /\ Fail(r)

\* Mutant: the whole row is saved as it was selected.
PatchedWhole(r, row) ==
    [status   |-> IF job[r].status # None THEN job[r].status ELSE row.status,
     rated    |-> IF job[r].rating # None THEN job[r].rating ELSE row.rated,
     started  |-> IF job[r].status = "reading" /\ job[r].started = None
                  THEN job[r].today ELSE job[r].started,
     finished |-> IF job[r].status = "finished"
                  THEN job[r].today ELSE row.finished]

\* The row after the UPDATE: only the columns of update_data are set.
Patched(r, row) ==
    [status   |-> IF job[r].status # None THEN job[r].status ELSE row.status,
     rated    |-> IF job[r].rating # None THEN job[r].rating ELSE row.rated,
     started  |-> IF job[r].status = "reading" /\ job[r].started = None
                  THEN job[r].today ELSE row.started,
     finished |-> IF job[r].status = "finished"
                  THEN job[r].today ELSE row.finished]

UpdateCommit(r) ==
    /\ pc[r] = "commit" /\ End(r)
    /\ books' = [books EXCEPT ![job[r].id] = Patched(r, @)]
    /\ Touch({job[r].id})
    /\ UNCHANGED <<now, sessions, used, deaths>>

Update(r) == UpdateJudge(r) \/ UpdateWrite(r) \/ UpdateCommit(r)

-----------------------------------------------------------------------------
(* check_abandoned_books, started by beat or delivered again by Celery.     *)

\* The cutoff and the SELECT of the books that are being read.
SweepSelect(w) ==
    /\ sweep[w].phase = "idle"
    /\ LET reading == {b \in Id : /\ books[b] # None
                                  /\ books[b].status = "reading"}
       IN  sweep' = [sweep EXCEPT ![w] =
              [NoSweep EXCEPT !.phase = "look",
                              !.cutoff = now - Inactive,
                              !.todo = reading,
                              !.started = [b \in Id |->
                                 IF b \in reading THEN books[b].started
                                 ELSE None]]]
    /\ UNCHANGED <<now, books, sessions, used, pc, job, deaths>>

\* Mutant: a book is judged by its own started_at alone.
OldWhenStarted(days, started, cutoff) ==
    started # None /\ started < cutoff

\* Mutant: <= for <.
OldInclusive(days, started, cutoff) ==
    \/ days # {} /\ \A d \in days : d <= cutoff
    \/ days = {} /\ started # None /\ started <= cutoff

\* last_session.started_at < cutoff_date, or no session and the book's own
\* started_at < cutoff_date.
Old(days, started, cutoff) ==
    \/ days # {} /\ \A d \in days : d < cutoff
    \/ days = {} /\ started # None /\ started < cutoff

\* The SELECT of the last session of one book.
SweepLook(w, b) ==
    /\ sweep[w].phase = "look" /\ b \in sweep[w].todo
    /\ sweep' = [sweep EXCEPT
          ![w].todo = @ \ {b},
          ![w].started[b] = None,
          ![w].marked = IF Old(sessions[b], sweep[w].started[b], sweep[w].cutoff)
                        THEN @ \cup {b} ELSE @]
    /\ UNCHANGED <<now, books, sessions, used, pc, job, deaths>>

SweepFlush(w) ==
    /\ sweep[w].phase = "look" /\ sweep[w].todo = {}
    /\ sweep' = [sweep EXCEPT ![w].phase = "flush"]
    /\ UNCHANGED <<now, books, sessions, used, pc, job, deaths>>

SweepEnd(w) == sweep' = [sweep EXCEPT ![w] = NoSweep]

\* UPDATE user_books SET status = 'abandoned' WHERE id = b: whatever the row
\* says now.  If the row is gone the flush raises StaleDataError.
SweepWrite(w, b) ==
    /\ IsNext(w, b) /\ Unlocked(b)
    /\ \/ /\ books[b] # None
          /\ sweep' = [sweep EXCEPT ![w].done = @ \cup {b}]
       \/ books[b] = None /\ SweepEnd(w)
    /\ UNCHANGED <<now, books, sessions, used, pc, job, deaths>>

SweepCommit(w) ==
    /\ sweep[w].phase = "flush" /\ sweep[w].done = sweep[w].marked
    /\ books' = [b \in Id |->
          IF b \in sweep[w].marked
          THEN [books[b] EXCEPT !.status = "abandoned"] ELSE books[b]]
    /\ SweepEnd(w)
    /\ UNCHANGED <<now, sessions, used, pc, job, deaths>>

SweepStep(w) == \/ SweepFlush(w) \/ SweepCommit(w)
                \/ \E b \in Id : SweepLook(w, b) \/ SweepWrite(w, b)

-----------------------------------------------------------------------------
(* The surroundings.                                                        *)

\* cleanup_old_sessions: one DELETE, which writes no book.
CleanupOldSessions ==
    /\ sessions' = [b \in Id |-> {d \in sessions[b] : d >= now - DaysOld}]
    /\ Touch({b \in Id : sessions'[b] # sessions[b]})
    /\ UNCHANGED <<now, books, used, pc, job, deaths>>

\* The worker dies, the transaction is rolled back, and the task, which is
\* acknowledged late, is delivered again.
Die(w) ==
    /\ deaths < MaxDeaths /\ sweep[w].phase # "idle"
    /\ deaths' = deaths + 1
    /\ SweepEnd(w)
    /\ UNCHANGED <<now, books, sessions, used, pc, job>>

Lose(r) == pc[r] # "idle" /\ Fail(r)

NextDay ==
    /\ now < LastDay
    /\ now' = now + 1
    /\ UNCHANGED <<books, sessions, used, pc, job, sweep, deaths>>

Next ==
    \/ \E b \in Id :
          \/ \E s \in AddStatus : AddBook(b, s)
          \/ DeleteBook(b)
          \/ CreateSession(b)
          \/ \E d \in Day : DeleteSession(b, d)
    \/ \E r \in Req : UpdateFind(r) \/ Update(r) \/ Lose(r)
    \/ \E w \in Sweeper : SweepSelect(w) \/ SweepStep(w) \/ Die(w)
    \/ CleanupOldSessions
    \/ NextDay

Spec == Init /\ [][Next]_vars

\* The event loop and the workers go on with what they began, beat starts
\* the task again and again, and PostgreSQL grants a contended row lock in
\* the order of the queue.
Fairness ==
    /\ \A r \in Req : WF_vars(Update(r))
    /\ \A w \in Sweeper :
          /\ WF_vars(SweepSelect(w))
          /\ WF_vars(SweepStep(w))
          /\ \A b \in Id : SF_vars(SweepWrite(w, b))

FairSpec == Spec /\ Fairness

-----------------------------------------------------------------------------
(* Properties.                                                              *)

\* What a request or a sweep that has begun can do next, if it need not wait.
RequestGoes(r) == \/ pc[r] \in {"catalog", "commit"}
                  \/ pc[r] = "write" /\ Unlocked(job[r].id)
SweepGoes(w) == \/ sweep[w].phase = "look"
                \/ sweep[w].phase = "flush" /\ sweep[w].done = sweep[w].marked
                \/ \E b \in Id : IsNext(w, b) /\ Unlocked(b)

\* However many sweeps and requests there are, as Celery may deliver one task
\* twice and each sweep locks many rows, they never all wait for each other.
NobodyStuck ==
    (\E r \in Req : pc[r] # "idle") \/ (\E w \in Sweeper : sweep[w].phase # "idle")
    => (\E r \in Req : RequestGoes(r)) \/ (\E w \in Sweeper : SweepGoes(w))

\* No request and no sweep takes away a date that another recorded: as long
\* as the row lives, started_at and finished_at stay set.
DatesKept == [][\A b \in Id : books[b] # None /\ books'[b] # None =>
                   /\ books[b].started # None => books'[b].started # None
                   /\ books[b].finished # None => books'[b].finished # None]_vars

\* The days on which a book was read, as far as they are known.
ReadOn(b) == IF sessions[b] # {} THEN sessions[b] ELSE {books[b].started} \ {None}

Abandonable(b, cutoff) ==
    /\ books[b] # None /\ books[b].status = "reading"
    /\ ReadOn(b) # {} /\ \A d \in ReadOn(b) : d < cutoff

\* A sweep abandons, of the books that no request changes while it runs,
\* exactly those that are being read and were last read before the cutoff.
SweepExact ==
    [][\A w \in Sweeper : sweep[w].phase = "flush" /\ SweepCommit(w) =>
          \A b \in Id \ sweep[w].touched :
             books[b] # None =>
             books'[b].status = IF Abandonable(b, sweep[w].cutoff)
                                THEN "abandoned" ELSE books[b].status]_vars

\* A book last read more than days_inactive days ago does not stay
\* "reading" for ever, whoever dies or deletes other books meanwhile.
InactiveSwept ==
    \A b \in Id : []<>~Abandonable(b, now - Inactive)

\* What the sweep w knows of a book that nobody touched since its SELECT.
Judged(w, b) ==
    /\ b \in sweep[w].todo => /\ books[b] # None
                              /\ books[b].status \in {"reading", "abandoned"}
                              /\ sweep[w].started[b] = books[b].started
    /\ b \in sweep[w].marked =>
          /\ books[b] # None
          /\ books[b].status \in {"reading", "abandoned"}
          /\ Old(sessions[b], books[b].started, sweep[w].cutoff)
    /\ b \notin sweep[w].todo \cup sweep[w].marked /\ books[b] # None
       /\ books[b].status = "reading"
          => ~Old(sessions[b], books[b].started, sweep[w].cutoff)

\* A row that an open transaction has updated is still there at its commit.
LockedRowsKept ==
    /\ \A r \in Req : \A b \in LockedBy(r) : books[b] # None
    /\ \A w \in Sweeper : \A b \in sweep[w].done : books[b] # None

SweepOK(w) ==
    /\ sweep[w].phase = "idle" => sweep[w] = NoSweep
    /\ sweep[w].phase = "look" => sweep[w].done = {}
    /\ sweep[w].phase = "flush" => sweep[w].todo = {}
    /\ sweep[w].done \subseteq sweep[w].marked
    /\ \A b \in sweep[w].done, c \in sweep[w].marked \ sweep[w].done : b < c
    /\ sweep[w].phase # "idle" => \A b \in Id \ sweep[w].touched : Judged(w, b)

\* The inductive invariant: sweeps take their locks in ascending order, and
\* what they found out is out of date for touched books only.
LInv ==
    /\ TypeOK
    /\ LockedRowsKept
    /\ \A b \in Id : books[b] # None => b \in used
    /\ \A r \in Req : pc[r] # "idle" => job[r].id \in Id
    /\ \A w \in Sweeper : SweepOK(w)

\* "Check for abandoned books (no activity for specified days)": a sweep
\* abandons no book that was started within these days.
StartedIsActive ==
    [][\A w \in Sweeper, b \in Id :
          SweepCommit(w) /\ b \in sweep[w].marked /\ books[b].started # None
          => books[b].started < sweep[w].cutoff]_vars
=============================================================================
