------------------------- MODULE BookLifecycleProofs -------------------------
(***************************************************************************)
(* BookLifecycle for any numbers of books, requests, sweeps and days: the  *)
(* inductive invariant LInv, and what follows from it.                     *)
(***************************************************************************)
EXTENDS BookLifecycle, FiniteSetTheorems, TLAPS

LEMMA InitInv == Init => LInv
<1> SUFFICES ASSUME Init PROVE LInv
  OBVIOUS
<1>1. TypeOK
  BY DayAssumption, BoundAssumption DEF Init, TypeOK, Day, NoJob, Job, NoSweep, Sweep
<1>2. \A w \in Sweeper : SweepOK(w)
  BY DEF Init, SweepOK, NoSweep
<1> QED
  BY <1>1, <1>2 DEF Init, LInv, LockedRowsKept, LockedBy, NoSweep

(* The type of the row that a PATCH leaves. *)
LEMMA PatchedType ==
    ASSUME TypeOK, NEW r \in Req, NEW row \in UserBook
    PROVE  Patched(r, row) \in UserBook
<1>1. job[r] \in Job
  BY DEF TypeOK
<1>2. /\ job[r].status \in Status \cup {None}
      /\ job[r].rating \in BOOLEAN \cup {None}
      /\ job[r].today \in Day
  BY <1>1, StatusAssumption DEF Job
<1>3. /\ row.status \in Status
      /\ row.rated \in BOOLEAN
      /\ row.started \in Day \cup {None}
      /\ row.finished \in Day \cup {None}
  BY DEF UserBook
<1>4. (IF job[r].rating # None THEN job[r].rating ELSE row.rated) \in BOOLEAN
  BY <1>2, <1>3, Zenon
<1>5. (IF job[r].status # None THEN job[r].status ELSE row.status) \in Status
  BY <1>2, <1>3, Zenon
<1>6. (IF job[r].status = "reading" /\ job[r].started = None
       THEN job[r].today ELSE row.started) \in Day \cup {None}
  BY <1>2, <1>3, Zenon
<1>7. (IF job[r].status = "finished" THEN job[r].today ELSE row.finished)
         \in Day \cup {None}
  BY <1>2, <1>3, Zenon
<1> QED
  BY <1>4, <1>5, <1>6, <1>7, Zenon DEF Patched, UserBook

(* A sweep that another's step only touches keeps its type and its          *)
(* knowledge, if nothing else changes than the touched books.               *)
LEMMA Touched ==
    ASSUME LInv, NEW B \in SUBSET Id, Touch(B),
           \A b \in Id \ B : books'[b] = books[b] /\ sessions'[b] = sessions[b]
    PROVE  /\ sweep' \in [Sweeper -> Sweep]
           /\ \A w \in Sweeper : SweepOK(w)'
           /\ \A w \in Sweeper : sweep'[w].done = sweep[w].done
<1>1. sweep \in [Sweeper -> Sweep]
  BY DEF LInv, TypeOK
<1>2. ASSUME NEW w \in Sweeper
      PROVE  /\ sweep'[w] \in Sweep
             /\ sweep'[w].phase = sweep[w].phase
             /\ sweep'[w].cutoff = sweep[w].cutoff
             /\ sweep'[w].todo = sweep[w].todo
             /\ sweep'[w].started = sweep[w].started
             /\ sweep'[w].marked = sweep[w].marked
             /\ sweep'[w].done = sweep[w].done
             /\ sweep[w].phase # "idle" => sweep'[w].touched = sweep[w].touched \cup B
             /\ sweep[w].phase = "idle" => sweep'[w] = sweep[w]
  BY <1>1, <1>2 DEF Touch, Sweep
<1>3. sweep' \in [Sweeper -> Sweep]
  BY <1>2 DEF Touch
<1>4. ASSUME NEW w \in Sweeper PROVE SweepOK(w)'
  <2>1. SweepOK(w)
    BY DEF LInv
  <2>2. ASSUME sweep'[w].phase # "idle", NEW b \in Id \ sweep'[w].touched
        PROVE  Judged(w, b)'
    <3>1. b \in Id \ B /\ b \in Id \ sweep[w].touched
      BY <1>2, <2>2
    <3>2. Judged(w, b)
      BY <1>2, <2>1, <2>2, <3>1 DEF SweepOK
    <3> QED
      BY <1>2, <3>1, <3>2 DEF Judged
  <2> QED
    BY <1>2, <2>1, <2>2 DEF SweepOK
<1> QED
  BY <1>2, <1>3, <1>4

(* Nothing that a sweep looks at changes. *)
LEMMA Unswept ==
    ASSUME LInv, UNCHANGED <<books, sessions, sweep>>
    PROVE  \A w \in Sweeper : SweepOK(w)'
BY DEF LInv, SweepOK, Judged

(* A step of the sweep w alone leaves the other sweeps as they are. *)
LEMMA OneSweep ==
    ASSUME LInv, UNCHANGED <<books, sessions>>, NEW w \in Sweeper,
           NEW s \in Sweep, sweep' = [sweep EXCEPT ![w] = s], SweepOK(w)'
    PROVE  sweep' \in [Sweeper -> Sweep] /\ \A v \in Sweeper : SweepOK(v)'
<1>1. sweep \in [Sweeper -> Sweep]
  BY DEF LInv, TypeOK
<1>2. ASSUME NEW v \in Sweeper, v # w PROVE SweepOK(v)'
  <2>1. sweep'[v] = sweep[v] /\ SweepOK(v)
    BY <1>1, <1>2 DEF LInv
  <2> QED
    BY <2>1 DEF SweepOK, Judged
<1> QED
  BY <1>1, <1>2

-----------------------------------------------------------------------------
(* Each action keeps LInv.                                                  *)

(* The row of b may change, as long as a locked row stays.                   *)
LEMMA CommitInv ==
    ASSUME LInv, NEW b \in Id, Touch({b}),
           NEW row \in UserBook \cup {None}, NEW days \in SUBSET Day,
           NEW ids \in SUBSET Id, used \subseteq ids, used' = ids,
           row = None /\ books[b] # None => Unlocked(b), row # None => b \in ids,
           books' = [books EXCEPT ![b] = row],
           sessions' = [sessions EXCEPT ![b] = days],
           UNCHANGED <<now, pc, job, deaths>>
    PROVE  LInv'
<1>1. /\ sweep' \in [Sweeper -> Sweep]
      /\ \A w \in Sweeper : SweepOK(w)'
      /\ \A w \in Sweeper : sweep'[w].done = sweep[w].done
  <2>1. \A c \in Id \ {b} : books'[c] = books[c] /\ sessions'[c] = sessions[c]
    BY DEF LInv, TypeOK
  <2> QED
    BY <2>1, Touched
<1>2. TypeOK'
  BY <1>1 DEF LInv, TypeOK
<1>3. LockedRowsKept'
  <2>1. \A c \in Id \ {b} : books'[c] = books[c]
    BY DEF LInv, TypeOK
  <2>2. books'[b] = row
    BY DEF LInv, TypeOK
  <2>3. \A r \in Req : LockedBy(r)' = LockedBy(r)
    BY DEF LockedBy
  <2>4. \A r \in Req : LockedBy(r) \subseteq Id
    BY DEF LInv, LockedBy
  <2>5. \A w \in Sweeper : sweep[w].done \subseteq Id
    BY DEF LInv, TypeOK, Sweep
  <2>6. ASSUME NEW r \in Req, NEW c \in LockedBy(r) PROVE books'[c] # None
    BY <2>1, <2>2, <2>4, <2>6 DEF LInv, LockedRowsKept, Unlocked
  <2>7. ASSUME NEW w \in Sweeper, NEW c \in sweep[w].done PROVE books'[c] # None
    BY <2>1, <2>2, <2>5, <2>7 DEF LInv, LockedRowsKept, Unlocked
  <2> QED
    BY <1>1, <2>3, <2>6, <2>7 DEF LockedRowsKept
<1>4. \A c \in Id : books'[c] # None => c \in used'
  BY DEF LInv, TypeOK
<1> QED
  BY <1>1, <1>2, <1>3, <1>4 DEF LInv

LEMMA AddBookInv ==
    ASSUME LInv, NEW b \in Id, NEW s \in AddStatus, AddBook(b, s)
    PROVE  LInv'
<1> DEFINE row == [status |-> s, rated |-> FALSE, started |-> None, finished |-> None]
<1>1. row \in UserBook /\ row # None
  <2>1. s \in Status
    BY StatusAssumption
  <2>2. row \in UserBook
    BY <2>1, SMT DEF UserBook
  <2> QED
    BY <2>2, RowAssumption, Zenon
<1>2. sessions' = [sessions EXCEPT ![b] = sessions[b]] /\ sessions[b] \in SUBSET Day
  BY DEF AddBook, LInv, TypeOK
<1>3. used \cup {b} \in SUBSET Id
  BY DEF LInv, TypeOK
<1> HIDE DEF row
<1>4. /\ books' = [books EXCEPT ![b] = row]
      /\ used' = used \cup {b}
      /\ Touch({b}) /\ UNCHANGED <<now, pc, job, deaths>>
  BY DEF AddBook, row
<1> QED
  BY <1>1, <1>2, <1>3, <1>4, CommitInv

LEMMA DeleteBookInv == ASSUME LInv, NEW b \in Id, DeleteBook(b) PROVE LInv'
BY CommitInv DEF DeleteBook, LInv, TypeOK

LEMMA CreateSessionInv == ASSUME LInv, NEW b \in Id, CreateSession(b) PROVE LInv'
<1>1. books' = [books EXCEPT ![b] = books[b]]
  BY DEF CreateSession, LInv, TypeOK
<1>2. books[b] \in UserBook \cup {None}
  BY DEF LInv, TypeOK
<1>3. sessions[b] \cup {now} \in SUBSET Day
  BY DEF LInv, TypeOK
<1> QED
  BY <1>1, <1>2, <1>3, CommitInv DEF CreateSession, LInv, TypeOK

LEMMA DeleteSessionInv ==
    ASSUME LInv, NEW b \in Id, NEW d \in Day, DeleteSession(b, d)
    PROVE  LInv'
<1>1. books' = [books EXCEPT ![b] = books[b]]
  BY DEF DeleteSession, LInv, TypeOK
<1>2. books[b] \in UserBook \cup {None}
  BY DEF LInv, TypeOK
<1>3. sessions[b] \ {d} \in SUBSET Day
  BY DEF LInv, TypeOK
<1> QED
  BY <1>1, <1>2, <1>3, CommitInv DEF DeleteSession, LInv, TypeOK

(* A step of the request r alone.                                           *)
LEMMA RequestInv ==
    ASSUME LInv, NEW r \in Req, NEW p \in {"idle", "catalog", "write", "commit"},
           NEW j \in Job, p # "idle" => j.id \in Id,
           p = "commit" => books[j.id] # None,
           pc' = [pc EXCEPT ![r] = p], job' = [job EXCEPT ![r] = j],
           UNCHANGED <<now, books, sessions, used, sweep, deaths>>
    PROVE  LInv'
<1>1. \A w \in Sweeper : SweepOK(w)'
  BY Unswept
<1>2. TypeOK'
  BY DEF LInv, TypeOK
<1>3. LockedRowsKept'
  BY DEF LInv, LockedRowsKept, LockedBy, TypeOK
<1>4. \A q \in Req : pc'[q] # "idle" => job'[q].id \in Id
  BY DEF LInv, TypeOK
<1> QED
  BY <1>1, <1>2, <1>3, <1>4 DEF LInv

LEMMA NoJobType == NoJob \in Job
BY DayAssumption DEF NoJob, Job, Day

LEMMA FailInv == ASSUME LInv, NEW r \in Req, Fail(r) PROVE LInv'
BY NoJobType, RequestInv DEF Fail, End

LEMMA UpdateFindInv == ASSUME LInv, NEW r \in Req, UpdateFind(r) PROVE LInv'
<1>1. PICK b \in used, s \in PatchStatus \cup {None}, n \in PatchRating \cup {None} :
         /\ books[b] # None
         /\ job' = [job EXCEPT ![r] = [id |-> b, status |-> s, rating |-> n,
                                       started |-> books[b].started, today |-> 0]]
  BY DEF UpdateFind
<1>2. b \in Id /\ books[b] \in UserBook
  BY <1>1 DEF LInv, TypeOK
<1>3. books[b].started \in Day \cup {None} /\ 0 \in Day
  BY <1>2, DayAssumption DEF UserBook, Day
<1> DEFINE j == [id |-> b, status |-> s, rating |-> n,
                 started |-> books[b].started, today |-> 0]
<1>4. j \in Job
  BY <1>2, <1>3 DEF Job
<1>5. j.id \in Id
  BY <1>2
<1> HIDE DEF j
<1> QED
  BY <1>1, <1>4, <1>5, RequestInv DEF UpdateFind, j

LEMMA UpdateJudgeInv == ASSUME LInv, NEW r \in Req, UpdateJudge(r) PROVE LInv'
<1>1. CASE Fail(r)
  BY <1>1, FailInv
<1>2. CASE /\ pc[r] = "catalog" /\ pc' = [pc EXCEPT ![r] = "write"]
           /\ job' = [job EXCEPT ![r].today = now]
           /\ UNCHANGED <<now, books, sessions, used, sweep, deaths>>
  <2> DEFINE j == [job[r] EXCEPT !.today = now]
  <2>1. job[r] \in Job /\ now \in Day /\ job[r].id \in Id
    BY <1>2 DEF LInv, TypeOK
  <2>2. j \in Job /\ j.id \in Id
    BY <2>1 DEF Job
  <2>3. job' = [job EXCEPT ![r] = j]
    BY <1>2 DEF LInv, TypeOK
  <2> HIDE DEF j
  <2> QED
    BY <1>2, <2>2, <2>3, RequestInv
<1> QED
  BY <1>1, <1>2 DEF UpdateJudge

LEMMA UpdateWriteInv == ASSUME LInv, NEW r \in Req, UpdateWrite(r) PROVE LInv'
<1>1. CASE Fail(r)
  BY <1>1, FailInv
<1>2. CASE /\ pc[r] = "write" /\ books[job[r].id] # None
           /\ pc' = [pc EXCEPT ![r] = "commit"]
           /\ UNCHANGED <<now, books, sessions, used, job, sweep, deaths>>
  <2>1. job[r] \in Job /\ job[r].id \in Id
    BY <1>2 DEF LInv, TypeOK
  <2>2. job' = [job EXCEPT ![r] = job[r]]
    BY <1>2 DEF LInv, TypeOK
  <2> QED
    BY <1>2, <2>1, <2>2, RequestInv
<1> QED
  BY <1>1, <1>2 DEF UpdateWrite

LEMMA UpdateCommitInv == ASSUME LInv, NEW r \in Req, UpdateCommit(r) PROVE LInv'
<1> DEFINE b == job[r].id
           row == Patched(r, books[b])
<1>1. b \in Id /\ books[b] # None
  BY DEF UpdateCommit, LInv, LockedRowsKept, LockedBy
<1>2. row \in UserBook /\ row # None
  <2>1. books[b] \in UserBook
    BY <1>1 DEF LInv, TypeOK
  <2> QED
    BY <2>1, PatchedType, RowAssumption DEF LInv
<1> HIDE DEF row
<1>3. books' = [books EXCEPT ![b] = row] /\ Touch({b})
  BY DEF UpdateCommit, LInv, TypeOK, row
<1>4. \A c \in Id \ {b} : books'[c] = books[c] /\ sessions'[c] = sessions[c]
  BY <1>1, <1>3 DEF UpdateCommit, LInv, TypeOK
<1> HIDE DEF b
<1>5. /\ sweep' \in [Sweeper -> Sweep]
      /\ \A w \in Sweeper : SweepOK(w)'
      /\ \A w \in Sweeper : sweep'[w].done = sweep[w].done
  BY <1>1, <1>3, <1>4, Touched
<1>6. TypeOK'
  BY <1>1, <1>2, <1>3, <1>5, NoJobType DEF LInv, TypeOK, UpdateCommit, End
<1>7. \A c \in Id : books'[c] # None <=> books[c] # None
  BY <1>1, <1>2, <1>3 DEF LInv, TypeOK
<1>8. \A q \in Req : LockedBy(q)' \subseteq LockedBy(q)
  BY DEF UpdateCommit, End, LockedBy, LInv, TypeOK
<1>9. \A q \in Req : LockedBy(q) \subseteq Id
  BY DEF LInv, LockedBy
<1>10. \A w \in Sweeper : sweep[w].done \subseteq Id
  BY DEF LInv, TypeOK, Sweep
<1>11. LockedRowsKept'
  BY <1>5, <1>7, <1>8, <1>9, <1>10 DEF LInv, LockedRowsKept
<1>12. \A q \in Req : pc'[q] # "idle" => job'[q].id \in Id
  BY DEF UpdateCommit, End, LInv, TypeOK
<1> QED
  BY <1>5, <1>6, <1>7, <1>11, <1>12 DEF LInv, UpdateCommit

(* A step of the sweep w that writes no book.                               *)
LEMMA SweepInv ==
    ASSUME LInv, NEW w \in Sweeper, NEW s \in Sweep,
           sweep' = [sweep EXCEPT ![w] = s], SweepOK(w)',
           \A b \in s.done : books[b] # None, deaths' \in 0..MaxDeaths,
           UNCHANGED <<now, books, sessions, used, pc, job>>
    PROVE  LInv'
<1>1. sweep' \in [Sweeper -> Sweep] /\ \A v \in Sweeper : SweepOK(v)'
  BY OneSweep
<1>2. TypeOK'
  BY <1>1 DEF LInv, TypeOK
<1>3. LockedRowsKept'
  <2>1. \A v \in Sweeper : \A b \in sweep'[v].done : books'[b] # None
    BY DEF LInv, LockedRowsKept, TypeOK
  <2> QED
    BY <2>1 DEF LInv, LockedRowsKept, LockedBy
<1> QED
  BY <1>1, <1>2, <1>3 DEF LInv

LEMMA SweepEndInv ==
    ASSUME LInv, NEW w \in Sweeper, SweepEnd(w), deaths' \in 0..MaxDeaths,
           UNCHANGED <<now, books, sessions, used, pc, job>>
    PROVE  LInv'
<1>1. NoSweep \in Sweep /\ NoSweep.done = {}
  BY DEF NoSweep, Sweep
<1>2. SweepOK(w)'
  <2>1. sweep'[w] = NoSweep
    BY DEF SweepEnd, LInv, TypeOK
  <2> QED
    BY <2>1 DEF SweepOK, NoSweep
<1> QED
  BY <1>1, <1>2, SweepInv DEF SweepEnd

LEMMA SweepSelectInv == ASSUME LInv, NEW w \in Sweeper, SweepSelect(w) PROVE LInv'
<1> DEFINE reading == {b \in Id : books[b] # None /\ books[b].status = "reading"}
           start == [b \in Id |-> IF b \in reading THEN books[b].started ELSE None]
           s == [NoSweep EXCEPT !.phase = "look", !.cutoff = now - Inactive,
                                !.todo = reading, !.started = start]
<1>1. /\ s.phase = "look" /\ s.todo = reading /\ s.started = start
      /\ s.marked = {} /\ s.done = {} /\ s.touched = {}
  BY DEF NoSweep
<1>2. s \in Sweep
  <2>1. now - Inactive \in Int
    BY DayAssumption DEF LInv, TypeOK, Day
  <2>2. start \in [Id -> Day \cup {None}]
    BY DEF LInv, TypeOK, UserBook
  <2> QED
    BY <2>1, <2>2 DEF Sweep, NoSweep
<1>3. sweep' = [sweep EXCEPT ![w] = s]
  BY DEF SweepSelect
<1> HIDE DEF s
<1>4. sweep'[w] = s
  BY <1>3 DEF LInv, TypeOK
<1>5. ASSUME NEW b \in Id PROVE Judged(w, b)'
  <2>1. sweep'[w].todo = reading /\ sweep'[w].marked = {}
    BY <1>1, <1>4
  <2>2. b \in reading => sweep'[w].started[b] = books[b].started
    BY <1>1, <1>4
  <2>3. UNCHANGED <<books, sessions>>
    BY DEF SweepSelect
  <2> HIDE DEF start
  <2> QED
    BY <2>1, <2>2, <2>3 DEF Judged
<1>6. SweepOK(w)'
  BY <1>1, <1>4, <1>5 DEF SweepOK
<1> QED
  BY <1>1, <1>2, <1>3, <1>6, SweepInv DEF SweepSelect, LInv, TypeOK

LEMMA SweepLookInv ==
    ASSUME LInv, NEW w \in Sweeper, NEW b \in Id, SweepLook(w, b)
    PROVE  LInv'
<1> DEFINE old == Old(sessions[b], sweep[w].started[b], sweep[w].cutoff)
           s == [sweep[w] EXCEPT !.todo = @ \ {b}, !.started[b] = None,
                                 !.marked = IF old THEN @ \cup {b} ELSE @]
<1>1. sweep[w] \in Sweep /\ SweepOK(w)
  BY DEF LInv, TypeOK
<1>2. /\ s.phase = "look" /\ s.todo = sweep[w].todo \ {b}
      /\ s.started = [sweep[w].started EXCEPT ![b] = None]
      /\ s.marked = IF old THEN sweep[w].marked \cup {b} ELSE sweep[w].marked
      /\ s.done = sweep[w].done /\ s.touched = sweep[w].touched
      /\ s.cutoff = sweep[w].cutoff
  BY <1>1 DEF Sweep, SweepLook
<1>3. s \in Sweep
  BY <1>1, <1>2 DEF Sweep
<1>4. sweep' = [sweep EXCEPT ![w] = s]
  BY DEF SweepLook, LInv, TypeOK
<1> HIDE DEF s
<1>5. sweep'[w] = s
  BY <1>4 DEF LInv, TypeOK
<1>6. s.done = {} /\ b \in sweep[w].todo
  BY <1>1, <1>2 DEF SweepOK, SweepLook
<1>7. ASSUME NEW c \in Id \ s.touched PROVE Judged(w, c)'
  <2>1. Judged(w, c)
    BY <1>1, <1>2, <1>7 DEF SweepOK, SweepLook
  <2>2. UNCHANGED <<books, sessions>>
    BY DEF SweepLook
  <2>3. CASE c = b
    <3>1. c \notin sweep'[w].todo
      BY <1>2, <1>5, <2>3
    <3>2. old <=> Old(sessions[c], books[c].started, sweep'[w].cutoff)
      BY <1>2, <1>5, <1>6, <2>1, <2>3 DEF Judged
    <3>3. c \in sweep'[w].marked <=> old \/ c \in sweep[w].marked
      BY <1>2, <1>5, <2>3
    <3> HIDE DEF old
    <3> QED
      BY <1>2, <1>5, <1>6, <2>1, <2>2, <2>3, <3>1, <3>2, <3>3 DEF Judged
  <2>4. CASE c # b
    <3>1. /\ c \in sweep'[w].todo <=> c \in sweep[w].todo
          /\ c \in sweep'[w].marked <=> c \in sweep[w].marked
          /\ sweep'[w].started[c] = sweep[w].started[c]
      BY <1>1, <1>2, <1>5, <2>4 DEF Sweep
    <3> QED
      BY <1>2, <1>5, <2>1, <2>2, <3>1 DEF Judged
  <2> QED
    BY <2>3, <2>4
<1>8. SweepOK(w)'
  BY <1>2, <1>5, <1>6, <1>7 DEF SweepOK
<1> QED
  BY <1>3, <1>4, <1>6, <1>8, SweepInv DEF SweepLook, LInv, TypeOK

LEMMA SweepFlushInv == ASSUME LInv, NEW w \in Sweeper, SweepFlush(w) PROVE LInv'
<1> DEFINE s == [sweep[w] EXCEPT !.phase = "flush"]
<1>1. sweep[w] \in Sweep /\ SweepOK(w)
  BY DEF LInv, TypeOK
<1>2. /\ s.phase = "flush" /\ s.todo = {} /\ s.started = sweep[w].started
      /\ s.marked = sweep[w].marked /\ s.done = {} /\ sweep[w].todo = {}
      /\ s.touched = sweep[w].touched /\ s.cutoff = sweep[w].cutoff
  BY <1>1 DEF Sweep, SweepFlush, SweepOK
<1>3. s \in Sweep
  BY <1>1 DEF Sweep
<1>4. sweep' = [sweep EXCEPT ![w] = s]
  BY DEF SweepFlush, LInv, TypeOK
<1> HIDE DEF s
<1>5. sweep'[w] = s
  BY <1>4 DEF LInv, TypeOK
<1>6. SweepOK(w)'
  BY <1>1, <1>2, <1>5 DEF SweepOK, Judged, SweepFlush
<1> QED
  BY <1>2, <1>3, <1>4, <1>6, SweepInv DEF SweepFlush, LInv, TypeOK

LEMMA SweepWriteInv ==
    ASSUME LInv, NEW w \in Sweeper, NEW b \in Id, SweepWrite(w, b)
    PROVE  LInv'
<1>1. CASE SweepEnd(w)
  BY <1>1, SweepEndInv DEF SweepWrite, LInv, TypeOK
<1>2. CASE books[b] # None /\ sweep' = [sweep EXCEPT ![w].done = @ \cup {b}]
  <2> DEFINE s == [sweep[w] EXCEPT !.done = @ \cup {b}]
  <2>1. sweep[w] \in Sweep /\ SweepOK(w)
    BY DEF LInv, TypeOK
  <2>2. /\ s.phase = "flush" /\ s.todo = sweep[w].todo
        /\ s.started = sweep[w].started /\ s.marked = sweep[w].marked
        /\ s.done = sweep[w].done \cup {b}
        /\ s.touched = sweep[w].touched /\ s.cutoff = sweep[w].cutoff
    BY <2>1 DEF Sweep, SweepWrite, IsNext
  <2>3. s \in Sweep
    BY <2>1 DEF Sweep
  <2>4. sweep' = [sweep EXCEPT ![w] = s]
    BY <1>2 DEF LInv, TypeOK
  <2> HIDE DEF s
  <2>5. sweep'[w] = s
    BY <2>4 DEF LInv, TypeOK
  <2>6. \A c \in s.done, d \in s.marked \ s.done : c < d
    <3>1. s.marked \subseteq Nat
      BY <2>3, IdAssumption DEF Sweep
    <3>2. \A d \in s.marked \ s.done : b < d
      BY <2>1, <2>2, <3>1 DEF SweepWrite, IsNext, Sweep
    <3> QED
      BY <2>1, <2>2, <3>2 DEF SweepOK
  <2>7. SweepOK(w)'
    BY <2>1, <2>2, <2>5, <2>6 DEF SweepOK, Judged, SweepWrite, IsNext
  <2>8. \A c \in s.done : books[c] # None
    BY <1>2, <2>2 DEF LInv, LockedRowsKept
  <2> QED
    BY <2>3, <2>4, <2>7, <2>8, SweepInv DEF SweepWrite, LInv, TypeOK
<1> QED
  BY <1>1, <1>2 DEF SweepWrite

LEMMA SweepCommitInv == ASSUME LInv, NEW w \in Sweeper, SweepCommit(w) PROVE LInv'
<1>1. sweep \in [Sweeper -> Sweep] /\ SweepOK(w)
  BY DEF LInv, TypeOK
<1>2. sweep' = [sweep EXCEPT ![w] = NoSweep] /\ NoSweep \in Sweep
  BY DEF SweepCommit, SweepEnd, NoSweep, Sweep
<1>3. ASSUME NEW b \in Id
      PROVE  /\ books'[b] # None <=> books[b] # None
             /\ books'[b] \in UserBook \cup {None}
             /\ books'[b] # None => /\ books'[b].started = books[b].started
                                    /\ books'[b].status \in {books[b].status, "abandoned"}
  <2>1. CASE b \in sweep[w].marked
    <3>1. books[b] \in UserBook
      BY <2>1 DEF SweepCommit, LInv, LockedRowsKept, TypeOK
    <3>2. books'[b] = [books[b] EXCEPT !.status = "abandoned"]
      BY <2>1 DEF SweepCommit
    <3>3. books'[b] \in UserBook
      BY <3>1, <3>2 DEF UserBook, Status
    <3>4. books'[b].started = books[b].started /\ books'[b].status = "abandoned"
      BY <3>1, <3>2 DEF UserBook
    <3> QED
      BY <3>1, <3>3, <3>4, RowAssumption
  <2>2. CASE b \notin sweep[w].marked
    <3>1. books'[b] = books[b]
      BY <2>2 DEF SweepCommit
    <3> QED
      BY <3>1 DEF LInv, TypeOK
  <2> QED
    BY <2>1, <2>2
<1>4. ASSUME NEW v \in Sweeper PROVE SweepOK(v)'
  <2>1. CASE v = w
    BY <1>1, <1>2, <2>1 DEF SweepOK, NoSweep
  <2>2. CASE v # w
    <3>1. sweep'[v] = sweep[v] /\ SweepOK(v)
      BY <1>1, <1>2, <2>2 DEF LInv
    <3>2. ASSUME NEW b \in Id, Judged(v, b) PROVE Judged(v, b)'
      <4>1. sessions' = sessions
        BY DEF SweepCommit
      <4>2. /\ books'[b] # None <=> books[b] # None
            /\ books'[b] # None => /\ books'[b].started = books[b].started
                                   /\ books'[b].status \in {books[b].status, "abandoned"}
        BY <1>3
      <4> QED
        BY <3>1, <3>2, <4>1, <4>2 DEF Judged
    <3> QED
      BY <3>1, <3>2 DEF SweepOK
  <2> QED
    BY <2>1, <2>2
<1>5. TypeOK'
  <2>1. books' \in [Id -> UserBook \cup {None}]
    BY <1>3 DEF SweepCommit
  <2> QED
    BY <1>1, <1>2, <2>1 DEF LInv, TypeOK, SweepCommit
<1>6. LockedRowsKept'
  <2>1. \A v \in Sweeper : sweep'[v].done \subseteq sweep[v].done
    BY <1>1, <1>2 DEF NoSweep
  <2>2. \A v \in Sweeper : sweep[v].done \subseteq Id
    BY <1>1 DEF Sweep
  <2>3. \A q \in Req : LockedBy(q)' = LockedBy(q) /\ LockedBy(q) \subseteq Id
    BY DEF SweepCommit, LInv, LockedBy
  <2> QED
    BY <1>3, <2>1, <2>2, <2>3 DEF LInv, LockedRowsKept
<1> QED
  BY <1>3, <1>4, <1>5, <1>6 DEF LInv, SweepCommit

LEMMA CleanupInv == ASSUME LInv, CleanupOldSessions PROVE LInv'
<1> DEFINE B == {b \in Id : sessions'[b] # sessions[b]}
<1>1. Touch(B) /\ \A b \in Id \ B : books'[b] = books[b] /\ sessions'[b] = sessions[b]
  BY DEF CleanupOldSessions
<1>2. /\ sweep' \in [Sweeper -> Sweep]
      /\ \A w \in Sweeper : SweepOK(w)'
      /\ \A w \in Sweeper : sweep'[w].done = sweep[w].done
  BY <1>1, Touched
<1>3. TypeOK'
  BY <1>2 DEF LInv, TypeOK, CleanupOldSessions
<1>4. LockedRowsKept'
  BY <1>2 DEF LInv, LockedRowsKept, LockedBy, CleanupOldSessions
<1> QED
  BY <1>2, <1>3, <1>4 DEF LInv, CleanupOldSessions

LEMMA DieInv == ASSUME LInv, NEW w \in Sweeper, Die(w) PROVE LInv'
<1>1. deaths' \in 0..MaxDeaths
  BY BoundAssumption DEF Die, LInv, TypeOK
<1> QED
  BY <1>1, SweepEndInv DEF Die

LEMMA NextDayInv == ASSUME LInv, NextDay PROVE LInv'
<1>1. \A w \in Sweeper : SweepOK(w)'
  BY Unswept DEF NextDay
<1>2. now' \in Day
  BY DayAssumption DEF NextDay, LInv, TypeOK, Day
<1>3. TypeOK' /\ LockedRowsKept'
  BY <1>2 DEF LInv, TypeOK, LockedRowsKept, LockedBy, NextDay
<1> QED
  BY <1>1, <1>3 DEF LInv, NextDay

LEMMA StutterInv == ASSUME LInv, UNCHANGED vars PROVE LInv'
<1>1. \A w \in Sweeper : SweepOK(w)'
  BY Unswept DEF vars
<1> QED
  BY <1>1 DEF LInv, TypeOK, LockedRowsKept, LockedBy, vars

LEMMA NextInv == LInv /\ [Next]_vars => LInv'
<1> SUFFICES ASSUME LInv, [Next]_vars PROVE LInv'
  OBVIOUS
<1>1. CASE \E b \in Id, s \in AddStatus : AddBook(b, s)
  BY <1>1, AddBookInv
<1>2. CASE \E b \in Id : DeleteBook(b)
  BY <1>2, DeleteBookInv
<1>3. CASE \E b \in Id : CreateSession(b)
  BY <1>3, CreateSessionInv
<1>4. CASE \E b \in Id, d \in Day : DeleteSession(b, d)
  BY <1>4, DeleteSessionInv
<1>5. CASE \E r \in Req : UpdateFind(r)
  BY <1>5, UpdateFindInv
<1>6. CASE \E r \in Req : Update(r)
  BY <1>6, UpdateJudgeInv, UpdateWriteInv, UpdateCommitInv DEF Update
<1>7. CASE \E r \in Req : Lose(r)
  BY <1>7, FailInv DEF Lose
<1>8. CASE \E w \in Sweeper : SweepSelect(w)
  BY <1>8, SweepSelectInv
<1>9. CASE \E w \in Sweeper : SweepStep(w)
  BY <1>9, SweepFlushInv, SweepCommitInv, SweepLookInv, SweepWriteInv DEF SweepStep
<1>10. CASE \E w \in Sweeper : Die(w)
  BY <1>10, DieInv
<1>11. CASE CleanupOldSessions
  BY <1>11, CleanupInv
<1>12. CASE NextDay
  BY <1>12, NextDayInv
<1>13. CASE UNCHANGED vars
  BY <1>13, StutterInv
<1> QED
  BY <1>1, <1>2, <1>3, <1>4, <1>5, <1>6, <1>7, <1>8, <1>9, <1>10, <1>11, <1>12,
     <1>13, Zenon DEF Next

-----------------------------------------------------------------------------
(* The results.                                                             *)

(* Whatever requests and sweeps run together, the sweeps lock in ascending   *)
(* order and know every untouched book as it is.                            *)
THEOREM LifecycleInvariance == Spec => []LInv
<1>1. Init => LInv
  BY InitInv
<1>2. LInv /\ [Next]_vars => LInv'
  BY NextInv
<1> QED
  BY <1>1, <1>2, PTL DEF Spec

(* A finite set of numbers has a largest element: of the sets of what is    *)
(* above one of them, which are finite, some has no proper subset among     *)
(* them.                                                                    *)
LEMMA Largest ==
    ASSUME NEW B \in SUBSET Nat, IsFiniteSet(B), B # {}
    PROVE  \E m \in B : \A b \in B : b <= m
<1> DEFINE Above(x) == {y \in B : y > x}
           T == {Above(x) : x \in B}
<1>1. T \subseteq FiniteSubsetsOf(B) /\ T # {}
  <2>1. \A x \in B : IsFiniteSet(Above(x))
    BY FS_Subset
  <2> QED
    BY <2>1 DEF FiniteSubsetsOf
<1>2. PICK A \in T : \A C \in T : <<C, A>> \notin StrictSubsetOrdering(B)
  <2>1. IsWellFoundedOn(StrictSubsetOrdering(B), FiniteSubsetsOf(B))
    BY FS_StrictSubsetOrderingWellFounded
  <2> HIDE DEF T
  <2> QED
    BY <1>1, <2>1, WFMin
<1>3. PICK m \in B : A = Above(m)
  OBVIOUS
<1>4. ASSUME NEW b \in B, ~(b <= m) PROVE FALSE
  <2>1. b \in Nat /\ m \in Nat /\ m < b
    BY <1>4
  <2>2. \A y \in B : y \in Nat /\ (y > b => y > m)
    BY <2>1
  <2>3. ~(b > b)
    BY <2>1
  <2>4. Above(b) \subseteq Above(m)
    BY <2>2
  <2>5. b \in Above(m) /\ b \notin Above(b)
    BY <2>1, <2>3
  <2>6. Above(b) \in T
    OBVIOUS
  <2>7. Above(b) \subseteq A /\ Above(b) # A
    BY <1>3, <2>4, <2>5
  <2>8. Above(b) \in SUBSET B /\ A \in SUBSET B
    BY <1>3
  <2> HIDE DEF T, Above
  <2>9. <<Above(b), A>> \in StrictSubsetOrdering(B)
    BY <2>7, <2>8 DEF StrictSubsetOrdering
  <2> QED
    BY <1>2, <2>6, <2>9
<1> QED
  BY <1>4

(* And a smallest one.                                                      *)
LEMMA Smallest ==
    ASSUME NEW B \in SUBSET Nat, B # {}
    PROVE  \E m \in B : \A b \in B : m <= b
<1>1. PICK n \in B : TRUE
  OBVIOUS
<1> DEFINE D == {n - b : b \in {x \in B : x <= n}}
<1>2. D \subseteq Nat /\ D # {} /\ \A d \in D : d <= n
  BY <1>1
<1>3. IsFiniteSet(D)
  BY <1>1, <1>2, FS_BoundedSetOfNaturals
<1>4. PICK d \in D : \A e \in D : e <= d
  <2> HIDE DEF D
  <2> QED
    BY <1>2, <1>3, Largest
<1>5. PICK m \in B : m <= n /\ d = n - m
  BY <1>4
<1>6. ASSUME NEW b \in B PROVE m <= b
  <2>1. CASE b <= n
    <3>1. n - b \in D
      BY <2>1
    <3>2. n - b <= n - m
      BY <1>4, <1>5, <3>1
    <3>3. n \in Nat /\ b \in Nat /\ m \in Nat
      BY <1>1, <1>5
    <3> QED
      BY <3>2, <3>3
  <2>2. CASE ~(b <= n)
    BY <1>1, <1>5, <2>2
  <2> QED
    BY <2>1, <2>2
<1> QED
  BY <1>6

(* Any numbers of sweeps and requests never deadlock on the rows they lock: *)
(* of the sweeps that have locked any, the one with the largest id waits    *)
(* for a larger one, which only a request that goes on can have locked.     *)
THEOREM LifecycleNobodyStuck == Spec => []NobodyStuck
<1>1. LInv => NobodyStuck
  <2> SUFFICES ASSUME LInv,
                      \/ \E r \in Req : pc[r] # "idle"
                      \/ \E w \in Sweeper : sweep[w].phase # "idle",
                      \A r \in Req : ~RequestGoes(r),
                      \A w \in Sweeper : ~SweepGoes(w)
               PROVE  FALSE
    BY DEF NobodyStuck
  <2> DEFINE Locked == {b \in Id : \E w \in Sweeper : b \in sweep[w].done}
  <2>1. ASSUME NEW b \in Id, ~Unlocked(b) PROVE b \in Locked
    BY <2>1 DEF Unlocked, LockedBy, RequestGoes
  <2>2. ASSUME NEW w \in Sweeper, sweep[w].phase # "idle"
        PROVE  \E b \in Locked : IsNext(w, b)
    <3>1. /\ sweep[w].phase = "flush" /\ sweep[w].done # sweep[w].marked
          /\ sweep[w].done \subseteq sweep[w].marked /\ sweep[w].marked \subseteq Id
      BY <2>2 DEF SweepGoes, LInv, SweepOK, TypeOK, Sweep
    <3>2. PICK b \in sweep[w].marked \ sweep[w].done :
             \A c \in sweep[w].marked \ sweep[w].done : b <= c
      BY <3>1, Smallest, IdAssumption
    <3>3. IsNext(w, b) /\ b \in Id
      BY <3>1, <3>2 DEF IsNext
    <3> QED
      BY <2>1, <3>3 DEF SweepGoes
  <2>3. Locked # {}
    <3>1. CASE \E r \in Req : pc[r] # "idle"
      <4>1. PICK r \in Req : pc[r] = "write" /\ job[r].id \in Id
        BY <3>1 DEF RequestGoes, LInv, TypeOK
      <4> QED
        BY <2>1, <4>1 DEF RequestGoes
    <3>2. CASE \E w \in Sweeper : sweep[w].phase # "idle"
      BY <2>2, <3>2
    <3> QED
      BY <3>1, <3>2
  <2>4. PICK m \in Locked : \A b \in Locked : b <= m
    <3>1. Locked \in SUBSET Nat /\ IsFiniteSet(Locked)
      BY IdAssumption, FS_Subset
    <3> QED
      BY <2>3, <3>1, Largest
  <2>5. PICK w \in Sweeper : m \in sweep[w].done
    BY <2>4
  <2>6. sweep[w].phase # "idle"
    BY <2>5 DEF LInv, SweepOK, NoSweep
  <2>7. PICK b \in Locked : IsNext(w, b)
    BY <2>2, <2>6
  <2>8. m < b
    BY <2>5, <2>7 DEF IsNext, LInv, SweepOK
  <2>9. b <= m /\ b \in Nat /\ m \in Nat
    BY <2>4, <2>7, IdAssumption
  <2> QED
    BY <2>8, <2>9
<1> QED
  BY <1>1, LifecycleInvariance, PTL

(* No request and no sweep takes away a date that another recorded.         *)
THEOREM LifecycleDatesKept == Spec => DatesKept
<1> DEFINE Kept == \A b \in Id : books[b] # None /\ books'[b] # None =>
                      /\ books[b].started # None => books'[b].started # None
                      /\ books[b].finished # None => books'[b].finished # None
<1>1. LInv /\ [Next]_vars => [Kept]_vars
  <2> SUFFICES ASSUME LInv, Next, NEW b \in Id, books[b] # None, books'[b] # None
               PROVE  /\ books[b].started # None => books'[b].started # None
                      /\ books[b].finished # None => books'[b].finished # None
    BY DEF Kept
  <2>1. books[b] \in UserBook
    BY DEF LInv, TypeOK
  <2>2. CASE books'[b] = books[b]
    BY <2>2
  <2>3. ASSUME NEW c \in Id, NEW s \in AddStatus, AddBook(c, s)
        PROVE  books'[b] = books[b]
    BY <2>3 DEF AddBook, LInv, TypeOK
  <2>4. ASSUME NEW c \in Id, DeleteBook(c) PROVE books'[b] = books[b]
    BY <2>4 DEF DeleteBook, LInv, TypeOK
  <2>5. ASSUME NEW r \in Req, UpdateCommit(r)
        PROVE  /\ books[b].started # None => books'[b].started # None
               /\ books[b].finished # None => books'[b].finished # None
    <3>1. CASE b # job[r].id
      BY <2>5, <3>1 DEF UpdateCommit, LInv, TypeOK
    <3>2. CASE b = job[r].id
      <4>1. books'[b] = Patched(r, books[b])
        BY <2>5, <3>2 DEF UpdateCommit, LInv, TypeOK
      <4>2. job[r].today # None
        BY NoneAssumption DEF LInv, TypeOK, Job, Day
      <4> QED
        BY <4>1, <4>2 DEF Patched
    <3> QED
      BY <3>1, <3>2
  <2>6. ASSUME NEW w \in Sweeper, SweepCommit(w)
        PROVE  /\ books'[b].started = books[b].started
               /\ books'[b].finished = books[b].finished
    BY <2>1, <2>6 DEF SweepCommit, UserBook
  <2>7. CASE \E c \in Id :
                \/ \E s \in AddStatus : AddBook(c, s)
                \/ DeleteBook(c)
                \/ CreateSession(c)
                \/ \E d \in Day : DeleteSession(c, d)
    BY <2>2, <2>3, <2>4, <2>7 DEF CreateSession, DeleteSession
  <2>8. CASE \E r \in Req : UpdateFind(r) \/ Update(r) \/ Lose(r)
    BY <2>2, <2>5, <2>8 DEF UpdateFind, Update, UpdateJudge, UpdateWrite, Lose, Fail
  <2>9. CASE \E w \in Sweeper : SweepSelect(w) \/ SweepStep(w) \/ Die(w)
    BY <2>2, <2>6, <2>9 DEF SweepSelect, SweepStep, SweepFlush, SweepLook, SweepWrite, Die
  <2>10. CASE CleanupOldSessions \/ NextDay
    BY <2>2, <2>10 DEF CleanupOldSessions, NextDay
  <2> QED
    BY <2>7, <2>8, <2>9, <2>10 DEF Next
<1> QED
  BY <1>1, LifecycleInvariance, PTL DEF Spec, DatesKept

(* What the code tests of a book is what makes it abandonable.              *)
LEMMA OldIsAbandonable ==
    ASSUME NEW b \in Id, NEW cutoff, books[b] # None
    PROVE  Abandonable(b, cutoff) <=>
              /\ books[b].status = "reading"
              /\ Old(sessions[b], books[b].started, cutoff)
BY DEF Abandonable, ReadOn, Old

(* A sweep abandons, of the books that nobody touches while it runs,        *)
(* exactly those that are being read and were last read before the cutoff.  *)
THEOREM LifecycleSweepExact == Spec => SweepExact
<1> DEFINE Exact == \A w \in Sweeper : sweep[w].phase = "flush" /\ SweepCommit(w) =>
                       \A b \in Id \ sweep[w].touched :
                          books[b] # None =>
                          books'[b].status = IF Abandonable(b, sweep[w].cutoff)
                                             THEN "abandoned" ELSE books[b].status
<1>1. LInv => Exact
  <2> SUFFICES ASSUME LInv, NEW w \in Sweeper, sweep[w].phase = "flush",
                      SweepCommit(w), NEW b \in Id \ sweep[w].touched,
                      books[b] # None
               PROVE  books'[b].status = IF Abandonable(b, sweep[w].cutoff)
                                         THEN "abandoned" ELSE books[b].status
    BY DEF Exact
  <2>1. Judged(w, b) /\ sweep[w].todo = {}
    BY DEF LInv, SweepOK
  <2>2. books[b] \in UserBook
    BY DEF LInv, TypeOK
  <2>3. CASE b \in sweep[w].marked
    <3>1. books'[b].status = "abandoned"
      BY <2>2, <2>3 DEF SweepCommit, UserBook
    <3>2. books[b].status \in {"reading", "abandoned"}
      BY <2>1, <2>3 DEF Judged
    <3>3. books[b].status = "reading" => Abandonable(b, sweep[w].cutoff)
      BY <2>1, <2>3, OldIsAbandonable DEF Judged
    <3> QED
      BY <3>1, <3>2, <3>3
  <2>4. CASE b \notin sweep[w].marked
    <3>1. books'[b] = books[b]
      BY <2>4 DEF SweepCommit
    <3>2. ~Abandonable(b, sweep[w].cutoff)
      BY <2>1, <2>4, OldIsAbandonable DEF Judged
    <3> QED
      BY <3>1, <3>2
  <2> QED
    BY <2>3, <2>4
<1>2. LInv /\ [Next]_vars => [Exact]_vars
  BY <1>1
<1> QED
  BY <1>2, LifecycleInvariance, PTL DEF Spec, SweepExact
=============================================================================
