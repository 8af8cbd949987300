---------------------------- MODULE ShelfCounter ----------------------------
(***************************************************************************)
(* The counter user_books.pages_read.  The session handlers select it, add *)
(* in Python and write the result, so two requests for one book can lose   *)
(* an update, and a PATCH of the book may set it to anything.  Of what the *)
(* six handlers do, nothing else makes it differ from the sessions' pages. *)
(*                                                                         *)
(* It adds history variables to ShelfRequests.  They record what has       *)
(* happened and take part in no guard: CSpec has the behaviours of Spec.   *)
(***************************************************************************)
EXTENDS ShelfRequestsInv

VARIABLES
    stale,    \* requests that compute with what another commit has changed
    drifted,  \* books whose counter was written by such a request, or cut off
    credit    \* pages of other books that a PATCH has set beyond the sessions'

history == <<stale, drifted, credit>>
cvars   == <<vars, history>>

\* One element for every page of every session of b, so that the number of
\* elements is the sum of the sessions' pages.
PagesIn(rows, b) ==
    {p \in SessionId \X (1..IntMax) : /\ rows[p[1]] # None
                                     /\ rows[p[1]].book = b
                                     /\ p[2] <= rows[p[1]].pages}

Sum(b) == Cardinality(PagesIn(reading_sessions, b))

\* Past the SELECT of the user book from which the counter is computed.
Reckoning == Picked \cup Logging \cup
             {"create_session.insert", "update_session.session",
              "delete_session.session"}

-----------------------------------------------------------------------------
(* What the history records of a step.                                      *)

\* Request r commits a change of user book b or of its sessions.
Writes(r, b) == /\ pc[r] \in CommitLabels /\ job[r].id = b
                /\ pc'[r] # pc[r]
                /\ <<user_books', reading_sessions'>> # <<user_books, reading_sessions>>

\* ... and this sets the counter, whatever it was.
Sets(r, b) == Writes(r, b) /\ pc[r] = "update_book.commit"

\* ... and this leaves the counter wrong: it is computed from what is no
\* longer so, or it should be negative and max(0, ..) makes it 0.
Spoils(r, b) ==
    /\ Writes(r, b)
    /\ r \in stale \/ (pc[r] = "delete_session.commit" /\ seen[r] < old[r])

Record ==
    /\ stale' = {q \in Req :
          /\ pc'[q] \in Reckoning
          /\ \/ q \in stale
             \/ \E r \in Req \ {q} : pc[q] \in Reckoning /\ Writes(r, job[q].id)}
    /\ drifted' = {b \in UserBookId :
          /\ user_books'[b] # None
          /\ \A r \in Req : ~Sets(r, b)
          /\ b \in drifted \/ \E r \in Req : Spoils(r, b)}
    /\ credit' = [b \in UserBookId |->
          IF user_books'[b] = None \/ b \in drifted' THEN 0
          ELSE IF \E r \in Req : Sets(r, b) THEN user_books'[b].pages - Sum(b)
          ELSE credit[b]]

CInit == Init /\ stale = {} /\ drifted = {} /\ credit = [b \in UserBookId |-> 0]

CSpec == CInit /\ [][Next /\ Record]_cvars

-----------------------------------------------------------------------------
(* Properties.                                                              *)

\* The pages_read counter that the session handlers maintain by
\* read-modify-write is the sum over the sessions of the book and of what a
\* PATCH has added by hand, unless a request has committed that computed it
\* from a counter or a session changed since its SELECT, or max(0, ..) has cut
\* it off.  Interleavings in which nobody reads before another writes are
\* harmless, and so are deletions, failures and lost connections.
CounterExact ==
    \A b \in UserBookId :
       user_books[b] # None /\ b \notin drifted
       => user_books[b].pages = credit[b] + Sum(b)

\* The counter is negative only after a lost update, or after a PATCH has set
\* it below the sum of the sessions.
CounterNatural ==
    \A b \in UserBookId :
       user_books[b] # None /\ user_books[b].pages < 0
       => b \in drifted \/ credit[b] < 0

-----------------------------------------------------------------------------
(* The inductive invariant.                                                 *)

HistoryOK == /\ stale \subseteq Req
             /\ drifted \subseteq UserBookId
             /\ credit \in [UserBookId -> Int]
             /\ \A b \in UserBookId :
                   user_books[b] = None \/ b \in drifted => credit[b] = 0

\* What request r has read of its book and of its session is still so.
ReadsHold(r) ==
    /\ pc[r] \in Reckoning /\ user_books[job[r].id] # None
       => seen[r] = user_books[job[r].id].pages
    /\ pc[r] \in Picked /\ HasSession(r)
       => old[r] = reading_sessions[job[r].sid].pages

Reckoned(r) == r \notin stale => ReadsHold(r)

CounterInv == /\ IInv
              /\ HistoryOK
              /\ CounterExact
              /\ \A r \in Req : Reckoned(r)
=============================================================================
