-------------------------- MODULE ShelfRequestsInv --------------------------
(***************************************************************************)
(* The inductive invariant of ShelfRequests: what each request may rely on  *)
(* between its statements (Local), and which two requests exclude each     *)
(* other by locks and fresh ids (Apart).                                   *)
(***************************************************************************)
EXTENDS ShelfRequests

AddLabels == {"add_book.catalog", "add_book.exists", "add_book.insert",
              "add_book.respond", "add_book.commit"}

\* Past an INSERT of a user book or a session that is not committed yet.
Adding  == {"add_book.respond", "add_book.commit"}
Logging == {"create_session.write", "create_session.commit"}

\* Past the SELECT of the session.
Picked == {"update_session.edit", "update_session.write",
           "update_session.respond", "update_session.commit",
           "delete_session.erase", "delete_session.write",
           "delete_session.commit"}

\* Past the statement that finds the user book by id and owner.
Found == Picked \cup Logging \cup
         {"update_book.catalog", "update_book.write",
          "update_book.respond", "update_book.commit",
          "delete_book.cascade", "delete_book.commit",
          "create_session.insert",
          "update_session.session", "delete_session.session"}

\* Holding the user book against a DELETE; holding it for a DELETE; holding
\* the session for an UPDATE.
Pinning  == Logging \cup {"update_book.respond", "update_book.commit"}
Deleting == {"delete_book.cascade", "delete_book.commit"}
Editing  == {"update_session.write", "update_session.respond",
             "update_session.commit"}

\* A request carries the arguments its handler takes.
JobOK(r) ==
    /\ pc[r] # "idle" => job[r].user \in User
    /\ pc[r] \in AddLabels \cup {"update_book.catalog"} => job[r].book \in Book
    /\ pc[r] \notin {"idle", "add_book.catalog", "add_book.exists",
                     "add_book.insert"} => job[r].id \in UserBookId
    /\ pc[r] \in Picked \cup Logging \cup
          {"update_session.find", "update_session.session",
           "delete_session.find", "delete_session.session"}
          => job[r].sid \in SessionId
    /\ pc[r] \in Logging \cup {"create_session.find", "create_session.insert"}
          => job[r].pages \in SessionPages
    /\ pc[r] \in Editing \cup {"update_session.find", "update_session.session",
                               "update_session.edit"}
          => job[r].pages \in SessionPages \cup {None}
    /\ pc[r] \in {"update_book.find", "update_book.catalog",
                  "update_book.write", "update_book.respond",
                  "update_book.commit"}
          => job[r].pages \in BookPages \cup {None}

\* What request r may rely on whatever the other requests do.
Local(r) ==
    /\ JobOK(r)
    /\ pc[r] \in Found =>
          /\ job[r].id \in used
          /\ user_books[job[r].id] # None
             => user_books[job[r].id].user = job[r].user
    /\ pc[r] \in Picked =>
          /\ job[r].sid \in used
          /\ HasSession(r) => reading_sessions[job[r].sid].book = job[r].id
    /\ pc[r] \in Adding => /\ job[r].id \in used
                           /\ user_books[job[r].id] = None
                           /\ ~HasBook(job[r].user, job[r].book)
    /\ pc[r] \in Logging => job[r].sid \in used /\ ~HasSession(r)
    /\ pc[r] \in Pinning \cup Deleting => user_books[job[r].id] # None
    /\ pc[r] = "create_session.commit" => Created(r) \in Int4
    /\ pc[r] \in {"update_session.respond", "update_session.commit"} /\ Amends(r)
          => Amended(r) \in Int4
    /\ pc[r] = "update_session.commit" => HasSession(r)

\* What keeps request r and another request q apart.
Apart(r, q) ==
    /\ pc[r] \in Adding /\ pc[q] \in Adding =>
          /\ job[r].id # job[q].id
          /\ job[r].user # job[q].user \/ job[r].book # job[q].book
    /\ pc[r] \in Adding /\ pc[q] \in Found => job[r].id # job[q].id
    /\ pc[r] \in Logging /\ pc[q] \in Logging \cup Picked
          => job[r].sid # job[q].sid
    /\ pc[r] \in Deleting /\ pc[q] \in Deleting \cup Pinning
          => job[r].id # job[q].id
    /\ pc[r] \in Editing /\ HasSession(r)
       /\ pc[q] \in {"delete_session.write", "delete_session.commit"}
          => job[r].sid # job[q].sid
    /\ pc[r] \in Editing /\ HasSession(r) /\ pc[q] = "delete_book.commit"
          => job[r].id # job[q].id

\* Every id of a row was handed to an INSERT before.
UsedIds == /\ \A b \in UserBookId : user_books[b] # None => b \in used
           /\ \A s \in SessionId : reading_sessions[s] # None => s \in used

\* All handlers together keep the tables consistent because each statement
\* that runs leaves every request what Local and Apart say.
IInv == /\ TypeOK
        /\ NoOrphanSessions
        /\ UniqueShelfEntry
        /\ UsedIds
        /\ \A r \in Req : Local(r)
        /\ \A r, q \in Req : r # q => Apart(r, q)

=============================================================================
