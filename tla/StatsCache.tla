----------------------------- MODULE StatsCache -----------------------------
(***************************************************************************)
(* The statistics and leaderboards that Redis caches for a limited time,   *)
(* and the requests that make them out of date.                            *)
(*                                                                         *)
(* What the database says of a user is a version: the number of committed  *)
(* changes of the user's books.  A reader goes cache, database, cache; a   *)
(* writer publishes its event, whose handler invalidates the cache, and    *)
(* commits afterwards.  One action per round trip to Redis or PostgreSQL.  *)
(***************************************************************************)
EXTENDS Integers, FiniteSets

CONSTANTS User,
          Board,       \* leaderboards, one per period and limit
          Reader,      \* readers at a time, requests and update_leaderboard
          Writer,      \* changing requests and tasks at a time
          TaskBoards,  \* the leaderboards that update_leaderboard writes
          StatsTTL, BoardTTL,  \* units of time that an entry lives
          MaxChanges,  \* bound of the model: changes of a user's books
          None         \* no entry

ASSUME KeyAssumption == User \cap Board = {} /\ TaskBoards \subseteq Board
ASSUME TTLAssumption == StatsTTL \in Nat \ {0} /\ BoardTTL \in Nat \ {0}
ASSUME BoundAssumption == MaxChanges \in Nat

\* user_stats:{user_id} is the user, leaderboard:{period}:{limit} the board.
Key == User \cup Board
TTL(k) == IF k \in User THEN StatsTTL ELSE BoardTTL

\* Whose books the value of a key is computed from.
Concerns(k) == IF k \in User THEN {k} ELSE User

VARIABLES
    version,    \* committed changes of each user's books
    cache,      \* the entry of each key
    reader,     \* readers between their first look at the cache and the last
    writer,     \* requests that change books
    announced   \* the version that the last announced change committed
                \* (history, read by properties only)

vars == <<version, cache, reader, writer, announced>>

\* asof: the versions that the value was computed from.  raced: users with a
\* change that was announced, but not committed, while the value was on its
\* way from the database to the cache (history, read by properties only).
Entry == [asof: [User -> Nat], raced: SUBSET User, left: Nat \ {0}]

ASSUME NoneAssumption == None \notin Entry /\ None \notin Key

Fill == [phase: {"idle", "query", "set"}, key: Key \cup {None},
         asof: [User -> Nat], raced: SUBSET User]
NoFill == [phase |-> "idle", key |-> None, asof |-> [u \in User |-> 0],
           raced |-> {}]

\* todo: keys that the event handler still has to look at; found: leaderboards
\* that its SCAN saw; event: the change is announced and so far all went well.
Change == [phase: {"idle", "invalidate", "commit"}, user: User \cup {None},
           event: BOOLEAN, todo: SUBSET Key, found: SUBSET Board]
NoChange == [phase |-> "idle", user |-> None, event |-> FALSE, todo |-> {},
             found |-> {}]

TypeOK == /\ version \in [User -> Nat]
          /\ cache \in [Key -> Entry \cup {None}]
          /\ reader \in [Reader -> Fill]
          /\ writer \in [Writer -> Change]
          /\ announced \in [User -> Nat]

Init == /\ version = [u \in User |-> 0]
        /\ cache = [k \in Key |-> None]
        /\ reader = [r \in Reader |-> NoFill]
        /\ writer = [w \in Writer |-> NoChange]
        /\ announced = [u \in User |-> 0]

\* The handler of w is past k, but the change is not committed.
Pending(w, k) == /\ writer[w].phase # "idle" /\ writer[w].event
                 /\ k \in {writer[w].user} \cup Board
                 /\ k \notin writer[w].todo

\* Values on their way to the keys of K are raced by a change of u.
Race(u, K) == reader' = [r \in Reader |->
    IF reader[r].phase = "set" /\ reader[r].key \in K
    THEN [reader[r] EXCEPT !.raced = @ \cup {u}] ELSE reader[r]]

-----------------------------------------------------------------------------
(* Readers: get_user_stats, get_top_users, update_leaderboard.              *)

EndFill(r) == reader' = [reader EXCEPT ![r] = NoFill]

\* GET k finds nothing; a hit is answered and changes nothing.
Miss(r, k) ==
    /\ reader[r].phase = "idle" /\ cache[k] = None
    /\ reader' = [reader EXCEPT ![r].phase = "query", ![r].key = k]
    /\ UNCHANGED <<version, cache, writer, announced>>

\* The task computes its leaderboard without a look at the cache.
UpdateLeaderboard(r, k) ==
    /\ reader[r].phase = "idle" /\ k \in TaskBoards
    /\ reader' = [reader EXCEPT ![r].phase = "query", ![r].key = k]
    /\ UNCHANGED <<version, cache, writer, announced>>

\* The first SELECT (the task sums the pages in later ones).
Query(r) ==
    /\ reader[r].phase = "query"
    /\ reader' = [reader EXCEPT
          ![r].phase = "set", ![r].asof = version,
          ![r].raced = {u \in User : \E w \in Writer :
                           writer[w].user = u /\ Pending(w, reader[r].key)}]
    /\ UNCHANGED <<version, cache, writer, announced>>

\* Mutant: an entry that is there keeps its value and gets a new lifetime.
StoreProlonged(r) ==
    /\ reader[r].phase = "set"
    /\ LET k == reader[r].key
           entry == [asof |-> reader[r].asof, raced |-> reader[r].raced,
                     left |-> TTL(k)]
       IN  cache' = [cache EXCEPT ![k] =
              IF @ = None THEN entry ELSE [@ EXCEPT !.left = TTL(k)]]
    /\ EndFill(r)
    /\ UNCHANGED <<version, writer, announced>>

\* SETEX, whatever the key holds by now.
Store(r) ==
    /\ reader[r].phase = "set"
    /\ cache' = [cache EXCEPT ![reader[r].key] =
          [asof |-> reader[r].asof, raced |-> reader[r].raced,
           left |-> TTL(reader[r].key)]]
    /\ EndFill(r)
    /\ UNCHANGED <<version, writer, announced>>

\* Redis or PostgreSQL raises, or the process dies.
LoseFill(r) ==
    /\ reader[r].phase # "idle" /\ EndFill(r)
    /\ UNCHANGED <<version, cache, writer, announced>>

-----------------------------------------------------------------------------
(* Writers.                                                                 *)

InFlight(u) == {w \in Writer : writer[w].user = u}

\* A request or task has come to the event that it publishes (book_added,
\* book_finished, book_deleted or session_created) or, the event being missing
\* as in all other changes, to its commit.
Write(w, u, event) ==
    /\ writer[w].phase = "idle"
    /\ version[u] + Cardinality(InFlight(u)) < MaxChanges
    /\ writer' = [writer EXCEPT ![w] =
          [phase |-> IF event THEN "invalidate" ELSE "commit", user |-> u,
           event |-> event, todo |-> IF event THEN {u} \cup Board ELSE {},
           found |-> {}]]
    /\ UNCHANGED <<version, cache, reader, announced>>

\* Mutant: the handler goes for the leaderboards only.
DeleteStatsSkipped(w) ==
    /\ writer[w].phase = "invalidate" /\ writer[w].user \in writer[w].todo
    /\ writer' = [writer EXCEPT ![w].todo = @ \ {writer[w].user}]
    /\ Race(writer[w].user, {writer[w].user})
    /\ UNCHANGED <<version, cache, announced>>

\* DEL user_stats:{user_id}
DeleteStats(w) ==
    /\ writer[w].phase = "invalidate" /\ writer[w].user \in writer[w].todo
    /\ cache' = [cache EXCEPT ![writer[w].user] = None]
    /\ writer' = [writer EXCEPT ![w].todo = @ \ {writer[w].user}]
    /\ Race(writer[w].user, {writer[w].user})
    /\ UNCHANGED <<version, announced>>

\* Mutant: the pattern lacks the prefix of the keys and matches none.
ScanUnprefixed(w, k) ==
    /\ writer[w].phase = "invalidate" /\ writer[w].user \notin writer[w].todo
    /\ k \in writer[w].todo
    /\ writer' = [writer EXCEPT ![w].todo = @ \ {k}]
    /\ Race(writer[w].user, {k})
    /\ UNCHANGED <<version, cache, announced>>

\* SCAN comes to the place of k, in whatever order it goes.
Scan(w, k) ==
    /\ writer[w].phase = "invalidate" /\ writer[w].user \notin writer[w].todo
    /\ k \in writer[w].todo
    /\ writer' = [writer EXCEPT ![w].todo = @ \ {k},
          ![w].found = IF cache[k] # None THEN @ \cup {k} ELSE @]
    /\ Race(writer[w].user, {k})
    /\ UNCHANGED <<version, cache, announced>>

\* DEL of the keys found, if any.
DeleteFound(w) ==
    /\ writer[w].phase = "invalidate" /\ writer[w].todo = {}
    /\ cache' = [k \in Key |-> IF k \in writer[w].found THEN None ELSE cache[k]]
    /\ writer' = [writer EXCEPT ![w].phase = "commit"]
    /\ UNCHANGED <<version, reader, announced>>

\* A handler raises: publish logs it and the request goes on.
HandlerFails(w) ==
    /\ writer[w].phase = "invalidate"
    /\ writer' = [writer EXCEPT ![w].phase = "commit", ![w].event = FALSE,
                                ![w].todo = {}]
    /\ UNCHANGED <<version, cache, reader, announced>>

\* get_db commits, after the response.
Commit(w) ==
    /\ writer[w].phase = "commit"
    /\ LET u == writer[w].user IN
       /\ version' = [version EXCEPT ![u] = @ + 1]
       /\ announced' = IF writer[w].event
                       THEN [announced EXCEPT ![u] = version[u] + 1]
                       ELSE announced
    /\ writer' = [writer EXCEPT ![w] = NoChange]
    /\ UNCHANGED <<cache, reader>>

\* The transaction is rolled back; the cache stays invalidated.
Rollback(w) ==
    /\ writer[w].phase # "idle"
    /\ writer' = [writer EXCEPT ![w] = NoChange]
    /\ UNCHANGED <<version, cache, reader, announced>>

-----------------------------------------------------------------------------
\* Redis removes an entry at the end of its time.
Tick ==
    /\ cache' = [k \in Key |->
          IF cache[k] = None THEN None
          ELSE IF cache[k].left = 1 THEN None
          ELSE [cache[k] EXCEPT !.left = @ - 1]]
    /\ UNCHANGED <<version, reader, writer, announced>>

FillStep(r)  == Query(r) \/ Store(r)
WriteStep(w) == \/ DeleteStats(w) \/ DeleteFound(w) \/ Commit(w)
                \/ \E k \in Board : Scan(w, k)

Next ==
    \/ \E r \in Reader : \/ \E k \in Key : Miss(r, k) \/ UpdateLeaderboard(r, k)
                         \/ FillStep(r) \/ LoseFill(r)
    \/ \E w \in Writer : \/ \E u \in User, e \in BOOLEAN : Write(w, u, e)
                         \/ WriteStep(w) \/ HandlerFails(w) \/ Rollback(w)
    \/ Tick

Spec == Init /\ [][Next]_vars

\* Time goes on, and so does what the event loop has begun.
Fairness == /\ WF_vars(Tick)
            /\ \A r \in Reader : WF_vars(FillStep(r))
            /\ \A w \in Writer : WF_vars(WriteStep(w))

FairSpec == Spec /\ Fairness

-----------------------------------------------------------------------------
(* Properties.                                                              *)

\* A value that is older than the last announced change of a user it is
\* about was read while a change of that user was announced but not yet
\* committed: by no other way does the invalidation miss anything.
StaleOnlyByRace ==
    \A k \in Key : cache[k] # None =>
       \A u \in Concerns(k) :
          cache[k].asof[u] < announced[u] => u \in cache[k].raced

\* The change w has passed k and would leave an entry there alone.
Behind(w, u, k) == /\ writer[w].user = u /\ Pending(w, k)
                   /\ writer[w].phase = "commit" \/ k \notin writer[w].found

\* A value that no change of u has raced is not older than the last
\* announced one, nor than any that is behind it.
Clean(asof, raced, k) ==
    \A u \in Concerns(k) \ raced :
       asof[u] >= announced[u] /\ \A w \in Writer : ~Behind(w, u, k)

\* The same of a value on its way to the cache, which a DEL does not reach.
FillClean(r) ==
    \A u \in Concerns(reader[r].key) \ reader[r].raced :
       /\ reader[r].asof[u] >= announced[u]
       /\ \A w \in Writer :
             ~(writer[w].user = u /\ Pending(w, reader[r].key))

\* The inductive invariant.
CInv ==
    /\ TypeOK
    /\ \A u \in User : announced[u] <= version[u]
    /\ \A w \in Writer : /\ writer[w].phase # "idle" => writer[w].user \in User
                         /\ writer[w].phase = "commit" => writer[w].todo = {}
    /\ \A r \in Reader : /\ reader[r].phase # "idle" => reader[r].key \in Key
                         /\ reader[r].phase = "set" => FillClean(r)
    /\ \A k \in Key : cache[k] # None => Clean(cache[k].asof, cache[k].raced, k)

\* Once the books do not change any more, neither do old statistics survive:
\* whatever events were lost or missing, the cache is right again.
EventuallyFresh ==
    <>[](\A k \in Key : cache[k] # None =>
            \A u \in Concerns(k) : cache[k].asof[u] = version[u])
=============================================================================
