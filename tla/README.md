# Verification of the reading tracker

TLA+ models of the Reading Tracker API (`src/app`), model-checked with TLC, and theorems about
them proved with TLAPS. Every definition is translated from the Python source; the state of
PostgreSQL, its row locks and its deadlock detector are modelled from how that source uses them.

## 1. The system

FastAPI handlers run as coroutines of one event loop (and of several worker processes) over one
PostgreSQL database; Redis holds caches; Celery runs periodic tasks in processes of their own.

| Component | State | Operations | Talks to |
|---|---|---|---|
| books (`features/books`, `models/user_book.py`) | `user_books`: owner, catalog book, status, pages_read, rating, started_at, finished_at | `add_book`, `update_book`, `delete_book`, `get_book`, `list_books` | database; catalog (is the book there, pages_total); event bus |
| sessions (`features/sessions`, `models/reading_session.py`) | `reading_sessions`: user book, pages, dates, notes | `create_session`, `update_session`, `delete_session`, `list_sessions` | database; adjusts `user_books.pages_read`; event bus |
| database session (`db/session.py`) | one transaction per request | `get_db`: commit after the response, rollback on any exception | PostgreSQL |
| catalog (`features/catalog`) | `books`: title, author, isbn, pages_total, is_deleted | `create_book`, `search`, `get_popular`, `get_book` | database; event bus |
| stats (`features/stats`) | `cache:user_stats:*`, `cache:leaderboard:*` in Redis | `get_user_stats`, `get_top_users`; handlers that invalidate | database, Redis, event bus |
| event bus (`shared/events.py`) | handlers by event name | `subscribe`, `publish` (gathers, logs exceptions) | stats handlers, inside the publishing request |
| book tasks (`tasks/book_tasks.py`) | none of their own | `check_abandoned_books` (daily), `cleanup_old_sessions` (weekly), `get_weekly_report_stats` | database |
| stats tasks (`tasks/stats_tasks.py`) | `streak:*`, `cache:leaderboard:*` in Redis | `calculate_user_streaks` (daily), `update_leaderboard` (hourly) | database, Redis |
| email tasks (`tasks/email_tasks.py`) | none | weekly reports, reminders | database, SMTP |
| celery (`tasks/celery_app.py`, `celery_db.py`) | queue of tasks, acknowledged late | beat schedule, `get_sync_session` | Redis, workers |
| auth (`features/auth`, `shared/dependencies.py`, `core/security.py`) | `users`, `refresh_tokens`; blacklist in Redis | register, login, refresh (rotation), logout, `get_current_user` | database, Redis, event bus |
| rate limiting (`middleware/rate_limit.py`) | counters in Redis | `RateLimiter` | Redis |

What is hard about it:

* **Interleaving.** Every handler is a sequence of statements with an `await` between any two, in
  a READ COMMITTED transaction: it selects, decides in Python on what it selected, and writes later.
  `add_book` checks and then inserts; the session handlers read `pages_read`, add in Python and write
  the sum back.
* **Atomicity and partial failure.** `get_db` commits after the response is sent. A handler may be
  lost at any statement, or after the response; the event handlers run before the commit.
* **Waiting.** `update_session` and `delete_session` lock the session row and then the user book;
  `delete_book` locks the user book and then, through the cascade, its sessions.
* **Derived state.** `pages_read` is derived from the sessions, the cached statistics from the
  books, the streaks from the sessions' dates: three copies that are maintained by different code.
* **Time.** Caches expire (300 s, 3600 s), a daily task decides on 30 days of inactivity; tokens,
  blacklist keys and rate-limit windows expire at moments that are rounded differently.
* **Delivery.** Celery acknowledges a task when it ends, so the broker may deliver it again, also
  while it still runs; an SMTP server may take a mail whose sender sees a timeout.

`PROJECT.json` lists these hazards one by one, each with its line and the properties that cover it.

### What makes each component correct

* *books and sessions*: no session without its book; a user has a catalog book once; a response that
  reports success is true when the transaction commits; nobody's rows change by another user's
  request; the counter is the sum of the sessions; no request waits for ever; all of it as if every
  request were atomic.
* *book tasks*: a book becomes ABANDONED only after the days of inactivity, and does become so.
* *stats*: what the cache serves is at most its TTL old, and changes made through the API show at once.
* *stats tasks*: the stored streaks are the ones a definition over sets of days gives, and everyone who
  reads is given one.
* *celery, email*: nobody is left out of a week's reports by the death of a worker, and nobody gets more
  of them than the message was delivered; the summary says what happened.
* *auth*: one account per email; of the refresh tokens of a login one is live; a logout revokes all of
  them, and its access token is refused as long as it lives.
* *rate limiting*: a bounded number of requests in any stretch of time, a Retry-After that is enough,
  no client shut out for good.

## 2. Modules

| Module | Models | Role |
|---|---|---|
| `Shelf` | what books and sessions promise together, one whole operation per step | abstract specification |
| `ShelfRequests` | the six writing handlers of books and sessions as concurrent transactions, one action per SQL statement | the core |
| `ShelfRequestsInv` | the inductive invariant `IInv` of `ShelfRequests` | for TLC and for the proofs |
| `MCShelfRequests` | constants, symmetry | model checking |
| `ShelfRequestsProofs` | type correctness, safety, the ownership property, progress past row locks, for all constants; `ShelfRequests` implements `Shelf` | TLAPS |
| `ShelfCounter` | `ShelfRequests` with history variables, over which it is said when the counter `pages_read` is right | for TLC and for the proofs |
| `MCShelfCounter` | constants, symmetry | model checking |
| `ShelfCounterProofs` | the inductive invariant `CounterInv` of `ShelfCounter` and what follows from it | TLAPS |
| `BookLifecycle` | status, rating and dates of a user book: `update_book` and `check_abandoned_books` statement by statement, the other handlers and `cleanup_old_sessions` at their commit | second component |
| `MCBookLifecycle` | symmetry | model checking |
| `BookLifecycleProofs` | the inductive invariant `LInv` of `BookLifecycle` and what follows from it | TLAPS |
| `StatsCache` | the cached statistics and leaderboards: reads, invalidation, expiry, one action per round trip | third component |
| `MCStatsCache` | symmetry | model checking |
| `StatsCacheProofs` | the inductive invariant `CInv` of `StatsCache` and what follows from it | TLAPS |
| `Accounts` | what the auth feature promises, one whole operation per step | abstract specification |
| `AuthTokens` | accounts, refresh tokens and the blacklist: register, login, refresh and logout statement by statement, on one clock | fourth component |
| `MCAuthTokens` | symmetry | model checking |
| `AuthTokensProofs` | the inductive invariant `AInv` of `AuthTokens` and what follows from it; `AuthTokens` implements `Accounts` | TLAPS |
| `WeeklyReports` | `send_weekly_reports_to_all_users`: the message, its deliveries, the runs and the mails | fifth component |
| `MCWeeklyReports` | the instance | model checking |
| `WeeklyReportsProofs` | the inductive invariant `WInv` of `WeeklyReports` and what follows from it | TLAPS |
| `Streaks` | `calculate_user_streaks`, loop iteration by loop iteration, while users read | sixth component |
| `MCStreaks` | the instance | model checking |
| `StreaksProofs` | the inductive invariant `SInv` of `Streaks` and what follows from it | TLAPS |
| `RateLimit` | `RateLimiter`: the counter, its window and the Retry-After | seventh component |
| `MCRateLimit` | the instance | model checking |
| `RateLimitProofs` | the inductive invariant `RInv` of `RateLimit` and what follows from it | TLAPS |

`ShelfRequests` and `BookLifecycle` look at different columns of `user_books`: the owner, the book
and `pages_read` here, `status`, `rating`, `started_at` and `finished_at` there. No handler and no
task decides on the one by the other, so they are checked apart. `StatsCache` sees of both only that a
change of a user's books is executed, announced by an event or not, and committed. `AuthTokens`,
`WeeklyReports`, `Streaks` and `RateLimit` touch tables and keys of their own; what they share with the
others (sessions appear and go, users register) is an action of theirs.

### ShelfRequests and the code

`user_books`, `reading_sessions` and `catalog` hold what is **committed**; every request in flight
has a label `pc[r]` (`"<handler>.<statement>"`, the statement it executes next), its arguments
`job[r]`, and the two values its Python code remembers: `seen[r]` (`user_book.pages_read` as the
first SELECT returned it) and `old[r]` (the session's `pages_read`). A statement that reads looks at
the committed tables (READ COMMITTED; a request never reads its own writes except to build the
response). What a transaction writes is applied by its commit action, and from the writing statement
on the label implies the row lock PostgreSQL takes: FOR KEY SHARE on the book by the foreign key
check of an inserted session, FOR NO KEY UPDATE by an UPDATE of the book, FOR UPDATE by a DELETE, an
index entry by an uncommitted INSERT. `Waits(r, q)` is PostgreSQL's conflict table between these
labels. `Fail` is the rollback of `get_db`: any exception, `NotFoundError` as well as the
`IntegrityError` of the unique index, the `StaleDataError` of an ORM flush that matches no row, the
overflow of INTEGER, or the `AttributeError` of building a response from `None`.

| Action | Code |
|---|---|
| `AddBookCatalog`, `AddBookExists`, `AddBookInsert`, `AddBookRespond`, `AddBookCommit` | `BookService.add_book`: catalog SELECT, `exists`, flush of the INSERT, `_to_response`, commit by `get_db` |
| `UpdateBookFind` ... `UpdateBookCommit` | `BookService.update_book`; the check against `pages_total` is in `UpdateBookCatalog` |
| `DeleteBookDelete`, `DeleteBookCascade`, `DeleteBookCommit` | `BookRepository.delete`: the row lock first, the cascade after it |
| `CreateSessionFind` ... `CreateSessionCommit` | `SessionService.create_session`; `Created` is the value of `user_book.pages_read += data.pages_read` |
| `UpdateSessionFind` ... `UpdateSessionCommit` | `SessionService.update_session`; `Amended` adds `pages_diff`, written only when it is not 0 |
| `DeleteSessionFind` ... `DeleteSessionCommit` | `SessionService.delete_session`; `Lowered` is `max(0, ...)` |
| `BreakDeadlock`, `Lose` | PostgreSQL's detector aborts a transaction of a wait cycle; a process or connection dies |
| `SoftDelete`, `Close`, `Stopped` | a catalog book disappears (`is_deleted`, set by nothing in `src/`); shutdown |

Reads (`get_book`, `list_books`, `list_sessions`) change nothing and are left out.

`AckedRowsKept` is about the rows a response speaks of. It does not say that the commit that follows the
response succeeds: `Lose` may end the transaction in between, and the success was then reported for nothing.

**Two requests do lose updates.** Two `create_session` of one book read the same `pages_read`, each adds its
pages to it, and the later commit overwrites the earlier: the counter misses a session. A client that sends one
request after the other is not safe from it, because the response precedes the commit. `ShelfCounter`
therefore makes no assumption about clients. It adds three variables that record what has happened
and that no guard reads, so that `CSpec` has every behaviour of `Spec`:

| History | Meaning |
|---|---|
| `stale` | requests that have selected the counter of a book which another request has since changed by a commit, or whose sessions it has |
| `drifted` | books to which a stale request has committed, or whose counter `max(0, ...)` has cut off; a PATCH that sets `pages_read` takes its book out again, since then the counter is what the client said |
| `credit[b]` | what the last PATCH has set beyond (or, if negative, short of) the sum of the sessions |

`CounterExact` says that the counter of every other book is `credit[b]` plus the sum of its sessions: nothing but a
commit between another request's SELECT and its commit makes it wrong, neither interleavings without such an overlap, nor a
deletion that wins or loses a race, an update of a session that is gone, a rollback or an overflow. `CounterNatural`
adds that a negative counter takes a lost update or a PATCH below the sum.

### BookLifecycle and the code

`books` and `sessions` are committed rows (of a session only the day it started), `now` is today. A
PATCH has a label `pc[r]`, its body and the `started_at` it selected in `job[r]`. A run of
`check_abandoned_books` is `sweep[w]`: it selects all READING books (`SweepSelect`, which fixes
`cutoff`), looks up the last session of each (`SweepLook`; the session factory has `autoflush=False`,
so nothing is written yet), and then writes all marks in one flush, one UPDATE after the other in the
order of the primary keys (`SweepFlush`, `SweepWrite`), each of which waits for the row's lock and
keeps it until `SweepCommit`. An UPDATE that finds no row raises `StaleDataError`, and
`get_sync_session` rolls everything back (`SweepEnd`). (SQLAlchemy counts the rows after the whole batch of
UPDATEs, `SweepWrite` fails at the first missing row; both roll the run back.)

| Action | Code |
|---|---|
| `UpdateFind`, `UpdateJudge`, `UpdateWrite`, `UpdateCommit` | `BookService.update_book`: SELECT, the rating and date rules, the UPDATE of exactly the fields of `update_data` (`Patched`), commit by `get_db` |
| `SweepSelect` ... `SweepCommit` | `check_abandoned_books`; `Old` is its `if`/`elif` |
| `AddBook`, `DeleteBook`, `CreateSession`, `DeleteSession` | the other handlers at their commit, for what they do to these columns; their statements are in `ShelfRequests` |
| `CleanupOldSessions` | `cleanup_old_sessions`: one DELETE |
| `Die` | a worker dies; the task is acknowledged late (`task_acks_late`) and starts again |
| `Lose`, `NextDay` | a connection dies or the handler raises elsewhere (the catalog book is gone, an explicit null status); the clock |

`touched` is history: the books a request changed while a sweep runs. No action reads it; it is there
because the code gives no promise about these books. **A book that is finished, or read, between the
sweep's SELECT and its UPDATE is overwritten with ABANDONED**: the UPDATE goes by primary key alone.
`DatesKept` says that no such overwriting loses a date; it may move one: of two PATCHes to READING whose SELECTs
both saw no `started_at`, the second writes its own day over the first's.
Likewise **a book added as READING has no `started_at`**; without a session it is never abandoned,
which is why `Abandonable` asks for a known date. And `cleanup_old_sessions` deletes sessions without
lowering `pages_read`, so after it the counter exceeds the sum of the sessions that are left.

### StatsCache and the code

`version[u]` counts the committed changes of u's books and sessions; it stands for their contents.
`cache[k]` is the entry of `user_stats:{user_id}` or `leaderboard:{period}:{limit}` with the time it
has `left`; of the numbers in it only `asof` is kept, the versions the first SELECT saw. `reader[r]`
is a request or task between its GET and its SETEX, `writer[w]` one that changes books.

| Action | Code |
|---|---|
| `Miss`, `Query`, `Store` | `StatsService.get_user_stats`, `get_top_users`: GET finds nothing, the SELECTs, SETEX with 300 or 3600 s; a hit is answered and changes nothing |
| `UpdateLeaderboard` | the task `update_leaderboard`, which writes its key without a look at it |
| `Write` | a handler's or task's statements, up to the event they publish, if any |
| `DeleteStats`, `Scan`, `DeleteFound` | `StatsHandlers._invalidate_user_stats`: DEL of the user's key, then `invalidate_pattern`: SCAN, which comes to every key at a moment of its own, and the DEL of what it found |
| `HandlerFails` | an exception in the handler, which `EventBus.publish` collects and logs |
| `Commit`, `Rollback` | `get_db`, after the response |
| `LoseFill`, `Tick` | an exception or a dead process; Redis' expiry |

An event is published by `add_book`, `delete_book`, `create_session` and by an `update_book` to
FINISHED; every other change (`update_session`, `delete_session`, any other PATCH of a book, the tasks)
is a `Write` with `event = FALSE` and stays invisible until the entry expires. **The invalidation
precedes the commit**: a reader that looks in between, even the client that has its response already,
caches the old statistics again, for up to 300 s (a leaderboard for up to 3600 s). `raced` is the
history that singles out these values and `announced` the version of the last announced change; no
action decides by either. The streaks in the statistics come from another key, with a lifetime of its
own, and are left out.

### AuthTokens and the code

`accounts` and `tokens` are committed rows; `pairs` holds what never changes once a token is made (its
user, `exp`, `expires_at`); `blacklist` when the key of a jti expires. A request has a label `pc[r]` and
what it has found and made in `job[r]`. Login and refresh make a refresh token and an access token
together, so one name stands for both.

| Action | Code |
|---|---|
| `RegisterExists`, `RegisterInsert`, `RegisterRefused`, `RegisterCommit` | `AuthService.register`: `email_exists`, the flush of the INSERT, which waits for an uncommitted row with the same email, the `IntegrityError`, `get_db`'s commit |
| `LoginFind`, `LoginInsert`, `LoginCommit` | `AuthService.login` and `_create_tokens` |
| `RefreshFind`, `RefreshRevoke`, `RefreshInsert`, `RefreshCommit` | `AuthService.refresh`: SELECT and its three checks (`Refreshable`), UPDATE by primary key, INSERT, commit |
| `LogoutDecode`, `LogoutBlacklist`, `LogoutBlacklistFails`, `LogoutRevoke`, `LogoutLock`, `LogoutCommit` | `AuthService.logout`: `int(exp - now)` (`Ttl`), SETEX, whose exception is logged and passed over, one UPDATE over the user's rows, which locks them one after the other |
| `Lose`, `BreakDeadlock`, `Tick` | a process or connection dies; PostgreSQL's detector; the clock |

A request that is refused (email taken, token missing, revoked or expired) changes nothing and is no
step. `get_current_user` is the operator `Accepted`; when Redis fails it denies, which is the safe side.
The handlers of the auth events (`stats/events.py:39` on) set and delete keys that nobody reads. The model has one clock: servers,
Redis and the database are taken to agree.

What the model shows the code to do, and the properties therefore except:

* **Two refreshes with one token that overlap both succeed**, because `revoked` is read before and not by
  the UPDATE: the login then has two live tokens. `raced` names these logins.
* **A refresh or login in flight while a logout runs leaves a live token**: the UPDATE sees only rows that
  are committed. `alone` says that there is none.
* **Logouts of one user may deadlock**, and nothing else in this component can (`DeadlocksAreLogouts`); the one that PostgreSQL aborts is answered with 200 like a
  success, since the router passes over every exception (`auth/router.py:121`). So is a logout whose access
  token has expired or is missing: it revokes nothing.

That the key lives for whole seconds only, and less than the token by up to one, is harmless: `exp` in a JWT
is itself a whole second and PyJWT refuses a token from `exp` on. The rounding can matter in the last
second of a token alone, which `LoggedOutRefused` says.

### WeeklyReports and the code

A message is a delivery of it: `copy[c]` is queued, running, ended or died. `unacked` says that the broker
holds it and may deliver it again (`Restore`), `todo` and `at` are the loop of
`send_weekly_reports_to_all_users`, `sent` and `failed` its two counters. `mails` counts what the SMTP
server took; `mailed`, `due` and `failed` are history.

| Action | Code |
|---|---|
| `Beat` | the schedule `send-weekly-reports` |
| `Begin`, `Take`, `Finish` | the SELECT of the users, the loop, the summary |
| `Deliver`, `Sent`, `NotSent` | `EmailService.send_email`: the server takes the mail; True; False after any exception, a timeout after the server has taken the mail included |
| `Raise` | the database raises, a child process dies or `task_time_limit` is over: the message is acknowledged all the same |
| `WorkerDies`, `Restore` | the worker as a whole dies and acknowledges nothing; the visibility timeout of the broker, an hour like `task_time_limit`, so that it may also come while the task runs |
| `Register` | new users meanwhile |

**An exception in one user's report ends the whole loop**: the users after that one get nothing in that week,
and nothing comes back, because the message is acknowledged. `failed` names these weeks. **With
`email_enabled` off, the default, every report counts as sent** and no mail exists (`Enabled`). The comment "Sunday midnight" of the schedule (`tasks/celery_app.py:47`) is not what 604800 s after the start of beat
is; the model has no days of the week.

### Streaks and the code

`dates[u]` are the dates of u's sessions, `streak[u]` the key in Redis; the task's local variables are
`job`, the loops are taken apart into iterations (`Count`, `Scan`), and between any two of them users
read (`CreateSession`), sessions go (`DeleteSession`), entries expire and the date changes (`Midnight`).

| Action | Code |
|---|---|
| `Begin`, `Skip`, `Look`, `Finish` | the loop over users with its two `continue`s; the SELECTs |
| `Today`, `Count`, `CountEnd` | `today`, read after the SELECT, and the `while` |
| `Scan`, `ScanEnd`, `Store` | the walk over `sorted_dates`, the last run, SETEX |
| `Abort` | an exception, or the worker dies |

`CurrentExact` and `LongestExact` compare what is stored with definitions that do not mention the
loops. `Look` joins two SELECTs, of the user's books and of the sessions of these: a book that is added between
the two is not looked at until the next run. `today` is read after them: when midnight comes in between, the count starts on a
date that no selected session can have, and 0 is stored, also for a user who has read on the new day by then. Dates
are those of UTC, as the connection is taken to return them. **An entry lives 3600 s and is written
once a day, so for most of the day there is none and `get_user_stats` and the leaderboard report 0**; and
a user who has not read yet today has a current streak of 0, whatever yesterday was. The docstring
speaks of users with active streaks, the task counts all it has computed.

### RateLimit and the code

`count[k]` and `left[k]` are a key of Redis and its lifetime; `log[k]`, the requests admitted in the last
window's length, is history. `Counted` is the Lua script, one atomic step; `Admit`, `Refuse` and `Lose`
are what becomes of its answer; `Reply` is the TTL query and the 429 a round trip later, when the
counter may have expired; `Tick` is Redis' expiry. Redis answers TTL rounded to the nearest second, so a
client that keeps to the Retry-After exactly may come up to half a second too early; `RetryHonest`
therefore adds half a second. A client that asks after the window has ended may be told of the next
window, so all that bounds its wait is the length of one.

The limiter is right, but **no request meets it**: `Depends(auth_limiter)` (`auth/router.py:32` and `:47`) calls the factory,
which returns a `RateLimiter` that is thrown away. `default_limiter` is used nowhere, nor are
`check_failed_login`, `record_failed_login` and `clear_failed_logins`, although the repository's
README lists rate limiting and account lockout as features. The model is of `RateLimiter.__call__` as its docstring says to use it.

## 3. Runs

| Run | Instance | Question and answer |
|---|---|---|
| `shelf_races` | 2 requests, 2 users, 1 catalog book, 2 user-book ids, 1 session id, INTEGER of 3 bits | foreign key, uniqueness, true responses, ownership, refinement of `Shelf` in every interleaving, with `IInv` (which contains the types); the only wait cycles are a cascade against a session's write: hold |
| `shelf_progress` | 2 requests, shutdown | after `Close` every request ends: holds; without `BreakDeadlock` it would not |
| `shelf_counter` | 2 requests on 1 book, 2 sessions, all six handlers | the counter is the sum of the sessions and what a PATCH set by hand, for every book no stale request has written, with `CounterInv`: hold |
| `pages_negative` | 1 request | **violated**: a PATCH of the book to 0 and then of the session to fewer pages commits a negative `pages_read` (`update_session` has no `max(0, ...)`) |
| `sweep_races` | 1 book, 2 PATCHes, 1 sweep, 2 days | `LInv`, with it that no commit writes a row that is gone; dates stay set; the sweep abandons exactly the untouched books last read before the cutoff: hold |
| `sweep_pair` | 2 books, 2 sweeps, 3 days, a worker that dies once | two deliveries of the sweep never both wait (`NobodyStuck`); exactness over several books; no inactive book stays READING: hold |
| `fresh_start` | 1 book, 1 PATCH, 1 sweep | **violated**: a book with an old session that is set to READING today is abandoned at once, `started_at` notwithstanding |
| `cache_settles` | 1 user, 1 leaderboard, 2 readers, 2 writers, two lifetimes | `CInv`; only values that a change raced outlive it; once books do not change any more, out of date entries run out and none comes back: hold |
| `token_races` | 2 requests, 2 accounts, 1 email, 3 tokens, 2 moments, 1 failure | `AInv`; one account per email; one live token per login; a logout revokes all, and its access token stays out; only logouts deadlock; refinement of `Accounts`: hold |
| `weekly_reports` | 2 users, 1 week, 3 deliveries, 2 faults | `WInv`; no more reports than deliveries; nobody left out; the summary adds up; every message is dealt with: hold |
| `streaks` | 2 users, the dates 0, 1 and 3, 1 failed run | `SInv`; both streaks exact; everyone is computed: hold |
| `rate_window` | 2 clients on 1 key, 3 requests in 2 s of 4 ticks | `RInv`; 2 * 3 - 1 requests in any 2 s; a Retry-After neither too short nor too long; every window ends: hold |

**Bounds.** An id is used for one INSERT (`used`), and `IdsLeft` starts no more INSERTs than ids are
left; two ids of user books are enough for a duplicate, one session for every race on it. Wait cycles through a third
request are left to the theorem, here and in `AuthTokens`. `IntMax` is 2 or 3: large enough for one addition
to succeed and a second to overflow. In `shelf_counter` one book is enough for every race on a counter, since a request writes to its own book only; two sessions make
a sum that is not one session's pages, and a PATCH to 1 is above the sum of no session and below that of a session of 2. `Lose`, `SoftDelete` and `BreakDeadlock` are unbounded.
Symmetry (requests, users, ids) is used in the safety runs only.

In `BookLifecycle` the days are abstract: a day of the model is any span of time, and `Inactive` and
`DaysOld` are 0 or 1 of them, so that "before the cutoff", "on it" and "after it" all occur (with
`LastDay` 1 or 2). A book has at most `MaxSessions` = 1 day with sessions at a time; it may be deleted
and another added, which changes the last day in both directions. Two ids are needed for a deadlock of
two sweeps, one for their races with requests. `MaxDeaths` bounds deaths because a worker that always
dies ends nothing.

In `StatsCache` a unit of time is any span. `cache_settles` has two different lifetimes and two readers, which
meet in the entry that the later `Store` overwrites. One user has every race there is, since users meet
only in the leaderboard, where a change of any of them counts alike; the theorem has any number. `MaxChanges` = 2 changes of a user, committed or in flight, are the least for a
value to be too old for one and not for the other.

In `AuthTokens` a second is two ticks, so that moments within one differ, and things happen at the ticks 1 and 3:
a refresh token made at 1 (it lives 1 tick) has expired at 3, an access token (4 ticks) has not, and its key
ends before, at or after its `exp` as the rounding has it. One email, so in effect one account, is enough for a race to
register; that users do not disturb each other rests on the theorems, which have any number of both; three tokens for a login, its refresh, and a race of two refreshes or a refresh of the new
one. In `WeeklyReports` three deliveries are the first, one after a death and one while a run is on. In `Streaks` the dates
0, 1 and 3 are the fewest with a run of two days, a gap and a run after it. In `RateLimit` a window is eight ticks, enough for a boundary, a
rounding and the end of a second; `MaxCount` is the limit and two requests beyond it. `weekly_reports` is the one run
with `CHECK_DEADLOCK FALSE`: after `MaxWeeks` messages the system rests.

**What single requests may record.** `create_session` adds pages without a look at `pages_total`
(`sessions/service.py:39`), which `update_book` refuses to exceed (`books/service.py:93`); a `POST` of a book with
the status `finished` needs no rating (`books/service.py:45`), a `PATCH` to it does (`books/service.py:101`). Neither is a question of
interleaving, so no run is spent on it.

**A redundant lock.** The foreign key's FOR KEY SHARE is not needed for `NoOrphanSessions`: the
UPDATE of the counter that follows raises `StaleDataError` when the book is gone. It is the reason,
though, that `create_session` and `delete_book` exclude each other early.

**Fairness.** `Fairness` is weak fairness of each request's next statement (the event loop resumes
every coroutine whose statement has returned) and of the deadlock detector. Nothing is assumed of
clients, of `Close`, of `Lose`. Row locks are not fair between a stream of FOR KEY SHARE holders and
a deleter, so liveness is stated once the server has stopped accepting requests (`Drains`).

In `BookLifecycle`, fairness is weak for the statements of PATCHes and sweeps and for the start of a
sweep (beat starts the task every day, whatever became of the last), and strong for an UPDATE that
waits for a row lock (PostgreSQL queues the waiters of a row). `InactiveSwept` needs no fairness of
clients; ids are used once, so a client cannot delete books for ever and make every flush fail. That
is a bound of the model: the code gives no promise under an endless stream of deletions.

In `StatsCache`, time goes on, and readers and writers take their next step: weak fairness of `Tick`,
of `FillStep(r)` and of `WriteStep(w)`. Nothing is assumed of failures or of the start of requests.
`EventuallyFresh` is about expiry: `MaxChanges` ends the changes, and the events may all fail.

In `WeeklyReports`, fairness is weak for each delivery's work (`Work(c)`: workers run what is queued, and
`send_email` has a timeout) and for the broker, which delivers again what a dead worker held
(`Redeliver(c)`). Nothing is assumed of mail servers: `Sent` and `NotSent` both end a mail. In `Streaks`,
fairness is weak for `Task`: the worker goes on, and beat sends the task again and again. In `RateLimit`, time passes
(`WF(Tick)`). `AuthTokens` states no liveness: a request waits for rows or for an index entry as in
`ShelfRequests`, and nothing there must happen in the end.

## 4. Proofs

`ShelfRequestsProofs` proves, for any numbers of requests, users, books and ids and any finite
INTEGER width, from the named assumptions `IntMaxAssumption`, `PagesAssumption`, `OpsAssumption`,
`NoneAssumption`:

* `Invariance`: `Spec => []IInv`; `TypeCorrect`, `ShelfConsistent`, `ShelfUnique`, `ResponsesHold`,
  `ShelfDeadlocks` and `ShelfMoves` follow from it;
* `OwnersOnly`: `Spec => OwnRowsOnly`, an action property, from `IInv` and `[Next]_vars`;
* `Refinement`: `Spec => Atomic`, i.e. every step of `ShelfRequests` is, on `ShelfOf` and `reading_sessions`, a step
  of `Shelf` or a stutter.

`NoOrphanSessions` and `UniqueShelfEntry` are not inductive: at a commit they rest on what the
request established earlier. `IInv` adds, per request, `Local(r)` (what a label says of the rows the
request has found, locked or inserted) and, per pair of requests, `Apart(r, q)` (what their locks and
fresh ids exclude). For instance `CreateSessionCommit` needs the user book to be there; `Local` says
so at that label, and it stays true because `DeleteBookCommit` of another request would need
`Deleting` and `Logging` labels on one id, which `Apart` excludes; `Apart` in turn is preserved
because `DeleteBookDelete` waits for the KEY SHARE lock. The proof has one step per action and one
per conjunct the action can disturb.

`ShelfDeadlocks` is about cycles of any length. In one, every request waits and holds what another waits for;
the labels at which a request does both are `delete_book.cascade`, `update_session.write` and
`delete_session.write` (lemma `WaitingPairs`). A write waits for a user book's lock, which only a
deleter holds at these labels, and a cascade for a session's, which only a write holds; two cascades on one book are what `Apart`
excludes. So the cycle has both.

`ShelfMoves` says that the requests in flight never all wait but in a cycle: as long as there is one, some request need
not wait, or is `Deadlocked` and PostgreSQL breaks its cycle. Were it otherwise, one could follow whom a
request waits for, three times; by `WaitingPairs` these alternate between the one cascade of a book and writes, so two of them close a
cycle. It is the safety half of `Drains`, for any number of requests; the other half, that
fairness makes somebody who can move do so, is the part TLC checks.

`ShelfCounterProofs` proves `CounterInvariance` (`CSpec => []CounterInv`), `CounterAccounted` (`[]CounterExact`) and
`CounterSigned` (`[]CounterNatural`) under the assumptions above and `IdsAssumption` (there are finitely many session ids), of
all six handlers in every interleaving. `CounterExact` compares `pages_read` with the pages of a book's sessions. Their sum is
stated as the cardinality of a set with one element per page (`PagesIn`), so that a session added, amended or erased
changes it by the cardinality of a set that is disjoint or contained, and no recursion and no induction are needed.
It is not inductive, because a commit writes a value computed many statements ago. `Reckoned(r)`
says that this value is not out of date unless r is `stale`: from the first SELECT of the book on `seen[r]` is its counter, from that of
the session on `old[r]` is its pages. A commit of another request keeps it so, because it is for another book, of which it
changes nothing (lemmas `StepLocal`, `OthersReckoned`), or makes r stale. The lemma `SessionsCount` is the arithmetic of a commit
that is not stale: the difference it adds to the counter is that of the sums before and after it. There `Lowered`, which is `max(0, ...)`, is the
difference itself, or the book has drifted.

`BookLifecycleProofs` proves, for any finite set of numeric ids, any numbers of PATCHes, sweeps and
days and any thresholds, from the named assumptions of `BookLifecycle`:

* `LifecycleInvariance`: `Spec => []LInv`;
* `LifecycleNobodyStuck`: `Spec => []NobodyStuck`. If nobody could go on, every PATCH in flight would wait for a row that
  a sweep has locked, and every sweep as well. Of the locked rows one has the largest id; the sweep that has locked
  it waits for a larger one (`SweepOK`: locks are taken in ascending order), which is locked too: a
  contradiction. That a finite set of numbers has a largest element and any a smallest (`Largest`, `Smallest`)
  is derived from the well-foundedness of the strict subsets of a finite set;
* `LifecycleDatesKept` and `LifecycleSweepExact`, action properties.

`SweepExact` is not inductive: at the commit it speaks of what the sweep found out many statements
ago. `Judged(w, b)` carries that through: for a book outside `touched`, a book still to look up is
READING (or abandoned by the other sweep) with the `started_at` that was selected, a marked one is
`Old` by the sessions as they are now, an unmarked READING one is not. The lemma `Touched` shows it for
every step of a request at once; `LockedRowsKept` makes the commit write rows that exist.

`StatsCacheProofs` proves, for any users, leaderboards, readers, writers and lifetimes, from the named
assumptions of `StatsCache`, `CacheInvariance` (`Spec => []CInv`) and `CacheStaleOnlyByRace`.
`StaleOnlyByRace` is not inductive: when a change commits, an old entry must be gone already or be
marked as raced. `CInv` says what makes it so before the commit. `Clean`: of an unraced entry no change is
`Behind`, i.e. past its key and about to leave it alone (a leaderboard that the SCAN found is not left
alone: its DEL is to come). `FillClean`: of an unraced value on its way to the cache no announced change is past its key
at all, because no DEL reaches it. The lemma `PassInv` is the moment at which a change gets past a
key; `QuietInv` and `ReaderInv` treat the steps that announce nothing.

`AuthTokensProofs` proves, for any requests, accounts, tokens, lifetimes, moments and failures,
`TokensInvariance` (`Spec => []AInv`) and from it `TokensOneAccount`, `TokensRotated`, `TokensLoggedOut`,
`TokensDeadlocks`, `TokensMove` and the action property `TokensLogoutTotal`; and the refinement `TokensRefine`. Each part of `AInv` is what one of them needs: `AccountsOK`, that of
an INSERT under way nobody else has or writes the email, because `KeyLock` made it wait; `NamesOK`, what a
request has found and made; `RotationOK`, that of a login not raced only the token under refresh is
live, and it is refreshed once; `LogoutOK`, that a logout which is alone has all live rows among those it
has locked or has still to lock; `KeysOK`, that the key, or the lifetime it is about to get, reaches to less than a
second before `exp`, for any moment at which it is set; `KnownOK`, that tokens are made for accounts that are there.

`TokensRefine` is `Spec => Atomic`: on `accounts` and `RowsNow`, the rows of `refresh_tokens` as they are committed,
every step is one of `Accounts` or a stutter. Only the four commits are not stutters. A commit of a registration
needs that the email is still free (`AccountsOK`), that of a login or refresh that the new row is not there yet and
its account and line are those the request found (`NamesOK`, `KnownOK`), that of a logout that all it has locked are rows
of the user (`LogoutOK`). `Accounts` deliberately allows a refresh from a row that is revoked already: two overlapping
refreshes do that. What it forbids comes out as `TokensRevokedForGood` and `TokensEmailsKept`, proved of `Accounts`
and carried over by the refinement.

`Deadlocked(r)` says that r waits for itself by way of others: every set that contains whom r waits for, and with anyone
also whom that one waits for, contains r. `TokensDeadlocks` names such sets that a register (those that only
commit) and a refresh (those, and logouts) are not in. `TokensMove`: if all requests in flight wait, some nonempty set of
them waits for none outside of it, and a smallest such set, which exists since requests are finitely many
(`ReqAssumption`: the pool of connections is), is a cycle; by `TokensDeadlocks` it consists of logouts.

`WeeklyReportsProofs` proves `ReportsInvariance`, `ReportsOnce`, `ReportsNobodyLeftOut` and
`ReportsSummary` for any finite set of users and any numbers of weeks, deliveries and faults. `RunsOK` ties the counters of a run to
the users it has been through; `MailsOK` counts mails as copies that mailed; `WeeksOK` says that of a week without a failed run some copy is queued, ended or
still held by the broker, and `SelectedOK` that whichever runs to its end had everybody.

`StreaksProofs` proves `StreaksInvariance`, `StreaksCurrent` and `StreaksLongest` for any users and dates. `SInv` is the invariant of the two
loops: `CountOK`, that the days between `check_date` and today are all there; `ScanOK`, that `temp` is the run that
ends at the date reached, `longest` the length of a run, and no run so far is longer than both.

`RateLimitProofs` proves `RateInvariance`, `RateWindowBound` and `RateRetryHonest` for any limit and window.
`WindowBound` counts: `LogOK` says that an admitted request is known by the count it got and by whether
its counter still runs, and that the first of the counter before is forgotten; so the log is
injected into a set of `2 * Times - 1` numbers. `WaitOK` bounds the wait of a client from both sides while the window that
refused it lasts: no less than what is `left`, and at most a second and a half more; the lemma `RetryFacts` has the rounding.

Only model-checked: `InactiveSwept`, `EventuallyFresh`, `Drains`, `EveryoneComputed`, `Settles` and `WindowsEnd`
(liveness, out of the prover's reach). `ShelfMoves`, `TokensMove` and `LifecycleNobodyStuck` prove what can be said of
waiting without fairness.

## 5. What is not modelled, and what is left

* Configuration, logging and the formatting of errors keep no state.
* Queries: `get_book`, `list_books` (its OFFSET and LIMIT without an ORDER BY may overlap: the
  order of the rows is the database's), `list_sessions`, search, popularity, `get_weekly_report_stats`.
* `create_book` of the catalog is a check, an INSERT and a unique index, the shape of `register`.
* `send_reminder` and the failed-login helpers are called by nothing. The text of the mails.
* What the two writers of a leaderboard count: the task all books of a user, the API the finished ones of the period.
  It is a difference of two queries; `StatsCache` has when each of them writes.
* Password hashing and signatures, taken to be right.
* Left for later: `create_book` with the events it publishes, and a composition of `StatsCache` with `Streaks`, whose entries
  the statistics include.
