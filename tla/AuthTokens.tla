----------------------------- MODULE AuthTokens -----------------------------
(***************************************************************************)
(* Accounts, refresh tokens and the blacklist of access tokens.            *)
(*                                                                         *)
(* register, login, refresh and logout are transactions of one PostgreSQL  *)
(* database at READ COMMITTED, one action per statement; what they write   *)
(* becomes visible at their commit, after the response (get_db).  The      *)
(* blacklist is in Redis, where a key lives for whole seconds.             *)
(*                                                                         *)
(* login and refresh hand out a refresh token and an access token at once; *)
(* one name stands for both: its row in refresh_tokens, which a client     *)
(* presents to refresh, and its jti, which the blacklist goes by.          *)
(***************************************************************************)
EXTENDS Integers, FiniteSets

CONSTANTS Req,          \* requests in flight at most
          User,         \* ids of accounts
          Email,
          Token,        \* names of token pairs, each used once
          Second,       \* ticks of the clock per second
          AccessLife,   \* ticks that an access token lives
          RefreshLife,  \* ticks that a refresh token lives
          Moments,      \* ticks at which something happens in the model
          MaxFaults,    \* bound of the model: failures
          None          \* NULL, no row

ASSUME ReqAssumption == IsFiniteSet(Req)
ASSUME SecondAssumption == Second \in Nat \ {0}
ASSUME LifeAssumption == AccessLife \in Nat /\ RefreshLife \in Nat
ASSUME BoundAssumption == Moments \subseteq Nat /\ MaxFaults \in Nat

VARIABLES
    now,        \* the clock of the servers, of Redis and of the database
    accounts,   \* committed rows of users: the email of each
    pairs,      \* the tokens that were made: claims and columns that stay
    tokens,     \* committed rows of refresh_tokens: the column revoked
    blacklist,  \* when the key of a jti expires, 0 if it was never set
    pc,         \* the next statement of each request
    job,        \* what each request has found and made
    faults,     \* failures so far
    raced,      \* logins of whose tokens one was refreshed by two requests at
                \* a time (history, read by properties only)
    ended       \* tokens that a logout has dealt with in Redis (history, read
                \* by properties only)

vars == <<now, accounts, pairs, tokens, blacklist, pc, job, faults, raced, ended>>

\* exp of the access token, expires_at of the refresh token.  root: the pair
\* of the login that this one descends from (history).
Pair == [user: User, root: Token, exp: Nat, expires: Nat]

\* token: what the client presented; new: what the request makes.  todo and
\* done: rows that the UPDATE of a logout has still to lock and has locked;
\* alone: no login or refresh of the user has been under way since that
\* UPDATE began (history, read by properties only).
Job == [email: Email \cup {None}, user: User \cup {None},
        token: Token \cup {None}, new: Token \cup {None}, ttl: Nat,
        todo: SUBSET Token, done: SUBSET Token, alone: BOOLEAN]
NoJob == [email |-> None, user |-> None, token |-> None, new |-> None,
          ttl |-> 0, todo |-> {}, done |-> {}, alone |-> FALSE]

ASSUME NoneAssumption ==
    None \notin User \cup Email \cup Token \cup Pair
                \cup [user: User, root: Token, live: BOOLEAN]

Labels == {"idle", "register.insert", "register.commit",
           "login.insert", "login.commit",
           "refresh.revoke", "refresh.insert", "refresh.commit",
           "logout.blacklist", "logout.revoke", "logout.rows"}

TypeOK ==
    /\ now \in Nat
    /\ accounts \in [User -> Email \cup {None}]
    /\ pairs \in [Token -> Pair \cup {None}]
    /\ tokens \in [Token -> {"none", "live", "revoked"}]
    /\ blacklist \in [Token -> Nat]
    /\ pc \in [Req -> Labels]
    /\ job \in [Req -> Job]
    /\ faults \in 0..MaxFaults
    /\ raced \subseteq Token
    /\ ended \subseteq Token

Init ==
    /\ now \in Moments
    /\ accounts = [u \in User |-> None]
    /\ pairs = [t \in Token |-> None]
    /\ tokens = [t \in Token |-> "none"]
    /\ blacklist = [t \in Token |-> 0]
    /\ pc = [r \in Req |-> "idle"]
    /\ job = [r \in Req |-> NoJob]
    /\ faults = 0
    /\ raced = {}
    /\ ended = {}

-----------------------------------------------------------------------------
(* What a request sees, and the locks of the statements it has reached.     *)

\* int(exp - now), and exp itself, which a JWT holds in whole seconds.
WholeSeconds(ticks) == ticks - (ticks % Second)

Registered(e) == \E u \in User : accounts[u] = e

RowsOf(u) == {t \in Token : tokens[t] # "none" /\ pairs[t].user = u}

\* Mutant: refresh does not look at revoked.
RefreshableRevoked(t) == tokens[t] # "none" /\ now <= pairs[t].expires

\* What refresh asks of the row that it finds by the hash.
Refreshable(t) == tokens[t] = "live" /\ now <= pairs[t].expires

Refreshing(r) == pc[r] \in {"refresh.revoke", "refresh.insert", "refresh.commit"}

\* A login or refresh of u that may still hand out a token.
Issuing(r, u) == /\ job[r].user = u
                 /\ pc[r] \in {"login.insert", "login.commit"} \/ Refreshing(r)

\* Mutant: users has no unique index.
KeyLockMissing(r, e) == FALSE

\* An uncommitted entry of the unique index on users.email.
KeyLock(r, e) == pc[r] = "register.commit" /\ job[r].email = e

\* Mutant: refresh selects its row FOR SHARE.
RowLockShared(r, t) ==
    \/ Refreshing(r) /\ job[r].token = t
    \/ pc[r] = "logout.rows" /\ t \in job[r].done

\* The row of t, locked by the UPDATE of a refresh or of a logout.
RowLock(r, t) ==
    \/ pc[r] \in {"refresh.insert", "refresh.commit"} /\ job[r].token = t
    \/ pc[r] = "logout.rows" /\ t \in job[r].done

Go(r, label) == pc' = [pc EXCEPT ![r] = label]
End(r) == Go(r, "idle") /\ job' = [job EXCEPT ![r] = NoJob]

\* The next statement of r has to wait for the transaction of q to end.
Waits(r, q) ==
    /\ r # q
    /\ \/ pc[r] = "register.insert" /\ KeyLock(q, job[r].email)
       \/ pc[r] = "refresh.revoke" /\ RowLock(q, job[r].token)
       \/ pc[r] = "logout.rows" /\ \E t \in job[r].todo : RowLock(q, t)

\* The requests that r waits for, those that they wait for, and so on, come
\* back to r.
Deadlocked(r) ==
    \A S \in SUBSET Req :
       /\ \A q \in Req : Waits(r, q) => q \in S
       /\ \A p \in S, q \in Req : Waits(p, q) => q \in S
       => r \in S

Fault == faults < MaxFaults /\ faults' = faults + 1

\* r begins to issue a token for u: no logout of u is alone any more.
BeginIssue(r, u, j) ==
    job' = [q \in Req |->
              IF q = r THEN j
              ELSE IF job[q].user = u /\ pc[q] = "logout.rows"
              THEN [job[q] EXCEPT !.alone = FALSE] ELSE job[q]]

-----------------------------------------------------------------------------
(* register.  An email that is taken already is answered, and nothing       *)
(* changes.                                                                 *)

RegisterExists(r, e) ==
    /\ pc[r] = "idle" /\ ~Registered(e)
    /\ Go(r, "register.insert")
    /\ job' = [job EXCEPT ![r].email = e]
    /\ UNCHANGED <<now, accounts, pairs, tokens, blacklist, faults, raced, ended>>

\* The INSERT waits for an uncommitted row with the same email.
RegisterInsert(r, u) ==
    /\ pc[r] = "register.insert"
    /\ \A q \in Req : ~KeyLock(q, job[r].email) /\ job[q].user # u
    /\ accounts[u] = None /\ ~Registered(job[r].email)
    /\ Go(r, "register.commit")
    /\ job' = [job EXCEPT ![r].user = u]
    /\ UNCHANGED <<now, accounts, pairs, tokens, blacklist, faults, raced, ended>>

\* IntegrityError: the other request has won.
RegisterRefused(r) ==
    /\ pc[r] = "register.insert" /\ Registered(job[r].email)
    /\ End(r)
    /\ UNCHANGED <<now, accounts, pairs, tokens, blacklist, faults, raced, ended>>

RegisterCommit(r) ==
    /\ pc[r] = "register.commit"
    /\ accounts' = [accounts EXCEPT ![job[r].user] = job[r].email]
    /\ End(r)
    /\ UNCHANGED <<now, pairs, tokens, blacklist, faults, raced, ended>>

-----------------------------------------------------------------------------
(* login and refresh.                                                       *)

\* A pair is made; its lifetimes begin now.
Make(t, u, root) ==
    /\ pairs[t] = None
    /\ pairs' = [pairs EXCEPT ![t] =
          [user |-> u, root |-> root, exp |-> WholeSeconds(now + AccessLife),
           expires |-> now + RefreshLife]]

\* Bound of the model: who begins to make a pair finds a name for it.
NamesLeft == Cardinality({q \in Req : pc[q] \in {"login.insert", "refresh.revoke",
                                               "refresh.insert"}})
               < Cardinality({t \in Token : pairs[t] = None})

LoginFind(r, u) ==
    /\ pc[r] = "idle" /\ accounts[u] # None /\ NamesLeft
    /\ Go(r, "login.insert")
    /\ BeginIssue(r, u, [NoJob EXCEPT !.user = u])
    /\ UNCHANGED <<now, accounts, pairs, tokens, blacklist, faults, raced, ended>>

\* _create_tokens: the INSERT is executed, the response sent.
LoginInsert(r, t) ==
    /\ pc[r] = "login.insert"
    /\ Make(t, job[r].user, t)
    /\ Go(r, "login.commit")
    /\ job' = [job EXCEPT ![r].new = t]
    /\ UNCHANGED <<now, accounts, tokens, blacklist, faults, raced, ended>>

LoginCommit(r) ==
    /\ pc[r] = "login.commit"
    /\ tokens' = [tokens EXCEPT ![job[r].new] = "live"]
    /\ End(r)
    /\ UNCHANGED <<now, accounts, pairs, blacklist, faults, raced, ended>>

\* A row that is missing, revoked or expired is answered; nothing changes.
RefreshFind(r, t) ==
    /\ pc[r] = "idle" /\ Refreshable(t) /\ NamesLeft
    /\ Go(r, "refresh.revoke")
    /\ BeginIssue(r, pairs[t].user,
                  [NoJob EXCEPT !.user = pairs[t].user, !.token = t])
    /\ raced' = IF \E q \in Req : Refreshing(q) /\ job[q].token = t
                THEN raced \cup {pairs[t].root} ELSE raced
    /\ UNCHANGED <<now, accounts, pairs, tokens, blacklist, faults, ended>>

\* UPDATE .. WHERE id = ..: waits for the row, and asks nothing of it again.
RefreshRevoke(r) ==
    /\ pc[r] = "refresh.revoke"
    /\ \A q \in Req \ {r} : ~RowLock(q, job[r].token)
    /\ Go(r, "refresh.insert")
    /\ UNCHANGED <<now, accounts, pairs, tokens, blacklist, job, faults, raced, ended>>

RefreshInsert(r, t) ==
    /\ pc[r] = "refresh.insert"
    /\ Make(t, job[r].user, pairs[job[r].token].root)
    /\ Go(r, "refresh.commit")
    /\ job' = [job EXCEPT ![r].new = t]
    /\ UNCHANGED <<now, accounts, tokens, blacklist, faults, raced, ended>>

\* Mutant: the UPDATE of the old row is not part of the transaction.
RefreshCommitUnrevoked(r) ==
    /\ pc[r] = "refresh.commit"
    /\ tokens' = [tokens EXCEPT ![job[r].new] = "live"]
    /\ End(r)
    /\ UNCHANGED <<now, accounts, pairs, blacklist, faults, raced, ended>>

RefreshCommit(r) ==
    /\ pc[r] = "refresh.commit"
    /\ tokens' = [tokens EXCEPT ![job[r].token] = "revoked", ![job[r].new] = "live"]
    /\ End(r)
    /\ UNCHANGED <<now, accounts, pairs, blacklist, faults, raced, ended>>

-----------------------------------------------------------------------------
(* logout.                                                                  *)

\* Mutant: a second too few.
TtlShort(t) == IF pairs[t].exp - now < Second THEN 0
               ELSE WholeSeconds(pairs[t].exp - now) - Second

\* The lifetime that the key of t gets, in ticks of whole seconds.
Ttl(t) == WholeSeconds(pairs[t].exp - now)

\* An expired access token fails to decode, which the router passes over:
\* the answer is the same, and nothing changes.
LogoutDecode(r, t) ==
    /\ pc[r] = "idle" /\ pairs[t] # None /\ now < pairs[t].exp
    /\ Go(r, "logout.blacklist")
    /\ job' = [job EXCEPT ![r].user = pairs[t].user, ![r].token = t,
                          ![r].ttl = Ttl(t)]
    /\ UNCHANGED <<now, accounts, pairs, tokens, blacklist, faults, raced, ended>>

\* SETEX, unless less than a second is left.
LogoutBlacklist(r) ==
    /\ pc[r] = "logout.blacklist"
    /\ blacklist' = IF job[r].ttl = 0 THEN blacklist
                    ELSE [blacklist EXCEPT ![job[r].token] = now + job[r].ttl]
    /\ ended' = ended \cup {job[r].token}
    /\ Go(r, "logout.revoke")
    /\ job' = [job EXCEPT ![r].ttl = 0]
    /\ UNCHANGED <<now, accounts, pairs, tokens, faults, raced>>

\* Redis raises, which logout logs and goes on.
LogoutBlacklistFails(r) ==
    /\ pc[r] = "logout.blacklist" /\ Fault
    /\ Go(r, "logout.revoke")
    /\ job' = [job EXCEPT ![r].ttl = 0]
    /\ UNCHANGED <<now, accounts, pairs, tokens, blacklist, raced, ended>>

\* Mutant: only the row of the token that the client presented.
LogoutRevokeOne(r) ==
    /\ pc[r] = "logout.revoke"
    /\ Go(r, "logout.rows")
    /\ job' = [job EXCEPT ![r].todo = {job[r].token} \cap RowsOf(job[r].user), ![r].done = {},
          ![r].alone = \A q \in Req : ~Issuing(q, job[r].user)]
    /\ UNCHANGED <<now, accounts, pairs, tokens, blacklist, faults, raced, ended>>

\* UPDATE .. WHERE user_id = ..: the rows that are committed as it begins ..
LogoutRevoke(r) ==
    /\ pc[r] = "logout.revoke"
    /\ Go(r, "logout.rows")
    /\ job' = [job EXCEPT ![r].todo = RowsOf(job[r].user), ![r].done = {},
          ![r].alone = \A q \in Req : ~Issuing(q, job[r].user)]
    /\ UNCHANGED <<now, accounts, pairs, tokens, blacklist, faults, raced, ended>>

\* .. are locked one after the other, in any order.
LogoutLock(r, t) ==
    /\ pc[r] = "logout.rows" /\ t \in job[r].todo
    /\ \A q \in Req \ {r} : ~RowLock(q, t)
    /\ job' = [job EXCEPT ![r].todo = @ \ {t}, ![r].done = @ \cup {t}]
    /\ UNCHANGED <<now, accounts, pairs, tokens, blacklist, pc, faults, raced, ended>>

LogoutCommit(r) ==
    /\ pc[r] = "logout.rows" /\ job[r].todo = {}
    /\ tokens' = [t \in Token |-> IF t \in job[r].done THEN "revoked" ELSE tokens[t]]
    /\ End(r)
    /\ UNCHANGED <<now, accounts, pairs, blacklist, faults, raced, ended>>

-----------------------------------------------------------------------------
\* The handler raises, the process or the connection dies: the transaction is
\* rolled back.  What was handed out and what is in Redis stays.
Lose(r) ==
    /\ pc[r] # "idle" /\ Fault /\ End(r)
    /\ UNCHANGED <<now, accounts, pairs, tokens, blacklist, raced, ended>>

\* PostgreSQL aborts one of the requests that wait in a circle; the router of
\* logout answers that like a success.
BreakDeadlock(r) ==
    /\ Deadlocked(r) /\ End(r)
    /\ UNCHANGED <<now, accounts, pairs, tokens, blacklist, faults, raced, ended>>

Tick == /\ now' \in {m \in Moments : m > now}
        /\ UNCHANGED <<accounts, pairs, tokens, blacklist, pc, job, faults, raced, ended>>

Next ==
    \/ \E r \in Req :
          \/ \E e \in Email : RegisterExists(r, e)
          \/ \E u \in User : RegisterInsert(r, u)
          \/ RegisterRefused(r) \/ RegisterCommit(r)
          \/ \E u \in User : LoginFind(r, u)
          \/ \E t \in Token : LoginInsert(r, t)
          \/ LoginCommit(r)
          \/ \E t \in Token : RefreshFind(r, t)
          \/ RefreshRevoke(r)
          \/ \E t \in Token : RefreshInsert(r, t)
          \/ RefreshCommit(r)
          \/ \E t \in Token : LogoutDecode(r, t)
          \/ LogoutBlacklist(r) \/ LogoutBlacklistFails(r) \/ LogoutRevoke(r)
          \/ \E t \in Token : LogoutLock(r, t)
          \/ LogoutCommit(r)
          \/ Lose(r) \/ BreakDeadlock(r)
    \/ Tick

Spec == Init /\ [][Next]_vars

-----------------------------------------------------------------------------
(* Properties.                                                              *)

\* Two requests that register one email at the same time do not both
\* succeed, although each has looked and found nothing.
OneAccountPerEmail ==
    \A u, v \in User : u # v /\ accounts[u] # None => accounts[u] # accounts[v]

\* Rotation: of the refresh tokens that go back to one login, by whatever
\* chain of refreshes, one at most is live, unless two requests refreshed one
\* of them at the same time.
OneLivePerLogin ==
    \A s, t \in Token :
       /\ tokens[s] = "live" /\ tokens[t] = "live"
       /\ pairs[s].root = pairs[t].root /\ pairs[s].root \notin raced
       => s = t

\* Only logouts deadlock, with other logouts of the same user: no register or
\* refresh, whose failure the client would see, is ever aborted, as they have
\* locked nothing yet when they wait.
DeadlocksAreLogouts ==
    \A r \in Req : Deadlocked(r) =>
       /\ pc[r] = "logout.rows"
       /\ \E q \in Req : /\ Waits(r, q)
                         /\ pc[q] = "logout.rows" /\ job[q].user = job[r].user

\* A logout leaves the user no live refresh token, unless a login or refresh
\* of the user was under way while it revoked them.
LogoutTotal ==
    [][\A r \in Req : LogoutCommit(r) /\ job[r].alone =>
          \A t \in RowsOf(job[r].user) : tokens'[t] # "live"]_vars

\* get_current_user lets the access token of t pass.
Accepted(t) == pairs[t] # None /\ now < pairs[t].exp /\ blacklist[t] <= now

\* An access token that was logged out is not accepted again, however often
\* and late the key is set, except in what is left of its last second.
LoggedOutRefused ==
    \A t \in ended : Accepted(t) => pairs[t].exp < now + Second

-----------------------------------------------------------------------------
(* What all of it comes to (see Accounts).                                  *)

\* The committed rows of refresh_tokens as Accounts has them.
RowsNow == [t \in Token |->
              IF tokens[t] = "none" THEN None
              ELSE [user |-> pairs[t].user, root |-> pairs[t].root,
                    live |-> tokens[t] = "live"]]

A == INSTANCE Accounts WITH rows <- RowsNow

\* Whatever the interleaving of the statements, the committed accounts and
\* refresh tokens change by whole registrations, logins, refreshes and logouts.
Atomic == A!Spec

-----------------------------------------------------------------------------
(* The inductive invariant.                                                 *)

Making(r) == pc[r] \in {"login.commit", "refresh.commit"}

IdleOK == \A r \in Req : pc[r] = "idle" => job[r] = NoJob

\* A row of users that is not committed yet takes an email nobody has.
Registering(r) ==
    /\ pc[r] \in {"register.insert", "register.commit"} => job[r].email \in Email
    /\ pc[r] = "register.commit" =>
          /\ job[r].user \in User /\ accounts[job[r].user] = None
          /\ ~Registered(job[r].email)
          /\ \A q \in Req \ {r} : pc[q] = "register.commit" =>
                job[r].email # job[q].email /\ job[r].user # job[q].user

AccountsOK == OneAccountPerEmail /\ \A r \in Req : Registering(r)

\* What a login or refresh has found and made.
Made(r) ==
    /\ pc[r] = "login.insert" => job[r].user \in User
    /\ Refreshing(r) =>
          /\ job[r].token \in Token /\ tokens[job[r].token] # "none"
          /\ job[r].user = pairs[job[r].token].user
    /\ Making(r) =>
          /\ job[r].new \in Token /\ tokens[job[r].new] = "none"
          /\ pairs[job[r].new] # None /\ pairs[job[r].new].user = job[r].user
          /\ \A q \in Req \ {r} : Making(q) => job[r].new # job[q].new
    /\ pc[r] = "refresh.commit" =>
          pairs[job[r].new].root = pairs[job[r].token].root
    /\ pc[r] = "login.commit" =>
          \A t \in Token : pairs[t] # None =>
             (pairs[t].root = job[r].new <=> t = job[r].new)

NamesOK == /\ \A t \in Token : tokens[t] # "none" => pairs[t] # None
           /\ \A t \in Token : pairs[t] # None => pairs[pairs[t].root] # None
           /\ \A r \in Req : Made(r)

RootOf(r) == pairs[job[r].token].root

\* Of a login's tokens that were not raced, only what is being refreshed is
\* live, and it is being refreshed once.
Rotating(r) ==
    (Refreshing(r) /\ RootOf(r) \notin raced) =>
       /\ \A t \in Token : tokens[t] = "live" /\ pairs[t].root = RootOf(r)
                            => t = job[r].token
       /\ \A q \in Req \ {r} : Refreshing(q) => RootOf(q) # RootOf(r)

RotationOK == OneLivePerLogin /\ \A r \in Req : Rotating(r)

\* A logout works on rows of the user; alone, on all that are live.
LoggingOut(r) ==
    pc[r] = "logout.rows" =>
       LET mine == job[r].todo \cup job[r].done
       IN  /\ mine \subseteq RowsOf(job[r].user)
           /\ job[r].alone =>
                 /\ \A q \in Req : ~Issuing(q, job[r].user)
                 /\ \A t \in RowsOf(job[r].user) : tokens[t] = "live" => t \in mine

LogoutOK == \A r \in Req : LoggingOut(r)

\* A key covers all but the last second of its token.
KeysOK ==
    /\ \A t \in ended :
          /\ pairs[t] # None
          /\ \/ pairs[t].exp < blacklist[t] + Second
             \/ pairs[t].exp < now + Second
    /\ \A r \in Req : pc[r] = "logout.blacklist" =>
          /\ job[r].token \in Token /\ pairs[job[r].token] # None
          /\ pairs[job[r].token].exp < now + job[r].ttl + Second

\* Tokens are made for accounts that are there.
KnownOK ==
    /\ \A t \in Token : pairs[t] # None => accounts[pairs[t].user] # None
    /\ \A r \in Req : pc[r] = "login.insert" => accounts[job[r].user] # None

AInv == /\ TypeOK /\ IdleOK
        /\ AccountsOK /\ NamesOK /\ RotationOK /\ LogoutOK /\ KeysOK /\ KnownOK
=============================================================================
