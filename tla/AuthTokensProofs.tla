-------------------------- MODULE AuthTokensProofs --------------------------
(***************************************************************************)
(* AuthTokens for any requests, accounts, names, lifetimes and moments.    *)
(***************************************************************************)
EXTENDS AuthTokens, FiniteSetTheorems, TLAPS

(* Rounding down to whole seconds loses less than one.                      *)
LEMMA WholeSecondsFacts ==
    ASSUME NEW x \in Nat
    PROVE  /\ WholeSeconds(x) \in Nat
           /\ x < WholeSeconds(x) + Second
<1>1. x % Second \in 0..(Second - 1) /\ x % Second <= x
  BY SecondAssumption
<1> QED
  BY <1>1, SecondAssumption DEF WholeSeconds

-----------------------------------------------------------------------------
(* Types.                                                                   *)

LEMMA NoJobType == NoJob \in Job
BY DEF NoJob, Job

LEMMA MakeType ==
    ASSUME TypeOK, NEW t \in Token, NEW u \in User, NEW root \in Token,
           Make(t, u, root)
    PROVE  pairs' \in [Token -> Pair \cup {None}] /\ pairs'[t] \in Pair
<1>1. now + AccessLife \in Nat /\ now + RefreshLife \in Nat
  BY LifeAssumption DEF TypeOK
<1>2. WholeSeconds(now + AccessLife) \in Nat
  BY <1>1, WholeSecondsFacts
<1> QED
  BY <1>1, <1>2 DEF Make, TypeOK, Pair

LEMMA TypeInv == AInv /\ [Next]_vars => TypeOK'
<1> SUFFICES ASSUME AInv, [Next]_vars PROVE TypeOK'
  OBVIOUS
<1> USE NoJobType DEF AInv, Go, End, Labels, Fault
<1>1. ASSUME NEW r \in Req, NEW e \in Email, RegisterExists(r, e) PROVE TypeOK'
  BY <1>1 DEF RegisterExists, TypeOK, Job
<1>2. ASSUME NEW r \in Req, NEW u \in User, RegisterInsert(r, u) PROVE TypeOK'
  <2>1. [job[r] EXCEPT !.user = u] \in Job
    BY DEF TypeOK, Job
  <2> QED
    BY <1>2, <2>1 DEF RegisterInsert, TypeOK
<1>3. ASSUME NEW r \in Req, RegisterRefused(r) PROVE TypeOK'
  BY <1>3 DEF RegisterRefused, TypeOK
<1>4. ASSUME NEW r \in Req, RegisterCommit(r) PROVE TypeOK'
  <2>1. job[r].email \in Email
    BY <1>4 DEF RegisterCommit, AccountsOK, Registering
  <2> QED
    BY <1>4, <2>1 DEF RegisterCommit, TypeOK
<1>5. ASSUME NEW r \in Req, NEW u \in User, LoginFind(r, u) PROVE TypeOK'
  <2>1. [NoJob EXCEPT !.user = u] \in Job
    BY DEF NoJob, Job
  <2> QED
    BY <1>5, <2>1 DEF LoginFind, BeginIssue, TypeOK, Job
<1>6. ASSUME NEW r \in Req, NEW t \in Token, LoginInsert(r, t) PROVE TypeOK'
  <2>1. pairs' \in [Token -> Pair \cup {None}]
    BY <1>6, MakeType DEF LoginInsert, NamesOK, Made
  <2> QED
    BY <1>6, <2>1 DEF LoginInsert, TypeOK, Job
<1>7. ASSUME NEW r \in Req, LoginCommit(r) PROVE TypeOK'
  BY <1>7 DEF LoginCommit, TypeOK
<1>8. ASSUME NEW r \in Req, NEW t \in Token, RefreshFind(r, t) PROVE TypeOK'
  <2>1. pairs[t] \in Pair
    BY <1>8 DEF RefreshFind, Refreshable, NamesOK, TypeOK
  <2>2. [NoJob EXCEPT !.user = pairs[t].user, !.token = t] \in Job
    BY <2>1 DEF NoJob, Job, Pair
  <2> QED
    BY <1>8, <2>1, <2>2 DEF RefreshFind, BeginIssue, TypeOK, Job, Pair
<1>9. ASSUME NEW r \in Req, RefreshRevoke(r) PROVE TypeOK'
  BY <1>9 DEF RefreshRevoke, TypeOK
<1>10. ASSUME NEW r \in Req, NEW t \in Token, RefreshInsert(r, t) PROVE TypeOK'
  <2>1. job[r].token \in Token /\ pairs[job[r].token] \in Pair
        /\ job[r].user = pairs[job[r].token].user
    BY <1>10 DEF RefreshInsert, NamesOK, Made, Refreshing, TypeOK
  <2>2. pairs' \in [Token -> Pair \cup {None}]
    BY <1>10, <2>1, MakeType DEF RefreshInsert, Pair
  <2> QED
    BY <1>10, <2>2 DEF RefreshInsert, TypeOK, Job
<1>11. ASSUME NEW r \in Req, RefreshCommit(r) PROVE TypeOK'
  BY <1>11 DEF RefreshCommit, TypeOK
<1>12. ASSUME NEW r \in Req, NEW t \in Token, LogoutDecode(r, t) PROVE TypeOK'
  <2>1. pairs[t] \in Pair /\ pairs[t].exp - now \in Nat
    BY <1>12 DEF LogoutDecode, TypeOK, Pair
  <2>2. Ttl(t) \in Nat
    BY <2>1, WholeSecondsFacts DEF Ttl
  <2>3. [job[r] EXCEPT !.user = pairs[t].user, !.token = t, !.ttl = Ttl(t)] \in Job
    BY <2>1, <2>2 DEF TypeOK, Job, Pair
  <2> QED
    BY <1>12, <2>3 DEF LogoutDecode, TypeOK
<1>13. ASSUME NEW r \in Req, LogoutBlacklist(r) \/ LogoutBlacklistFails(r)
       PROVE  TypeOK'
  <2>1. job[r].token \in Token /\ now + job[r].ttl \in Nat
    BY <1>13 DEF LogoutBlacklist, LogoutBlacklistFails, KeysOK, TypeOK, Job
  <2>2. [job[r] EXCEPT !.ttl = 0] \in Job
    BY DEF TypeOK, Job
  <2>3. blacklist' \in [Token -> Nat] /\ ended' \subseteq Token
    BY <1>13, <2>1 DEF LogoutBlacklist, LogoutBlacklistFails, TypeOK
  <2> QED
    BY <1>13, <2>2, <2>3, BoundAssumption DEF LogoutBlacklist, LogoutBlacklistFails, TypeOK
<1>14. ASSUME NEW r \in Req, LogoutRevoke(r) PROVE TypeOK'
  <2>1. RowsOf(job[r].user) \subseteq Token
    BY DEF RowsOf
  <2> DEFINE alone == \A q \in Req : ~Issuing(q, job[r].user)
  <2>2. [job[r] EXCEPT !.todo = RowsOf(job[r].user), !.done = {}, !.alone = alone] \in Job
    BY <2>1 DEF TypeOK, Job
  <2> QED
    BY <1>14, <2>2 DEF LogoutRevoke, TypeOK
<1>15. ASSUME NEW r \in Req, NEW t \in Token, LogoutLock(r, t) PROVE TypeOK'
  BY <1>15 DEF LogoutLock, TypeOK, Job
<1>16. ASSUME NEW r \in Req, LogoutCommit(r) PROVE TypeOK'
  BY <1>16 DEF LogoutCommit, TypeOK
<1>17. ASSUME NEW r \in Req, Lose(r) \/ BreakDeadlock(r) PROVE TypeOK'
  BY <1>17, BoundAssumption DEF Lose, BreakDeadlock, TypeOK
<1>18. CASE Tick
  BY <1>18, BoundAssumption DEF Tick, TypeOK
<1>19. CASE UNCHANGED vars
  BY <1>19 DEF vars, TypeOK
<1> QED
  BY <1>1, <1>2, <1>3, <1>4, <1>5, <1>6, <1>7, <1>8, <1>9, <1>10, <1>11,
     <1>12, <1>13, <1>14, <1>15, <1>16, <1>17, <1>18, <1>19, Zenon DEF Next

-----------------------------------------------------------------------------
(* A request that is idle remembers nothing.                                *)

LEMMA IdleFrame ==
    ASSUME IdleOK,
           \A q \in Req : pc'[q] = "idle" =>
              \/ pc[q] = "idle" /\ job'[q] = job[q]
              \/ job'[q] = NoJob
    PROVE  IdleOK'
BY DEF IdleOK

LEMMA IdleInv == AInv /\ [Next]_vars => IdleOK'
<1> SUFFICES ASSUME AInv, [Next]_vars PROVE IdleOK'
  OBVIOUS
<1> USE IdleFrame DEF AInv, TypeOK, Go, End
<1>1. ASSUME NEW r \in Req,
             \/ \E e \in Email : RegisterExists(r, e)
             \/ \E u \in User : RegisterInsert(r, u)
             \/ RegisterRefused(r) \/ RegisterCommit(r)
      PROVE  IdleOK'
  BY <1>1 DEF RegisterExists, RegisterInsert, RegisterRefused, RegisterCommit
<1>2. ASSUME NEW r \in Req,
             \/ \E u \in User : LoginFind(r, u)
             \/ \E t \in Token : RefreshFind(r, t)
      PROVE  IdleOK'
  BY <1>2 DEF LoginFind, RefreshFind, BeginIssue
<1>3. ASSUME NEW r \in Req,
             \/ \E t \in Token : LoginInsert(r, t) \/ RefreshInsert(r, t)
             \/ LoginCommit(r) \/ RefreshRevoke(r) \/ RefreshCommit(r)
      PROVE  IdleOK'
  BY <1>3 DEF LoginInsert, LoginCommit, RefreshRevoke, RefreshInsert, RefreshCommit
<1>4. ASSUME NEW r \in Req,
             \/ \E t \in Token : LogoutDecode(r, t) \/ LogoutLock(r, t)
             \/ LogoutBlacklist(r) \/ LogoutBlacklistFails(r)
             \/ LogoutRevoke(r) \/ LogoutCommit(r)
      PROVE  IdleOK'
  BY <1>4 DEF LogoutDecode, LogoutBlacklist, LogoutBlacklistFails,
              LogoutRevoke, LogoutLock, LogoutCommit
<1>5. ASSUME NEW r \in Req, Lose(r) \/ BreakDeadlock(r) PROVE IdleOK'
  BY <1>5 DEF Lose, BreakDeadlock
<1>6. CASE Tick
  BY <1>6 DEF Tick
<1>7. CASE UNCHANGED vars
  BY <1>7 DEF vars
<1> QED
  BY <1>1, <1>2, <1>3, <1>4, <1>5, <1>6, <1>7, Zenon DEF Next

-----------------------------------------------------------------------------
(* Accounts.                                                                *)

LEMMA AccountsFrame ==
    ASSUME AInv, accounts' = accounts,
           \A q \in Req : pc'[q] \in {"register.insert", "register.commit"} =>
              /\ pc'[q] = pc[q]
              /\ job'[q].email = job[q].email /\ job'[q].user = job[q].user
    PROVE  AccountsOK'
BY DEF AInv, AccountsOK, OneAccountPerEmail, Registering, Registered

LEMMA AccountsInv == AInv /\ [Next]_vars => AccountsOK'
<1> SUFFICES ASSUME AInv, [Next]_vars PROVE AccountsOK'
  OBVIOUS
<1> USE DEF Go, End
<1>0. /\ pc \in [Req -> Labels] /\ job \in [Req -> Job]
      /\ accounts \in [User -> Email \cup {None}] /\ None \notin Email
  BY NoneAssumption DEF AInv, TypeOK
<1>1. ASSUME NEW r \in Req, NEW e \in Email, RegisterExists(r, e) PROVE AccountsOK'
  <2>1. pc'[r] = "register.insert" /\ job'[r].email = e
    BY <1>0, <1>1 DEF RegisterExists, Job
  <2>2. \A q \in Req \ {r} : pc'[q] = pc[q] /\ job'[q] = job[q]
    BY <1>0, <1>1 DEF RegisterExists
  <2>3. accounts' = accounts
    BY <1>1 DEF RegisterExists
  <2> QED
    BY <2>1, <2>2, <2>3 DEF AInv, AccountsOK, OneAccountPerEmail, Registering, Registered
<1>2. ASSUME NEW r \in Req, NEW u \in User, RegisterInsert(r, u) PROVE AccountsOK'
  <2>1. /\ pc[r] = "register.insert" /\ pc'[r] = "register.commit"
        /\ job'[r].email = job[r].email /\ job'[r].user = u
    BY <1>0, <1>2 DEF RegisterInsert, Job
  <2>2. \A q \in Req \ {r} : pc'[q] = pc[q] /\ job'[q] = job[q]
    BY <1>0, <1>2 DEF RegisterInsert
  <2>3. /\ accounts' = accounts /\ accounts[u] = None /\ ~Registered(job[r].email)
        /\ \A q \in Req \ {r} : /\ job[q].user # u
                                /\ pc[q] = "register.commit" => job[q].email # job[r].email
    BY <1>2 DEF RegisterInsert, KeyLock
  <2>4. OneAccountPerEmail'
    BY <2>3 DEF AInv, AccountsOK, OneAccountPerEmail
  <2>5. Registering(r)'
    <3>1. job[r].email \in Email
      BY <2>1 DEF AInv, AccountsOK, Registering
    <3>2. job'[r].user \in User /\ accounts'[job'[r].user] = None
      BY <2>1, <2>3
    <3>3. ~Registered(job[r].email)'
      BY <2>1, <2>3 DEF Registered
    <3>4. \A q \in Req \ {r} : pc'[q] = "register.commit" =>
             job'[r].email # job'[q].email /\ job'[r].user # job'[q].user
      BY <2>1, <2>2, <2>3
    <3> QED
      BY <2>1, <3>1, <3>2, <3>3, <3>4 DEF Registering
  <2>6. ASSUME NEW q \in Req \ {r} PROVE Registering(q)'
    <3>1. Registering(q)
      BY DEF AInv, AccountsOK
    <3>2. pc'[q] = pc[q] /\ job'[q] = job[q]
      BY <2>2
    <3>3. pc[q] = "register.commit" => ~Registered(job[q].email)'
      BY <2>3, <3>1, <3>2 DEF Registering, Registered
    <3>4. ASSUME NEW p \in Req \ {q}, pc[q] = "register.commit", pc'[p] = "register.commit"
          PROVE  job'[q].email # job'[p].email /\ job'[q].user # job'[p].user
      <4>1. CASE p = r
        BY <2>1, <2>3, <3>2, <3>4, <4>1
      <4>2. CASE p # r
        BY <2>2, <3>1, <3>2, <3>4, <4>2 DEF Registering
      <4> QED
        BY <4>1, <4>2
    <3> QED
      BY <2>3, <3>1, <3>2, <3>3, <3>4 DEF Registering
  <2> QED
    BY <2>4, <2>5, <2>6 DEF AccountsOK
<1>3. ASSUME NEW r \in Req, RegisterCommit(r) PROVE AccountsOK'
  <2>1. \A q \in Req \ {r} : pc'[q] = pc[q] /\ job'[q] = job[q]
    BY <1>0, <1>3 DEF RegisterCommit
  <2>2. pc[r] = "register.commit" /\ pc'[r] = "idle"
    BY <1>0, <1>3 DEF RegisterCommit
  <2>3. /\ job[r].user \in User /\ job[r].email \in Email
        /\ accounts' = [accounts EXCEPT ![job[r].user] = job[r].email]
        /\ ~Registered(job[r].email)
    BY <1>3 DEF RegisterCommit, AInv, AccountsOK, Registering
  <2>4. OneAccountPerEmail'
    BY <1>0, <2>3 DEF AInv, AccountsOK, OneAccountPerEmail, Registered
  <2>5. ASSUME NEW q \in Req \ {r}, pc[q] = "register.commit"
        PROVE  accounts'[job[q].user] = None /\ ~Registered(job[q].email)'
    BY <1>0, <2>1, <2>2, <2>3, <2>5 DEF AInv, AccountsOK, Registering, Registered
  <2> QED
    BY <2>1, <2>2, <2>4, <2>5 DEF AInv, AccountsOK, Registering
<1>4. ASSUME NEW r \in Req,
             \/ RegisterRefused(r) \/ Lose(r) \/ BreakDeadlock(r) \/ LogoutCommit(r)
      PROVE  AccountsOK'
  BY <1>0, <1>4, AccountsFrame
     DEF RegisterRefused, Lose, BreakDeadlock, LogoutCommit
<1>5. ASSUME NEW r \in Req,
             \/ \E u \in User : LoginFind(r, u)
             \/ \E t \in Token : RefreshFind(r, t)
      PROVE  AccountsOK'
  BY <1>0, <1>5, AccountsFrame DEF LoginFind, RefreshFind, BeginIssue, Job
<1>6. ASSUME NEW r \in Req,
             \/ \E t \in Token : LoginInsert(r, t) \/ RefreshInsert(r, t)
             \/ LoginCommit(r) \/ RefreshRevoke(r) \/ RefreshCommit(r)
      PROVE  AccountsOK'
  BY <1>0, <1>6, AccountsFrame
     DEF LoginInsert, LoginCommit, RefreshRevoke, RefreshInsert, RefreshCommit
<1>7. ASSUME NEW r \in Req,
             \/ \E t \in Token : LogoutDecode(r, t) \/ LogoutLock(r, t)
             \/ LogoutBlacklist(r) \/ LogoutBlacklistFails(r) \/ LogoutRevoke(r)
      PROVE  AccountsOK'
  BY <1>0, <1>7, AccountsFrame
     DEF LogoutDecode, LogoutBlacklist, LogoutBlacklistFails, LogoutRevoke, LogoutLock
<1>8. CASE Tick
  BY <1>8, AccountsFrame DEF Tick
<1>9. CASE UNCHANGED vars
  BY <1>9, AccountsFrame DEF vars
<1> QED
  BY <1>1, <1>2, <1>3, <1>4, <1>5, <1>6, <1>7, <1>8, <1>9, Zenon DEF Next
-----------------------------------------------------------------------------
(* Names.                                                                   *)

\* What a request has found and made stays true while nobody makes a token or
\* commits one.
LEMMA NamesFrame ==
    ASSUME AInv, pairs' = pairs, tokens' = tokens,
           \A q \in Req :
              pc'[q] \in {"login.insert", "login.commit", "refresh.revoke",
                         "refresh.insert", "refresh.commit"} =>
              /\ \/ pc'[q] = pc[q]
                 \/ pc[q] = "refresh.revoke" /\ pc'[q] = "refresh.insert"
              /\ job'[q] = job[q]
    PROVE  NamesOK'
<1>1. ASSUME NEW q \in Req PROVE Made(q)'
  <2>1. Made(q)
    BY DEF AInv, NamesOK
  <2> QED
    BY <2>1 DEF Made, Making, Refreshing
<1> QED
  BY <1>1 DEF AInv, NamesOK

\* A new name: nobody has used it, and what was known of others stays.
LEMMA MakeFacts ==
    ASSUME AInv, NEW t \in Token, NEW u \in User, NEW root \in Token,
           Make(t, u, root), tokens' = tokens
    PROVE  /\ tokens[t] = "none" /\ pairs'[t] # None
           /\ pairs'[t].user = u /\ pairs'[t].root = root
           /\ \A s \in Token \ {t} : pairs'[s] = pairs[s]
           /\ \A q \in Req : Making(q) => job[q].new # t
           /\ \A q \in Req : Refreshing(q) => job[q].token # t
           /\ \A s \in Token : pairs[s] # None => pairs[s].root # t
<1>1. pairs \in [Token -> Pair \cup {None}] /\ pairs' \in [Token -> Pair \cup {None}]
  BY MakeType DEF AInv, TypeOK
<1>2. pairs[t] = None /\ pairs'[t] = [user |-> u, root |-> root,
         exp |-> WholeSeconds(now + AccessLife), expires |-> now + RefreshLife]
  BY <1>1 DEF Make
<1>3. pairs'[t] # None
  BY <1>1, <1>2, MakeType, NoneAssumption DEF AInv
<1> QED
  BY <1>1, <1>2, <1>3 DEF AInv, NamesOK, Made, Make
LEMMA NamesInv == AInv /\ [Next]_vars => NamesOK'
<1> SUFFICES ASSUME AInv, [Next]_vars PROVE NamesOK'
  OBVIOUS
<1> USE DEF Go, End
<1>0. /\ pc \in [Req -> Labels] /\ job \in [Req -> Job] /\ NamesOK
      /\ pairs \in [Token -> Pair \cup {None}] /\ None \notin Pair
      /\ tokens \in [Token -> {"none", "live", "revoked"}]
  BY NoneAssumption DEF AInv, TypeOK
<1>1. ASSUME NEW r \in Req,
             \/ \E e \in Email : RegisterExists(r, e)
             \/ \E u \in User : RegisterInsert(r, u)
             \/ RegisterRefused(r) \/ RegisterCommit(r)
             \/ Lose(r) \/ BreakDeadlock(r)
      PROVE  NamesOK'
  BY <1>0, <1>1, NamesFrame
     DEF RegisterExists, RegisterInsert, RegisterRefused, RegisterCommit, Lose,
         BreakDeadlock
<1>2. ASSUME NEW r \in Req,
             \/ \E t \in Token : LogoutDecode(r, t) \/ LogoutLock(r, t)
             \/ LogoutBlacklist(r) \/ LogoutBlacklistFails(r) \/ LogoutRevoke(r)
             \/ RefreshRevoke(r)
      PROVE  NamesOK'
  BY <1>0, <1>2, NamesFrame
     DEF LogoutDecode, LogoutLock, LogoutBlacklist, LogoutBlacklistFails,
         LogoutRevoke, RefreshRevoke
<1>3. ASSUME NEW r \in Req, NEW u \in User, LoginFind(r, u) PROVE NamesOK'
  <2>1. /\ pairs' = pairs /\ tokens' = tokens
        /\ pc'[r] = "login.insert" /\ job'[r].user = u
    BY <1>0, <1>3 DEF LoginFind, BeginIssue, NoJob
  <2>2. \A q \in Req \ {r} : /\ pc'[q] = pc[q]
                             /\ pc[q] # "logout.rows" => job'[q] = job[q]
    BY <1>0, <1>3 DEF LoginFind, BeginIssue
  <2>3. ASSUME NEW q \in Req PROVE Made(q)'
    BY <1>0, <2>1, <2>2 DEF NamesOK, Made, Making, Refreshing
  <2> QED
    BY <1>0, <2>1, <2>3 DEF NamesOK
<1>4. ASSUME NEW r \in Req, NEW t \in Token, RefreshFind(r, t) PROVE NamesOK'
  <2>1. /\ pairs' = pairs /\ tokens' = tokens /\ tokens[t] # "none"
        /\ pc'[r] = "refresh.revoke" /\ job'[r].token = t
        /\ job'[r].user = pairs[t].user
    BY <1>0, <1>4 DEF RefreshFind, BeginIssue, NoJob, Refreshable
  <2>2. \A q \in Req \ {r} : /\ pc'[q] = pc[q]
                             /\ pc[q] # "logout.rows" => job'[q] = job[q]
    BY <1>0, <1>4 DEF RefreshFind, BeginIssue
  <2>3. ASSUME NEW q \in Req PROVE Made(q)'
    BY <1>0, <2>1, <2>2 DEF NamesOK, Made, Making, Refreshing
  <2> QED
    BY <1>0, <2>1, <2>3 DEF NamesOK
<1>5. ASSUME NEW r \in Req, NEW t \in Token, LoginInsert(r, t) PROVE NamesOK'
  <2>1. /\ pc[r] = "login.insert" /\ pc'[r] = "login.commit"
        /\ job'[r].new = t /\ job'[r].user = job[r].user /\ job[r].user \in User
        /\ tokens' = tokens
        /\ \A q \in Req \ {r} : pc'[q] = pc[q] /\ job'[q] = job[q]
    BY <1>0, <1>5 DEF LoginInsert, NamesOK, Made, Job
  <2>2. /\ tokens[t] = "none" /\ pairs'[t] # None
        /\ pairs'[t].user = job[r].user /\ pairs'[t].root = t
        /\ \A s \in Token \ {t} : pairs'[s] = pairs[s]
        /\ \A q \in Req : Making(q) => job[q].new # t
        /\ \A q \in Req : Refreshing(q) => job[q].token # t
        /\ \A s \in Token : pairs[s] # None => pairs[s].root # t
    BY <1>5, <2>1, MakeFacts DEF LoginInsert
  <2>3. Made(r)'
    BY <1>0, <2>1, <2>2 DEF Made, Making, Refreshing
  <2>4. ASSUME NEW q \in Req \ {r} PROVE Made(q)'
    <3>1. Made(q)
      BY <1>0 DEF NamesOK
    <3> QED
      BY <1>0, <2>1, <2>2, <3>1 DEF Made, Making, Refreshing
  <2>5. \A s \in Token : pairs'[s] # None => pairs'[pairs'[s].root] # None
    BY <1>0, <2>2 DEF NamesOK, Pair
  <2> QED
    BY <1>0, <2>1, <2>2, <2>3, <2>4, <2>5 DEF NamesOK
<1>6. ASSUME NEW r \in Req, LoginCommit(r) PROVE NamesOK'
  <2>1. /\ pc[r] = "login.commit" /\ pc'[r] = "idle" /\ pairs' = pairs
        /\ tokens' = [tokens EXCEPT ![job[r].new] = "live"]
        /\ \A q \in Req \ {r} : pc'[q] = pc[q] /\ job'[q] = job[q]
        /\ job[r].new \in Token /\ pairs[job[r].new] # None
        /\ \A q \in Req \ {r} : Making(q) => job[r].new # job[q].new
    BY <1>0, <1>6 DEF LoginCommit, NamesOK, Made, Making
  <2>2. ASSUME NEW q \in Req PROVE Made(q)'
    <3>1. Made(q)
      BY <1>0 DEF NamesOK
    <3> QED
      BY <1>0, <2>1, <3>1 DEF Made, Making, Refreshing
  <2> QED
    BY <1>0, <2>1, <2>2 DEF NamesOK
<1>7. ASSUME NEW r \in Req, NEW t \in Token, RefreshInsert(r, t) PROVE NamesOK'
  <2> DEFINE old == job[r].token
  <2>1. /\ pc[r] = "refresh.insert" /\ pc'[r] = "refresh.commit"
        /\ job'[r].new = t /\ job'[r].user = job[r].user
        /\ job'[r].token = old /\ tokens' = tokens
        /\ \A q \in Req \ {r} : pc'[q] = pc[q] /\ job'[q] = job[q]
    BY <1>0, <1>7 DEF RefreshInsert, Job
  <2>2. /\ old \in Token /\ tokens[old] # "none" /\ pairs[old] \in Pair
        /\ job[r].user = pairs[old].user
    BY <1>0, <2>1 DEF NamesOK, Made, Refreshing
  <2>3. /\ tokens[t] = "none" /\ pairs'[t] # None
        /\ pairs'[t].user = job[r].user /\ pairs'[t].root = pairs[old].root
        /\ \A s \in Token \ {t} : pairs'[s] = pairs[s]
        /\ \A q \in Req : Making(q) => job[q].new # t
        /\ \A q \in Req : Refreshing(q) => job[q].token # t
        /\ \A s \in Token : pairs[s] # None => pairs[s].root # t
    BY <1>7, <2>1, <2>2, MakeFacts DEF RefreshInsert, Pair
  <2>4. Made(r)'
    BY <1>0, <2>1, <2>2, <2>3 DEF Made, Making, Refreshing
  <2>5. ASSUME NEW q \in Req \ {r} PROVE Made(q)'
    <3>1. Made(q)
      BY <1>0 DEF NamesOK
    <3>2. pc[q] = "login.commit" => pairs[old].root # job[q].new
      BY <2>2, <3>1, <1>0 DEF Made, Making
    <3> QED
      BY <1>0, <2>1, <2>3, <3>1, <3>2 DEF Made, Making, Refreshing
  <2>6. \A s \in Token : pairs'[s] # None => pairs'[pairs'[s].root] # None
    BY <1>0, <2>2, <2>3 DEF NamesOK, Pair
  <2> QED
    BY <1>0, <2>1, <2>3, <2>4, <2>5, <2>6 DEF NamesOK
<1>8. ASSUME NEW r \in Req, RefreshCommit(r) PROVE NamesOK'
  <2>1. /\ pc[r] = "refresh.commit" /\ pc'[r] = "idle" /\ pairs' = pairs
        /\ tokens' = [tokens EXCEPT ![job[r].token] = "revoked", ![job[r].new] = "live"]
        /\ \A q \in Req \ {r} : pc'[q] = pc[q] /\ job'[q] = job[q]
    BY <1>0, <1>8 DEF RefreshCommit
  <2>2. /\ job[r].new \in Token /\ pairs[job[r].new] # None
        /\ job[r].token \in Token /\ tokens[job[r].token] # "none"
        /\ \A q \in Req \ {r} : Making(q) => job[r].new # job[q].new
    BY <1>0, <2>1 DEF NamesOK, Made, Making, Refreshing
  <2>3. ASSUME NEW q \in Req PROVE Made(q)'
    <3>1. Made(q)
      BY <1>0 DEF NamesOK
    <3> QED
      BY <1>0, <2>1, <2>2, <3>1 DEF Made, Making, Refreshing
  <2> QED
    BY <1>0, <2>1, <2>2, <2>3 DEF NamesOK
<1>9. ASSUME NEW r \in Req, LogoutCommit(r) PROVE NamesOK'
  <2>1. /\ pc[r] = "logout.rows" /\ pc'[r] = "idle" /\ pairs' = pairs
        /\ tokens' = [t \in Token |-> IF t \in job[r].done THEN "revoked" ELSE tokens[t]]
        /\ \A q \in Req \ {r} : pc'[q] = pc[q] /\ job'[q] = job[q]
    BY <1>0, <1>9 DEF LogoutCommit
  <2>2. \A t \in Token : tokens'[t] = "none" <=> tokens[t] = "none"
    BY <2>1 DEF AInv, LogoutOK, LoggingOut, RowsOf
  <2>3. ASSUME NEW q \in Req PROVE Made(q)'
    <3>1. Made(q)
      BY <1>0 DEF NamesOK
    <3> QED
      BY <1>0, <2>1, <2>2, <3>1 DEF Made, Making, Refreshing
  <2> QED
    BY <1>0, <2>1, <2>2, <2>3 DEF NamesOK
<1>10. CASE Tick
  <2>1. pairs' = pairs /\ tokens' = tokens /\ pc' = pc /\ job' = job
    BY <1>10 DEF Tick
  <2> QED
    BY <2>1, NamesFrame
<1>11. CASE UNCHANGED vars
  <2>1. pairs' = pairs /\ tokens' = tokens /\ pc' = pc /\ job' = job
    BY <1>11 DEF vars
  <2> QED
    BY <2>1, NamesFrame
<1> QED
  BY <1>1, <1>2, <1>3, <1>4, <1>5, <1>6, <1>7, <1>8, <1>9, <1>10, <1>11, Zenon DEF Next
-----------------------------------------------------------------------------
(* Rotation.                                                                *)

\* What a step leaves of rotation when it makes no token live.
LEMMA RotationFrame ==
    ASSUME AInv, raced' = raced,
           \A t \in Token : /\ tokens'[t] = "live" => tokens[t] = "live"
                            /\ tokens[t] # "none" => pairs'[t] = pairs[t],
           \A q \in Req : Refreshing(q)' =>
              Refreshing(q) /\ job'[q].token = job[q].token
    PROVE  RotationOK'
<1>1. \A q \in Req : Refreshing(q)' => RootOf(q)' = RootOf(q)
  BY DEF AInv, NamesOK, Made, RootOf
<1>2. OneLivePerLogin'
  BY DEF AInv, RotationOK, OneLivePerLogin
<1>3. ASSUME NEW q \in Req PROVE Rotating(q)'
  <2>1. Rotating(q)
    BY DEF AInv, RotationOK
  <2> QED
    BY <1>1, <2>1 DEF Rotating
<1> QED
  BY <1>2, <1>3 DEF RotationOK

LEMMA RotationInv == AInv /\ [Next]_vars => RotationOK'
<1> SUFFICES ASSUME AInv, [Next]_vars PROVE RotationOK'
  OBVIOUS
<1> USE DEF Go, End
<1>0. /\ pc \in [Req -> Labels] /\ job \in [Req -> Job]
      /\ pairs \in [Token -> Pair \cup {None}] /\ None \notin Pair
      /\ tokens \in [Token -> {"none", "live", "revoked"}]
      /\ NamesOK /\ RotationOK
  BY NoneAssumption DEF AInv, TypeOK
<1>1. ASSUME NEW r \in Req,
             \/ \E e \in Email : RegisterExists(r, e)
             \/ \E u \in User : RegisterInsert(r, u)
             \/ RegisterRefused(r) \/ RegisterCommit(r)
             \/ Lose(r) \/ BreakDeadlock(r)
      PROVE  RotationOK'
  BY <1>0, <1>1, RotationFrame
     DEF RegisterExists, RegisterInsert, RegisterRefused, RegisterCommit, Lose,
         BreakDeadlock, Refreshing
<1>2. ASSUME NEW r \in Req,
             \/ \E t \in Token : LogoutDecode(r, t) \/ LogoutLock(r, t)
             \/ LogoutBlacklist(r) \/ LogoutBlacklistFails(r) \/ LogoutRevoke(r)
             \/ LogoutCommit(r) \/ RefreshRevoke(r)
      PROVE  RotationOK'
  BY <1>0, <1>2, RotationFrame
     DEF LogoutDecode, LogoutLock, LogoutBlacklist, LogoutBlacklistFails,
         LogoutRevoke, LogoutCommit, RefreshRevoke, Refreshing
<1>3. ASSUME NEW r \in Req, NEW u \in User, LoginFind(r, u) PROVE RotationOK'
  BY <1>0, <1>3, RotationFrame DEF LoginFind, BeginIssue, Refreshing
<1>4. ASSUME NEW r \in Req, NEW t \in Token, RefreshFind(r, t) PROVE RotationOK'
  <2> DEFINE root == pairs[t].root
  <2>1. /\ pairs' = pairs /\ tokens' = tokens /\ tokens[t] = "live"
        /\ pc'[r] = "refresh.revoke" /\ job'[r].token = t /\ pc[r] = "idle"
    BY <1>0, <1>4 DEF RefreshFind, BeginIssue, NoJob, Refreshable
  <2>2. \A q \in Req \ {r} : /\ pc'[q] = pc[q]
                             /\ Refreshing(q) => job'[q] = job[q]
    BY <1>0, <1>4 DEF RefreshFind, BeginIssue, Refreshing
  <2>3. /\ raced \subseteq raced'
        /\ \A q \in Req : Refreshing(q) /\ job[q].token = t => root \in raced'
    BY <1>4 DEF RefreshFind
  <2>4. OneLivePerLogin'
    BY <1>0, <2>1, <2>3 DEF RotationOK, OneLivePerLogin
  <2>5. \A q \in Req \ {r} : Refreshing(q) /\ root \notin raced' => RootOf(q) # root
    BY <1>0, <2>1, <2>3 DEF RotationOK, Rotating
  <2>6. \A q \in Req \ {r} : /\ Refreshing(q)' <=> Refreshing(q)
                             /\ Refreshing(q) => RootOf(q)' = RootOf(q)
    BY <2>1, <2>2 DEF Refreshing, RootOf
  <2>7. Refreshing(r)' /\ RootOf(r)' = root
    BY <2>1 DEF Refreshing, RootOf
  <2>8. Rotating(r)'
    BY <1>0, <2>1, <2>3, <2>5, <2>6, <2>7 DEF RotationOK, OneLivePerLogin, Rotating
  <2>9. ASSUME NEW q \in Req \ {r} PROVE Rotating(q)'
    <3>1. Rotating(q)
      BY <1>0 DEF RotationOK
    <3> QED
      BY <2>1, <2>2, <2>3, <2>5, <2>6, <2>7, <3>1 DEF Rotating
  <2> QED
    BY <2>4, <2>8, <2>9 DEF RotationOK
<1>5. ASSUME NEW r \in Req, NEW t \in Token, LoginInsert(r, t) \/ RefreshInsert(r, t)
      PROVE  RotationOK'
  <2>1. /\ raced' = raced /\ tokens' = tokens
        /\ \A s \in Token : tokens[s] # "none" => pairs'[s] = pairs[s]
    BY <1>0, <1>5 DEF LoginInsert, RefreshInsert, Make, NamesOK
  <2>2. \A q \in Req : Refreshing(q)' =>
           Refreshing(q) /\ job'[q].token = job[q].token
    BY <1>0, <1>5 DEF LoginInsert, RefreshInsert, Refreshing, Job
  <2> QED
    BY <2>1, <2>2, RotationFrame
<1>6. ASSUME NEW r \in Req, LoginCommit(r) PROVE RotationOK'
  <2> DEFINE new == job[r].new
  <2>1. /\ pc[r] = "login.commit" /\ pc'[r] = "idle" /\ pairs' = pairs
        /\ tokens' = [tokens EXCEPT ![new] = "live"] /\ raced' = raced
        /\ \A q \in Req \ {r} : pc'[q] = pc[q] /\ job'[q] = job[q]
    BY <1>0, <1>6 DEF LoginCommit
  <2>2. /\ new \in Token /\ tokens[new] = "none" /\ pairs[new] # None
        /\ \A t \in Token : pairs[t] # None =>
              (pairs[t].root = pairs[new].root <=> t = new)
    BY <1>0, <2>1 DEF NamesOK, Made, Making
  <2>3. OneLivePerLogin'
    BY <1>0, <2>1, <2>2 DEF RotationOK, OneLivePerLogin, NamesOK
  <2>4. ASSUME NEW q \in Req PROVE Rotating(q)'
    <3>1. Rotating(q)
      BY <1>0 DEF RotationOK
    <3>2. Refreshing(q)' => /\ Refreshing(q) /\ RootOf(q)' = RootOf(q)
                           /\ RootOf(q) # pairs[new].root
                           /\ job'[q] = job[q]
      BY <1>0, <2>1, <2>2 DEF Refreshing, RootOf, NamesOK, Made
    <3>3. \A p \in Req : Refreshing(p)' => Refreshing(p) /\ RootOf(p)' = RootOf(p)
      BY <2>1 DEF Refreshing, RootOf
    <3> QED
      BY <1>0, <2>1, <2>2, <3>1, <3>2, <3>3 DEF Rotating
  <2> QED
    BY <2>3, <2>4 DEF RotationOK
<1>7. ASSUME NEW r \in Req, RefreshCommit(r) PROVE RotationOK'
  <2> DEFINE new == job[r].new
             old == job[r].token
  <2>1. /\ pc[r] = "refresh.commit" /\ pc'[r] = "idle" /\ pairs' = pairs
        /\ tokens' = [tokens EXCEPT ![old] = "revoked", ![new] = "live"]
        /\ raced' = raced /\ Refreshing(r)
        /\ \A q \in Req \ {r} : pc'[q] = pc[q] /\ job'[q] = job[q]
    BY <1>0, <1>7 DEF RefreshCommit, Refreshing
  <2>2. /\ new \in Token /\ tokens[new] = "none" /\ old \in Token
        /\ tokens[old] # "none" /\ RootOf(r) = pairs[old].root
        /\ pairs[new].root = pairs[old].root
    BY <1>0, <2>1 DEF NamesOK, Made, Making, RootOf
  <2>3. pairs[old].root \notin raced =>
           /\ \A t \in Token : tokens[t] = "live" /\ pairs[t].root = pairs[old].root => t = old
           /\ \A q \in Req \ {r} : Refreshing(q) => RootOf(q) # pairs[old].root
    BY <1>0, <2>1, <2>2 DEF RotationOK, Rotating
  <2>4. \A t \in Token : tokens'[t] = "live" => t = new \/ (tokens[t] = "live" /\ t # old)
    BY <1>0, <2>1, <2>2
  <2>5. OneLivePerLogin'
    BY <1>0, <2>1, <2>2, <2>3, <2>4 DEF RotationOK, OneLivePerLogin
  <2>6. ASSUME NEW q \in Req PROVE Rotating(q)'
    <3>1. Rotating(q)
      BY <1>0 DEF RotationOK
    <3>2. \A p \in Req : Refreshing(p)' => /\ p # r /\ Refreshing(p)
                                          /\ RootOf(p)' = RootOf(p)
                                          /\ job'[p] = job[p]
      BY <2>1 DEF Refreshing, RootOf
    <3>3. SUFFICES ASSUME Refreshing(q)', RootOf(q) \notin raced
                   PROVE  /\ \A t \in Token : tokens'[t] = "live" /\ pairs[t].root = RootOf(q)
                                              => t = job[q].token
                          /\ \A p \in Req \ {q} : Refreshing(p)' => RootOf(p) # RootOf(q)
      BY <2>1, <3>2 DEF Rotating
    <3>4. RootOf(q) # pairs[old].root
      BY <2>3, <3>2, <3>3
    <3> QED
      BY <2>2, <2>4, <3>1, <3>2, <3>3, <3>4 DEF Rotating
  <2> QED
    BY <2>5, <2>6 DEF RotationOK
<1>8. CASE Tick
  <2>1. pairs' = pairs /\ tokens' = tokens /\ pc' = pc /\ job' = job /\ raced' = raced
    BY <1>8 DEF Tick
  <2> QED
    BY <2>1, RotationFrame DEF Refreshing
<1>9. CASE UNCHANGED vars
  <2>1. pairs' = pairs /\ tokens' = tokens /\ pc' = pc /\ job' = job /\ raced' = raced
    BY <1>9 DEF vars
  <2> QED
    BY <2>1, RotationFrame DEF Refreshing
<1> QED
  BY <1>1, <1>2, <1>3, <1>4, <1>5, <1>6, <1>7, <1>8, <1>9, Zenon DEF Next
-----------------------------------------------------------------------------
(* Logouts.                                                                 *)

\* What a logout that is revoking relies on, while nobody begins to issue a
\* token for its user or makes one of the user's live.
LEMMA LogoutFrame ==
    ASSUME AInv, NEW q \in Req,
           pc'[q] = "logout.rows" =>
              /\ pc[q] = "logout.rows" /\ job'[q].user = job[q].user
              /\ job'[q].todo \cup job'[q].done = job[q].todo \cup job[q].done
              /\ job'[q].alone => job[q].alone,
           \A t \in Token : tokens[t] # "none" => /\ pairs'[t] = pairs[t]
                                                 /\ tokens'[t] # "none",
           pc'[q] = "logout.rows" /\ job'[q].alone =>
              /\ \A p \in Req : Issuing(p, job[q].user)' => Issuing(p, job[q].user)
              /\ \A t \in Token : tokens'[t] = "live" =>
                    tokens[t] = "live" \/ pairs'[t].user # job[q].user
    PROVE  LoggingOut(q)'
<1> SUFFICES ASSUME pc'[q] = "logout.rows" PROVE LoggingOut(q)'
  BY DEF LoggingOut
<1> DEFINE u == job[q].user
           mine == job[q].todo \cup job[q].done
<1>1. /\ mine \subseteq RowsOf(u)
      /\ job[q].alone =>
            /\ \A p \in Req : ~Issuing(p, u)
            /\ \A t \in RowsOf(u) : tokens[t] = "live" => t \in mine
  BY DEF AInv, LogoutOK, LoggingOut
<1>2. mine \subseteq RowsOf(u)'
  BY <1>1 DEF RowsOf
<1>3. ASSUME job'[q].alone, NEW t \in Token, tokens'[t] = "live", pairs'[t].user = u
      PROVE  t \in mine
  BY <1>1, <1>3 DEF RowsOf
<1>4. job'[q].alone => \A p \in Req : ~Issuing(p, u)'
  BY <1>1
<1>5. RowsOf(u)' = {t \in Token : tokens'[t] # "none" /\ pairs'[t].user = u}
  BY DEF RowsOf
<1>6. job'[q].user = u /\ job'[q].todo \cup job'[q].done = mine
  OBVIOUS
<1> QED
  BY <1>2, <1>3, <1>4, <1>5, <1>6 DEF LoggingOut
\* The frame for a step of r that issues nothing.
LEMMA LogoutQuiet ==
    ASSUME AInv, NEW r \in Req, pairs' = pairs, tokens' = tokens,
           \A q \in Req \ {r} : pc'[q] = pc[q] /\ job'[q] = job[q],
           \/ pc'[r] \in {"idle", "register.insert", "register.commit",
                          "logout.blacklist", "logout.revoke"}
           \/ Refreshing(r) /\ Refreshing(r)' /\ job'[r] = job[r]
    PROVE  LogoutOK'
<1> SUFFICES ASSUME NEW q \in Req PROVE LoggingOut(q)'
  BY DEF LogoutOK
<1>1. \A p \in Req : Issuing(p, job[q].user)' /\ job'[q] = job[q]
         => Issuing(p, job[q].user)
  BY DEF Issuing, Refreshing
<1>2. pc'[q] = "logout.rows" => pc[q] = "logout.rows" /\ job'[q] = job[q]
  BY DEF Refreshing
<1> QED
  BY <1>1, <1>2, LogoutFrame

\* A token that is made is not a row yet.
LEMMA LogoutMake ==
    ASSUME AInv, NEW r \in Req, tokens' = tokens,
           \A t \in Token : tokens[t] # "none" => pairs'[t] = pairs[t],
           \A q \in Req \ {r} : pc'[q] = pc[q] /\ job'[q] = job[q],
           pc'[r] # "logout.rows", job'[r].user = job[r].user,
           pc[r] \in {"login.insert", "refresh.insert"}
    PROVE  LogoutOK'
<1> SUFFICES ASSUME NEW q \in Req PROVE LoggingOut(q)'
  BY DEF LogoutOK
<1>1. \A p \in Req : Issuing(p, job[q].user)' => Issuing(p, job[q].user)
  BY DEF Issuing, Refreshing
<1>2. pc'[q] = "logout.rows" => pc[q] = "logout.rows" /\ job'[q] = job[q]
  OBVIOUS
<1> QED
  BY <1>1, <1>2, LogoutFrame

\* A token becomes live: no logout of its user is alone meanwhile.
LEMMA LogoutIssued ==
    ASSUME AInv, NEW r \in Req, NEW new \in Token, pairs' = pairs,
           Issuing(r, pairs[new].user), pc'[r] = "idle",
           \A t \in Token : /\ tokens[t] # "none" => tokens'[t] # "none"
                            /\ tokens'[t] = "live" => t = new \/ tokens[t] = "live",
           \A q \in Req \ {r} : pc'[q] = pc[q] /\ job'[q] = job[q]
    PROVE  LogoutOK'
<1> SUFFICES ASSUME NEW q \in Req PROVE LoggingOut(q)'
  BY DEF LogoutOK
<1>1. \A p \in Req : Issuing(p, job[q].user)' /\ job'[q] = job[q]
         => Issuing(p, job[q].user)
  BY DEF Issuing, Refreshing
<1>2. pc'[q] = "logout.rows" =>
         /\ q # r /\ pc[q] = "logout.rows" /\ job'[q] = job[q]
         /\ job[q].alone => job[q].user # pairs[new].user
  BY DEF AInv, LogoutOK, LoggingOut
<1> QED
  BY <1>1, <1>2, LogoutFrame

\* r begins to issue a token for u: no logout of u is alone afterwards.
LEMMA LogoutBegin ==
    ASSUME AInv, NEW r \in Req, NEW u \in User, NEW j \in Job,
           pairs' = pairs, tokens' = tokens, j.user = u, pc'[r] # "logout.rows",
           \A q \in Req \ {r} : pc'[q] = pc[q],
           BeginIssue(r, u, j)
    PROVE  LogoutOK'
<1> SUFFICES ASSUME NEW q \in Req PROVE LoggingOut(q)'
  BY DEF LogoutOK
<1>0. job \in [Req -> Job]
  BY DEF AInv, TypeOK
<1>1. job'[r] = j
  BY DEF BeginIssue
<1>2. ASSUME pc'[q] = "logout.rows"
      PROVE  /\ pc[q] = "logout.rows" /\ q # r /\ job'[q].user = job[q].user
             /\ job'[q].todo = job[q].todo /\ job'[q].done = job[q].done
             /\ job'[q].alone => job[q].alone /\ job[q].user # u
  BY <1>0, <1>2 DEF BeginIssue, Job
<1>3. ASSUME NEW p \in Req, pc'[q] = "logout.rows", job'[q].alone,
             Issuing(p, job[q].user)'
      PROVE  Issuing(p, job[q].user)
  <2>1. p # r
    BY <1>1, <1>2, <1>3 DEF Issuing
  <2>2. pc'[p] = pc[p] /\ (pc[p] # "logout.rows" => job'[p] = job[p])
    BY <1>0, <2>1 DEF BeginIssue
  <2> QED
    BY <1>2, <1>3, <2>2 DEF Issuing, Refreshing
<1> QED
  BY <1>2, <1>3, LogoutFrame

LEMMA LogoutInv == AInv /\ [Next]_vars => LogoutOK'
<1> SUFFICES ASSUME AInv, [Next]_vars PROVE LogoutOK'
  OBVIOUS
<1> USE DEF Go, End
<1>0. /\ pc \in [Req -> Labels] /\ job \in [Req -> Job]
      /\ pairs \in [Token -> Pair \cup {None}] /\ None \notin Pair
      /\ tokens \in [Token -> {"none", "live", "revoked"}]
      /\ NamesOK /\ LogoutOK
  BY NoneAssumption DEF AInv, TypeOK
<1>1. ASSUME NEW r \in Req,
             \/ \E e \in Email : RegisterExists(r, e)
             \/ \E u \in User : RegisterInsert(r, u)
             \/ RegisterRefused(r) \/ RegisterCommit(r)
             \/ Lose(r) \/ BreakDeadlock(r)
      PROVE  LogoutOK'
  BY <1>0, <1>1, LogoutQuiet
     DEF RegisterExists, RegisterInsert, RegisterRefused, RegisterCommit,
         Lose, BreakDeadlock
<1>2. ASSUME NEW r \in Req,
             \/ \E t \in Token : LogoutDecode(r, t)
             \/ LogoutBlacklist(r) \/ LogoutBlacklistFails(r) \/ RefreshRevoke(r)
      PROVE  LogoutOK'
  BY <1>0, <1>2, LogoutQuiet
     DEF LogoutDecode, LogoutBlacklist, LogoutBlacklistFails, RefreshRevoke, Refreshing
<1>3. ASSUME NEW r \in Req, NEW u \in User, LoginFind(r, u) PROVE LogoutOK'
  <2>1. [NoJob EXCEPT !.user = u] \in Job /\ [NoJob EXCEPT !.user = u].user = u
    BY DEF NoJob, Job
  <2> QED
    BY <1>0, <1>3, <2>1, LogoutBegin DEF LoginFind
<1>4. ASSUME NEW r \in Req, NEW t \in Token, RefreshFind(r, t) PROVE LogoutOK'
  <2> DEFINE j == [NoJob EXCEPT !.user = pairs[t].user, !.token = t]
  <2>1. pairs[t].user \in User
    BY <1>0, <1>4 DEF RefreshFind, Refreshable, NamesOK, Pair
  <2>2. j \in Job /\ j.user = pairs[t].user
    BY <2>1 DEF NoJob, Job
  <2>3. /\ pairs' = pairs /\ tokens' = tokens /\ pc'[r] # "logout.rows"
        /\ \A q \in Req \ {r} : pc'[q] = pc[q]
        /\ BeginIssue(r, pairs[t].user, j)
    BY <1>0, <1>4 DEF RefreshFind
  <2> HIDE DEF j
  <2> QED
    BY <2>1, <2>2, <2>3, LogoutBegin
<1>5. ASSUME NEW r \in Req, NEW t \in Token, LoginInsert(r, t) \/ RefreshInsert(r, t)
      PROVE  LogoutOK'
  <2>1. \A s \in Token : tokens[s] # "none" => pairs'[s] = pairs[s]
    BY <1>0, <1>5 DEF LoginInsert, RefreshInsert, Make, NamesOK
  <2> QED
    BY <1>0, <1>5, <2>1, LogoutMake DEF LoginInsert, RefreshInsert, Job
<1>6. ASSUME NEW r \in Req, LoginCommit(r) \/ RefreshCommit(r) PROVE LogoutOK'
  <2>1. /\ job[r].new \in Token /\ Issuing(r, pairs[job[r].new].user)
        /\ pc[r] = "refresh.commit" => job[r].token \in Token /\ job[r].token # job[r].new
    BY <1>0, <1>6 DEF LoginCommit, RefreshCommit, NamesOK, Made, Making, Refreshing, Issuing
  <2>2. \A t \in Token : /\ tokens[t] # "none" => tokens'[t] # "none"
                         /\ tokens'[t] = "live" => t = job[r].new \/ tokens[t] = "live"
    BY <1>0, <1>6, <2>1 DEF LoginCommit, RefreshCommit
  <2> QED
    BY <1>0, <1>6, <2>1, <2>2, LogoutIssued DEF LoginCommit, RefreshCommit
<1>7. ASSUME NEW r \in Req, LogoutRevoke(r) PROVE LogoutOK'
  <2> DEFINE u == job[r].user
  <2>1. /\ pairs' = pairs /\ tokens' = tokens
        /\ pc[r] = "logout.revoke" /\ pc'[r] = "logout.rows" /\ job'[r].user = u
        /\ job'[r].todo = RowsOf(u)
        /\ job'[r].alone => \A q \in Req : ~Issuing(q, u)
        /\ \A q \in Req \ {r} : pc'[q] = pc[q] /\ job'[q] = job[q]
    BY <1>0, <1>7 DEF LogoutRevoke, Job
  <2>2. job'[r].done = {}
    BY <1>0, <1>7 DEF LogoutRevoke, Job
  <2>4. LoggingOut(r)'
    BY <2>1, <2>2 DEF LoggingOut, RowsOf, Issuing, Refreshing
  <2>5. ASSUME NEW q \in Req \ {r} PROVE LoggingOut(q)'
    <3>1. \A p \in Req : Issuing(p, job[q].user)' => Issuing(p, job[q].user)
      BY <2>1 DEF Issuing, Refreshing
    <3> QED
      BY <2>1, <3>1, LogoutFrame
  <2> QED
    BY <2>4, <2>5 DEF LogoutOK
<1>8. ASSUME NEW r \in Req, NEW t \in Token, LogoutLock(r, t) PROVE LogoutOK'
  <2>1. /\ pairs' = pairs /\ tokens' = tokens /\ pc' = pc
        /\ \A q \in Req : /\ job'[q].user = job[q].user
                          /\ job'[q].alone = job[q].alone
                          /\ job'[q].todo \cup job'[q].done = job[q].todo \cup job[q].done
    BY <1>0, <1>8 DEF LogoutLock, Job
  <2>2. ASSUME NEW q \in Req PROVE LoggingOut(q)'
    <3>1. \A p \in Req : Issuing(p, job[q].user)' => Issuing(p, job[q].user)
      BY <2>1 DEF Issuing, Refreshing
    <3> QED
      BY <2>1, <3>1, LogoutFrame
  <2> QED
    BY <2>2 DEF LogoutOK
<1>9. ASSUME NEW r \in Req, LogoutCommit(r) PROVE LogoutOK'
  <2>1. /\ pairs' = pairs /\ pc'[r] = "idle"
        /\ \A t \in Token : /\ tokens[t] # "none" => tokens'[t] # "none"
                            /\ tokens'[t] = "live" => tokens[t] = "live"
        /\ \A q \in Req \ {r} : pc'[q] = pc[q] /\ job'[q] = job[q]
    BY <1>0, <1>9 DEF LogoutCommit
  <2>2. ASSUME NEW q \in Req PROVE LoggingOut(q)'
    <3>1. \A p \in Req : Issuing(p, job[q].user)' /\ job'[q] = job[q]
             => Issuing(p, job[q].user)
      BY <2>1 DEF Issuing, Refreshing
    <3>2. pc'[q] = "logout.rows" => pc[q] = "logout.rows" /\ job'[q] = job[q]
      BY <2>1
    <3> QED
      BY <2>1, <3>1, <3>2, LogoutFrame
  <2> QED
    BY <2>2 DEF LogoutOK
<1>10. CASE Tick \/ UNCHANGED vars
  <2>1. pairs' = pairs /\ tokens' = tokens /\ pc' = pc /\ job' = job
    BY <1>10 DEF Tick, vars
  <2> QED
    BY <2>1 DEF AInv, LogoutOK, LoggingOut, RowsOf, Issuing, Refreshing
<1> QED
  BY <1>1, <1>2, <1>3, <1>4, <1>5, <1>6, <1>7, <1>8, <1>9, <1>10, Zenon DEF Next

-----------------------------------------------------------------------------
(* Keys.                                                                    *)

\* Time and new tokens take nothing from what the keys cover.
LEMMA KeysFrame ==
    ASSUME AInv, now' \in Nat, now <= now', blacklist' = blacklist, ended' = ended,
           \A t \in Token : pairs[t] # None => pairs'[t] = pairs[t],
           \A q \in Req : pc'[q] = "logout.blacklist" =>
              /\ pc[q] = "logout.blacklist" /\ job'[q].token = job[q].token
              /\ job'[q].ttl = job[q].ttl
    PROVE  KeysOK'
<1>1. \A t \in Token : pairs[t] # None => pairs[t].exp \in Nat
  BY DEF AInv, TypeOK, Pair
<1>2. now \in Nat /\ Second \in Nat /\ ended \subseteq Token
  BY SecondAssumption DEF AInv, TypeOK
<1>3. \A q \in Req : job[q].ttl \in Nat
  BY DEF AInv, TypeOK, Job
<1>4. ASSUME NEW t \in ended
      PROVE  /\ pairs'[t] # None
             /\ \/ pairs'[t].exp < blacklist'[t] + Second
                \/ pairs'[t].exp < now' + Second
  BY <1>1, <1>2 DEF AInv, KeysOK
<1>5. ASSUME NEW q \in Req, pc'[q] = "logout.blacklist"
      PROVE  /\ job'[q].token \in Token /\ pairs'[job'[q].token] # None
             /\ pairs'[job'[q].token].exp < now' + job'[q].ttl + Second
  BY <1>1, <1>2, <1>3, <1>5 DEF AInv, KeysOK
<1> QED
  BY <1>4, <1>5 DEF KeysOK

LEMMA KeysInv == AInv /\ [Next]_vars => KeysOK'
<1> SUFFICES ASSUME AInv, [Next]_vars PROVE KeysOK'
  OBVIOUS
<1> USE DEF Go, End
<1>0. /\ pc \in [Req -> Labels] /\ job \in [Req -> Job] /\ now \in Nat
      /\ blacklist \in [Token -> Nat] /\ ended \subseteq Token
      /\ pairs \in [Token -> Pair \cup {None}] /\ Second \in Nat \ {0}
  BY SecondAssumption DEF AInv, TypeOK
<1>1. ASSUME NEW r \in Req,
             \/ \E e \in Email : RegisterExists(r, e)
             \/ \E u \in User : RegisterInsert(r, u)
             \/ RegisterRefused(r) \/ RegisterCommit(r)
             \/ Lose(r) \/ BreakDeadlock(r)
      PROVE  KeysOK'
  BY <1>0, <1>1, KeysFrame
     DEF RegisterExists, RegisterInsert, RegisterRefused, RegisterCommit,
         Lose, BreakDeadlock
<1>2. ASSUME NEW r \in Req,
             \/ \E u \in User : LoginFind(r, u)
             \/ \E t \in Token : RefreshFind(r, t)
      PROVE  KeysOK'
  <2>1. /\ now' = now /\ pairs' = pairs /\ blacklist' = blacklist /\ ended' = ended
        /\ pc'[r] # "logout.blacklist"
        /\ \A q \in Req \ {r} : pc'[q] = pc[q]
    BY <1>0, <1>2 DEF LoginFind, RefreshFind
  <2>2. \A q \in Req \ {r} : pc[q] = "logout.blacklist" => job'[q] = job[q]
    BY <1>0, <1>2 DEF LoginFind, RefreshFind, BeginIssue
  <2> QED
    BY <1>0, <2>1, <2>2, KeysFrame
<1>3. ASSUME NEW r \in Req,
             \/ \E t \in Token : LoginInsert(r, t) \/ RefreshInsert(r, t)
             \/ LoginCommit(r) \/ RefreshRevoke(r) \/ RefreshCommit(r)
      PROVE  KeysOK'
  <2>1. \A t \in Token : pairs[t] # None => pairs'[t] = pairs[t]
    BY <1>0, <1>3 DEF LoginInsert, RefreshInsert, Make, LoginCommit, RefreshRevoke,
                      RefreshCommit
  <2> QED
    BY <1>0, <1>3, <2>1, KeysFrame
       DEF LoginInsert, LoginCommit, RefreshRevoke, RefreshInsert, RefreshCommit
<1>4. ASSUME NEW r \in Req,
             \/ \E t \in Token : LogoutLock(r, t)
             \/ LogoutBlacklistFails(r) \/ LogoutRevoke(r) \/ LogoutCommit(r)
      PROVE  KeysOK'
  <2>1. /\ now' = now /\ pairs' = pairs /\ blacklist' = blacklist /\ ended' = ended
        /\ pc'[r] # "logout.blacklist"
        /\ \A q \in Req \ {r} : pc'[q] = pc[q] /\ job'[q] = job[q]
    BY <1>0, <1>4 DEF LogoutLock, LogoutBlacklistFails, LogoutRevoke, LogoutCommit
  <2> QED
    BY <1>0, <2>1, KeysFrame
<1>5. ASSUME NEW r \in Req, NEW t \in Token, LogoutDecode(r, t) PROVE KeysOK'
  <2>1. /\ now' = now /\ pairs' = pairs /\ blacklist' = blacklist /\ ended' = ended
        /\ job'[r].token = t /\ job'[r].ttl = Ttl(t)
        /\ \A q \in Req \ {r} : pc'[q] = pc[q] /\ job'[q] = job[q]
    BY <1>0, <1>5 DEF LogoutDecode, Job
  <2>2. pairs[t] # None /\ pairs[t].exp - now \in Nat /\ pairs[t].exp \in Nat
    BY <1>0, <1>5 DEF LogoutDecode, Pair
  <2>3. Ttl(t) \in Nat /\ pairs[t].exp < now + Ttl(t) + Second
    BY <1>0, <2>2, WholeSecondsFacts DEF Ttl
  <2> QED
    BY <2>1, <2>2, <2>3 DEF AInv, KeysOK
<1>6. ASSUME NEW r \in Req, LogoutBlacklist(r) PROVE KeysOK'
  <2> DEFINE t == job[r].token
             ttl == job[r].ttl
  <2>1. /\ now' = now /\ pairs' = pairs /\ pc'[r] = "logout.revoke"
        /\ \A q \in Req \ {r} : pc'[q] = pc[q] /\ job'[q] = job[q]
        /\ ended' = ended \cup {t}
        /\ blacklist' = IF ttl = 0 THEN blacklist
                        ELSE [blacklist EXCEPT ![t] = now + ttl]
    BY <1>0, <1>6 DEF LogoutBlacklist
  <2>2. /\ t \in Token /\ pairs[t] # None /\ ttl \in Nat
        /\ pairs[t].exp \in Nat /\ pairs[t].exp < now + ttl + Second
    BY <1>0, <1>6 DEF LogoutBlacklist, AInv, KeysOK, Job, Pair
  <2>3. pairs[t].exp < blacklist'[t] + Second \/ pairs[t].exp < now + Second
    BY <1>0, <2>1, <2>2
  <2>4. \A s \in Token \ {t} : blacklist'[s] = blacklist[s]
    BY <1>0, <2>1
  <2> QED
    BY <1>0, <2>1, <2>2, <2>3, <2>4 DEF AInv, KeysOK
<1>7. CASE Tick
  <2>1. now' \in Nat /\ now <= now'
    BY <1>0, <1>7, BoundAssumption DEF Tick
  <2> QED
    BY <1>7, <2>1, KeysFrame DEF Tick
<1>8. CASE UNCHANGED vars
  BY <1>0, <1>8, KeysFrame DEF vars
<1> QED
  BY <1>1, <1>2, <1>3, <1>4, <1>5, <1>6, <1>7, <1>8, Zenon DEF Next

-----------------------------------------------------------------------------
(* Accounts are there before their tokens.                                  *)

\* Accounts never go away: what holds of old pairs and requests still does.
LEMMA KnownFrame ==
    ASSUME AInv,
           \A u \in User : accounts[u] # None => accounts'[u] # None,
           \A t \in Token : pairs'[t] # None =>
              \/ pairs[t] # None /\ pairs'[t].user = pairs[t].user
              \/ pairs'[t].user \in User /\ accounts[pairs'[t].user] # None,
           \A q \in Req : pc'[q] = "login.insert" =>
              \/ pc[q] = "login.insert" /\ job'[q].user = job[q].user
              \/ job'[q].user \in User /\ accounts[job'[q].user] # None
    PROVE  KnownOK'
<1>1. \A t \in Token : pairs[t] # None => pairs[t].user \in User
  BY DEF AInv, TypeOK, Pair
<1>2. \A q \in Req : pc[q] = "login.insert" => job[q].user \in User
  BY DEF AInv, NamesOK, Made
<1> QED
  BY <1>1, <1>2 DEF AInv, KnownOK

LEMMA KnownInv == AInv /\ [Next]_vars => KnownOK'
<1> SUFFICES ASSUME AInv, [Next]_vars PROVE KnownOK'
  OBVIOUS
<1> USE DEF Go, End
<1>0. /\ pc \in [Req -> Labels] /\ job \in [Req -> Job]
      /\ accounts \in [User -> Email \cup {None}] /\ None \notin Email
      /\ pairs \in [Token -> Pair \cup {None}] /\ KnownOK /\ NamesOK
  BY NoneAssumption DEF AInv, TypeOK
<1>1. ASSUME NEW r \in Req,
             \/ \E e \in Email : RegisterExists(r, e)
             \/ \E u \in User : RegisterInsert(r, u)
             \/ RegisterRefused(r) \/ LoginCommit(r) \/ RefreshRevoke(r)
             \/ RefreshCommit(r) \/ Lose(r) \/ BreakDeadlock(r)
      PROVE  KnownOK'
  BY <1>0, <1>1, KnownFrame
     DEF RegisterExists, RegisterInsert, RegisterRefused, LoginCommit,
         RefreshRevoke, RefreshCommit, Lose, BreakDeadlock
<1>2. ASSUME NEW r \in Req, RegisterCommit(r) PROVE KnownOK'
  <2>1. job[r].email \in Email
    BY <1>2 DEF RegisterCommit, AInv, AccountsOK, Registering
  <2>2. \A u \in User : accounts[u] # None => accounts'[u] # None
    BY <1>0, <1>2, <2>1 DEF RegisterCommit
  <2> QED
    BY <1>0, <1>2, <2>2, KnownFrame DEF RegisterCommit
<1>3. ASSUME NEW r \in Req, NEW u \in User, LoginFind(r, u) PROVE KnownOK'
  <2>1. /\ accounts' = accounts /\ pairs' = pairs /\ accounts[u] # None
        /\ pc'[r] = "login.insert" /\ job'[r].user = u
        /\ \A q \in Req \ {r} : /\ pc'[q] = pc[q]
                                /\ pc[q] # "logout.rows" => job'[q] = job[q]
    BY <1>0, <1>3 DEF LoginFind, BeginIssue, NoJob
  <2> QED
    BY <2>1, KnownFrame
<1>4. ASSUME NEW r \in Req, NEW t \in Token, RefreshFind(r, t) PROVE KnownOK'
  <2>1. /\ accounts' = accounts /\ pairs' = pairs /\ pc'[r] # "login.insert"
        /\ \A q \in Req \ {r} : /\ pc'[q] = pc[q]
                                /\ pc[q] # "logout.rows" => job'[q] = job[q]
    BY <1>0, <1>4 DEF RefreshFind, BeginIssue
  <2> QED
    BY <2>1, KnownFrame
<1>5. ASSUME NEW r \in Req, NEW t \in Token, LoginInsert(r, t) PROVE KnownOK'
  <2>1. job[r].user \in User /\ accounts[job[r].user] # None
    BY <1>0, <1>5 DEF LoginInsert, NamesOK, Made, KnownOK
  <2>2. /\ pairs'[t].user = job[r].user
        /\ \A s \in Token \ {t} : pairs'[s] = pairs[s]
    BY <1>5, <2>1, MakeFacts DEF LoginInsert
  <2> QED
    BY <1>0, <1>5, <2>1, <2>2, KnownFrame DEF LoginInsert, Job
<1>6. ASSUME NEW r \in Req, NEW t \in Token, RefreshInsert(r, t) PROVE KnownOK'
  <2> DEFINE s == job[r].token
  <2>1. /\ s \in Token /\ pairs[s] \in Pair /\ job[r].user = pairs[s].user
        /\ accounts[job[r].user] # None
    BY <1>0, <1>6 DEF RefreshInsert, NamesOK, Made, Refreshing, KnownOK
  <2>2. /\ pairs'[t].user = job[r].user
        /\ \A x \in Token \ {t} : pairs'[x] = pairs[x]
    BY <1>6, <2>1, MakeFacts DEF RefreshInsert, Pair
  <2> QED
    BY <1>0, <1>6, <2>1, <2>2, KnownFrame DEF RefreshInsert, Job, Pair
<1>7. ASSUME NEW r \in Req,
             \/ \E t \in Token : LogoutDecode(r, t) \/ LogoutLock(r, t)
             \/ LogoutBlacklist(r) \/ LogoutBlacklistFails(r)
             \/ LogoutRevoke(r) \/ LogoutCommit(r)
      PROVE  KnownOK'
  <2>1. /\ accounts' = accounts /\ pairs' = pairs /\ pc'[r] # "login.insert"
        /\ \A q \in Req \ {r} : pc'[q] = pc[q] /\ job'[q] = job[q]
    <3>1. CASE \E t \in Token : LogoutDecode(r, t) \/ LogoutLock(r, t)
      BY <1>0, <3>1 DEF LogoutDecode, LogoutLock
    <3>2. CASE LogoutBlacklist(r) \/ LogoutBlacklistFails(r)
      BY <1>0, <3>2 DEF LogoutBlacklist, LogoutBlacklistFails
    <3>3. CASE LogoutRevoke(r) \/ LogoutCommit(r)
      BY <1>0, <3>3 DEF LogoutRevoke, LogoutCommit
    <3> QED
      BY <1>7, <3>1, <3>2, <3>3
  <2> QED
    BY <2>1, KnownFrame
<1>8. CASE Tick
  BY <1>8, KnownFrame DEF Tick
<1>9. CASE UNCHANGED vars
  BY <1>9, KnownFrame DEF vars
<1> QED
  BY <1>1, <1>2, <1>3, <1>4, <1>5, <1>6, <1>7, <1>8, <1>9, Zenon DEF Next

-----------------------------------------------------------------------------
(* The theorems.                                                            *)

LEMMA InitInv == Init => AInv
<1> SUFFICES ASSUME Init PROVE AInv
  OBVIOUS
<1> USE DEF Init
<1>1. TypeOK
  BY NoJobType, BoundAssumption DEF TypeOK, Labels
<1>2. AccountsOK
  BY NoneAssumption DEF AccountsOK, OneAccountPerEmail, Registering
<1>3. NamesOK /\ RotationOK
  BY DEF NamesOK, Made, Making, Refreshing, RotationOK, OneLivePerLogin, Rotating
<1>4. IdleOK /\ LogoutOK /\ KeysOK /\ KnownOK
  BY DEF IdleOK, LogoutOK, LoggingOut, KeysOK, KnownOK
<1> QED
  BY <1>1, <1>2, <1>3, <1>4 DEF AInv

\* The invariant of the service: for any requests, accounts, emails, token
\* lifetimes and moments, whatever fails.
THEOREM TokensInvariance == Spec => []AInv
<1>1. AInv /\ [Next]_vars => AInv'
  BY TypeInv, IdleInv, AccountsInv, NamesInv, RotationInv, LogoutInv, KeysInv,
     KnownInv, Zenon
     DEF AInv
<1> QED
  BY InitInv, <1>1, PTL DEF Spec

\* register: two accounts never have one email, however many requests raced.
THEOREM TokensOneAccount == Spec => []OneAccountPerEmail
<1>1. AInv => OneAccountPerEmail
  BY DEF AInv, AccountsOK
<1> QED
  BY TokensInvariance, <1>1, PTL

\* refresh: rotation leaves one live token per login, unless two refreshes of
\* one token overlapped.
THEOREM TokensRotated == Spec => []OneLivePerLogin
<1>1. AInv => OneLivePerLogin
  BY DEF AInv, RotationOK
<1> QED
  BY TokensInvariance, <1>1, PTL

\* logout: an access token that was logged out is refused up to its last
\* second, at any resolution of the clock and with any lifetime.
THEOREM TokensLoggedOut == Spec => []LoggedOutRefused
<1>1. AInv => LoggedOutRefused
  <2> SUFFICES ASSUME AInv, NEW t \in ended, Accepted(t)
               PROVE  pairs[t].exp < now + Second
    BY DEF LoggedOutRefused
  <2>1. /\ pairs[t] \in Pair /\ now \in Nat /\ blacklist[t] \in Nat
        /\ Second \in Nat
    BY SecondAssumption DEF AInv, TypeOK, Accepted
  <2> QED
    BY <2>1 DEF AInv, KeysOK, Accepted, Pair
<1> QED
  BY TokensInvariance, <1>1, PTL

\* Locks are held by requests that have begun, and nobody waits for itself.
LEMMA WaitingFacts ==
    ASSUME NEW p \in Req, NEW q \in Req, Waits(p, q)
    PROVE  /\ pc[p] # "idle" /\ pc[q] # "idle"
           /\ pc[p] \in {"register.insert", "refresh.revoke", "logout.rows"}
           /\ pc[p] = "register.insert" => pc[q] = "register.commit"
           /\ pc[p] # "register.insert" =>
                 pc[q] \in {"refresh.insert", "refresh.commit", "logout.rows"}
BY DEF Waits, KeyLock, RowLock

\* A register waits for one that only commits, a refresh for one that only
\* commits or for logouts: what they wait for does not come back to them.
LEMMA Circles == AInv => DeadlocksAreLogouts
<1> SUFFICES ASSUME AInv, NEW r \in Req, Deadlocked(r)
             PROVE  /\ pc[r] = "logout.rows"
                    /\ \E q \in Req : /\ Waits(r, q) /\ pc[q] = "logout.rows"
                                      /\ job[q].user = job[r].user
  BY DEF DeadlocksAreLogouts
<1>1. ASSUME NEW S \in SUBSET Req, \A q \in Req : Waits(r, q) => q \in S,
             \A p \in S, q \in Req : Waits(p, q) => q \in S
      PROVE  r \in S
  BY <1>1 DEF Deadlocked
<1> DEFINE Ready == {q \in Req : pc[q] \in {"register.commit", "refresh.insert",
                                            "refresh.commit"}}
           Holding == {q \in Req : pc[q] \in {"refresh.insert", "refresh.commit",
                                              "logout.rows"}}
<1>2. \E q \in Req : Waits(r, q)
  <2> SUFFICES ASSUME \A q \in Req : ~Waits(r, q) PROVE r \in {}
    OBVIOUS
  <2> QED
    BY <1>1, Zenon
<1>3. pc[r] \in {"register.insert", "refresh.revoke", "logout.rows"}
  BY <1>2, WaitingFacts
<1>4. \A p \in Ready, q \in Req : ~Waits(p, q)
  BY WaitingFacts
<1>5. pc[r] # "register.insert"
  <2> SUFFICES ASSUME pc[r] = "register.insert" PROVE FALSE
    OBVIOUS
  <2>1. \A q \in Req : Waits(r, q) => q \in Ready
    BY WaitingFacts
  <2>2. r \notin Ready
    OBVIOUS
  <2> HIDE DEF Ready
  <2>3. Ready \in SUBSET Req
    BY DEF Ready
  <2> QED
    BY <1>1, <1>4, <2>1, <2>2, <2>3
<1>6. pc[r] # "refresh.revoke"
  <2> SUFFICES ASSUME pc[r] = "refresh.revoke" PROVE FALSE
    OBVIOUS
  <2>1. \A q \in Req : Waits(r, q) => q \in Holding
    BY WaitingFacts
  <2>2. \A p \in Holding, q \in Req : Waits(p, q) => q \in Holding
    BY WaitingFacts
  <2>3. r \notin Holding /\ Holding \in SUBSET Req
    OBVIOUS
  <2> HIDE DEF Holding
  <2> QED
    BY <1>1, <2>1, <2>2, <2>3
<1>7. pc[r] = "logout.rows"
  BY <1>3, <1>5, <1>6
<1>8. PICK q \in Req : Waits(r, q) /\ pc[q] = "logout.rows"
  <2> SUFFICES ASSUME \A q \in Req : Waits(r, q) => pc[q] # "logout.rows"
               PROVE  FALSE
    OBVIOUS
  <2>1. \A q \in Req : Waits(r, q) => q \in Ready
    BY <1>7, WaitingFacts
  <2>2. r \notin Ready /\ Ready \in SUBSET Req
    BY <1>7
  <2> HIDE DEF Ready
  <2> QED
    BY <1>1, <1>4, <2>1, <2>2
<1>9. PICK t \in job[r].todo : t \in job[q].done
  BY <1>7, <1>8 DEF Waits, RowLock
<1>10. t \in RowsOf(job[r].user) /\ t \in RowsOf(job[q].user)
  BY <1>7, <1>8, <1>9 DEF AInv, LogoutOK, LoggingOut
<1> QED
  BY <1>7, <1>8, <1>10 DEF RowsOf

\* register and refresh are never in a wait cycle, for any number of requests.
THEOREM TokensDeadlocks == Spec => []DeadlocksAreLogouts
BY Circles, TokensInvariance, PTL

\* Of the requests in flight one need not wait, or is a logout in a wait cycle,
\* which PostgreSQL breaks.
SomebodyMoves ==
    (\E r \in Req : pc[r] # "idle") =>
       \E r \in Req : /\ pc[r] # "idle"
                      /\ \/ \A q \in Req : ~Waits(r, q)
                         \/ Deadlocked(r) /\ pc[r] = "logout.rows"

\* Requests that all wait contain a cycle, and it consists of logouts: the
\* smallest set of requests that wait for none but each other is a cycle.
THEOREM TokensMove == Spec => []SomebodyMoves
<1> DEFINE Closed(C) == /\ C # {}
                        /\ \A p \in C : /\ pc[p] # "idle"
                                         /\ \E q \in C : Waits(p, q)
                        /\ \A p \in C, q \in Req : Waits(p, q) => q \in C
           T == {C \in SUBSET Req : Closed(C)}
<1>1. AInv => SomebodyMoves
  <2> SUFFICES ASSUME AInv, NEW r0 \in Req, pc[r0] # "idle",
                      \A r \in Req : pc[r] # "idle" => \E q \in Req : Waits(r, q)
               PROVE  \E r \in Req : Deadlocked(r)
    BY Circles DEF SomebodyMoves, DeadlocksAreLogouts
  <2> DEFINE Flying == {r \in Req : pc[r] # "idle"}
  <2>1. Flying \in T
    BY WaitingFacts
  <2>2. T # {} /\ T \subseteq FiniteSubsetsOf(Req)
    <3>1. \A C \in SUBSET Req : IsFiniteSet(C)
      BY ReqAssumption, FS_Subset
    <3> QED
      BY <2>1, <3>1 DEF FiniteSubsetsOf
  <2>3. PICK C \in T : \A S \in T : <<S, C>> \notin StrictSubsetOrdering(Req)
    <3>1. IsWellFoundedOn(StrictSubsetOrdering(Req), FiniteSubsetsOf(Req))
      BY ReqAssumption, FS_StrictSubsetOrderingWellFounded
    <3> HIDE DEF T
    <3> QED
      BY <2>2, <3>1, WFMin
  <2>4. PICK r \in C : TRUE
    BY <2>3
  <2>5. ASSUME NEW S \in SUBSET Req, \A q \in Req : Waits(r, q) => q \in S,
               \A p \in S, q \in Req : Waits(p, q) => q \in S
        PROVE  r \in S
    <3> DEFINE B == S \cap C
    <3>1. B # {}
      BY <2>3, <2>4, <2>5
    <3>2. \A p \in B : pc[p] # "idle" /\ \E q \in B : Waits(p, q)
      BY <2>3, <2>5
    <3>3. \A p \in B, q \in Req : Waits(p, q) => q \in B
      BY <2>3, <2>5
    <3>4. B \in T
      BY <3>1, <3>2, <3>3
    <3>5. B \subseteq C /\ B \in SUBSET Req /\ C \in SUBSET Req
      BY <2>3
    <3>6. <<B, C>> \notin StrictSubsetOrdering(Req)
      BY <2>3, <3>4
    <3> HIDE DEF B
    <3>7. B = C
      BY <3>5, <3>6 DEF StrictSubsetOrdering
    <3> QED
      BY <2>4, <3>7 DEF B
  <2>6. r \in Req
    BY <2>3, <2>4
  <2> QED
    BY <2>5, <2>6 DEF Deadlocked
<1> QED
  BY <1>1, TokensInvariance, PTL

\* logout: none of the user's refresh tokens is live after its commit, unless
\* a login or refresh of the user overlapped.
THEOREM TokensLogoutTotal == Spec => LogoutTotal
<1>1. AInv /\ [Next]_vars =>
        [\A r \in Req : LogoutCommit(r) /\ job[r].alone =>
           \A t \in RowsOf(job[r].user) : tokens'[t] # "live"]_vars
  <2> SUFFICES ASSUME AInv, NEW r \in Req, LogoutCommit(r), job[r].alone,
                      NEW t \in RowsOf(job[r].user)
               PROVE  tokens'[t] # "live"
    OBVIOUS
  <2>1. LoggingOut(r) /\ t \in Token /\ pc[r] = "logout.rows" /\ job[r].todo = {}
    BY DEF AInv, LogoutOK, RowsOf, LogoutCommit
  <2>2. tokens[t] = "live" => t \in job[r].done
    BY <2>1 DEF LoggingOut
  <2> QED
    BY <2>1, <2>2 DEF LogoutCommit
<1> QED
  BY TokensInvariance, <1>1, PTL DEF Spec, LogoutTotal

-----------------------------------------------------------------------------
(* Refinement.  A commit is one operation of Accounts; everything else a    *)
(* request does changes no committed row.                                   *)

\* A row as Accounts has it, and no row.
LEMMA RowFacts ==
    ASSUME TypeOK, NamesOK
    PROVE  /\ RowsNow \in [Token -> A!Row \cup {None}] /\ None \notin A!Row
           /\ \A t \in Token : RowsNow[t] = None <=> tokens[t] = "none"
           /\ \A t \in Token : tokens[t] # "none" =>
                 /\ pairs[t] \in Pair
                 /\ RowsNow[t] = [user |-> pairs[t].user, root |-> pairs[t].root,
                                  live |-> tokens[t] = "live"]
<1>1. None \notin A!Row
  BY NoneAssumption DEF A!Row
<1>2. ASSUME NEW t \in Token, tokens[t] # "none"
      PROVE  /\ pairs[t] \in Pair
             /\ [user |-> pairs[t].user, root |-> pairs[t].root,
                 live |-> tokens[t] = "live"] \in A!Row
  BY <1>2 DEF TypeOK, NamesOK, Pair, A!Row
<1> QED
  BY <1>1, <1>2 DEF RowsNow

LEMMA QuietRefines ==
    ASSUME AInv, accounts' = accounts, tokens' = tokens,
           \A t \in Token : tokens[t] # "none" => pairs'[t] = pairs[t]
    PROVE  UNCHANGED A!vars
<1>1. \A t \in Token : RowsNow'[t] = RowsNow[t]
  BY DEF RowsNow
<1>2. RowsNow' = RowsNow
  BY <1>1 DEF RowsNow
<1> QED
  BY <1>2 DEF A!vars

LEMMA RegisterRefines ==
    ASSUME AInv, NEW r \in Req, RegisterCommit(r)
    PROVE  A!Next
<1> DEFINE u == job[r].user
           e == job[r].email
<1>1. /\ u \in User /\ e \in Email /\ accounts[u] = None
      /\ \A v \in User : accounts[v] # e
  BY DEF RegisterCommit, AInv, AccountsOK, Registering, Registered
<1>2. accounts' = [accounts EXCEPT ![u] = e] /\ RowsNow' = RowsNow
  BY DEF RegisterCommit, RowsNow
<1>3. A!Register(u, e)
  BY <1>1, <1>2 DEF A!Register
<1> QED
  BY <1>1, <1>3 DEF A!Next

LEMMA LoginRefines ==
    ASSUME AInv, NEW r \in Req, LoginCommit(r)
    PROVE  A!Next
<1> DEFINE u == job[r].user
           t == job[r].new
           row == [user |-> u, root |-> t, live |-> TRUE]
<1>1. /\ t \in Token /\ tokens[t] = "none" /\ pairs[t] \in Pair
      /\ pairs[t].user = u /\ pairs[t].root = t
      /\ u \in User /\ accounts[u] # None
  BY DEF LoginCommit, AInv, NamesOK, Made, Making, KnownOK, TypeOK, Pair
<1>2. /\ tokens' = [tokens EXCEPT ![t] = "live"]
      /\ pairs' = pairs /\ accounts' = accounts
  BY DEF LoginCommit
<1>3. tokens \in [Token -> {"none", "live", "revoked"}]
  BY DEF AInv, TypeOK
<1>4. RowsNow'[t] = row /\ \A s \in Token \ {t} : RowsNow'[s] = RowsNow[s]
  BY <1>1, <1>2, <1>3 DEF RowsNow
<1>5. RowsNow' = [RowsNow EXCEPT ![t] = row]
  <2>1. RowsNow' = [s \in Token |-> RowsNow'[s]] /\ RowsNow = [s \in Token |-> RowsNow[s]]
    BY DEF RowsNow
  <2> HIDE DEF row
  <2> QED
    BY <1>4, <2>1
<1>6. RowsNow[t] = None
  BY <1>1 DEF RowsNow
<1>7. A!Login(u, t)
  BY <1>1, <1>2, <1>5, <1>6 DEF A!Login
<1> QED
  BY <1>1, <1>7 DEF A!Next

LEMMA RefreshRefines ==
    ASSUME AInv, NEW r \in Req, RefreshCommit(r)
    PROVE  A!Next
<1> DEFINE s == job[r].token
           t == job[r].new
<1>1. /\ s \in Token /\ tokens[s] # "none"
      /\ t \in Token /\ tokens[t] = "none" /\ pairs[t] \in Pair
      /\ pairs[t].user = pairs[s].user /\ pairs[t].root = pairs[s].root
  BY DEF RefreshCommit, AInv, NamesOK, Made, Making, Refreshing, TypeOK
<1>2. /\ tokens' = [tokens EXCEPT ![s] = "revoked", ![t] = "live"]
      /\ pairs' = pairs /\ accounts' = accounts
  BY DEF RefreshCommit
<1>3. tokens \in [Token -> {"none", "live", "revoked"}]
  BY DEF AInv, TypeOK
<1>4. /\ RowsNow[s] # None /\ RowsNow[t] = None
      /\ RowsNow[s] = [user |-> pairs[s].user, root |-> pairs[s].root,
                       live |-> tokens[s] = "live"]
  BY <1>1, RowFacts DEF AInv
<1>5. /\ RowsNow'[s] = [RowsNow[s] EXCEPT !.live = FALSE]
      /\ RowsNow'[t] = [RowsNow[s] EXCEPT !.live = TRUE]
      /\ \A x \in Token \ {s, t} : RowsNow'[x] = RowsNow[x]
  <2>1. /\ s # t /\ tokens'[s] = "revoked" /\ tokens'[t] = "live"
        /\ \A x \in Token \ {s, t} : tokens'[x] = tokens[x]
    BY <1>1, <1>2, <1>3
  <2>2. /\ RowsNow'[s] = [user |-> pairs[s].user, root |-> pairs[s].root, live |-> FALSE]
        /\ RowsNow'[t] = [user |-> pairs[s].user, root |-> pairs[s].root, live |-> TRUE]
    BY <1>1, <1>2, <2>1 DEF RowsNow
  <2>3. ASSUME NEW x, NEW b, RowsNow'[x] = [user |-> pairs[s].user,
                                            root |-> pairs[s].root, live |-> b]
        PROVE  RowsNow'[x] = [RowsNow[s] EXCEPT !.live = b]
    BY <1>4, <2>3
  <2>4. /\ RowsNow'[s] = [RowsNow[s] EXCEPT !.live = FALSE]
        /\ RowsNow'[t] = [RowsNow[s] EXCEPT !.live = TRUE]
    BY <2>2, <2>3, Zenon
  <2>5. \A x \in Token \ {s, t} : RowsNow'[x] = RowsNow[x]
    BY <1>2, <2>1 DEF RowsNow
  <2> QED
    BY <2>4, <2>5
<1>6. RowsNow' = [RowsNow EXCEPT ![s].live = FALSE,
                                ![t] = [RowsNow[s] EXCEPT !.live = TRUE]]
  <2>1. RowsNow' = [x \in Token |-> RowsNow'[x]] /\ RowsNow = [x \in Token |-> RowsNow[x]]
    BY DEF RowsNow
  <2> QED
    BY <1>1, <1>5, <2>1
<1>7. A!Refresh(s, t)
  BY <1>2, <1>4, <1>6 DEF A!Refresh
<1> QED
  BY <1>1, <1>7 DEF A!Next

LEMMA LogoutRefines ==
    ASSUME AInv, NEW r \in Req, LogoutCommit(r)
    PROVE  A!Next \/ UNCHANGED A!vars
<1> DEFINE u == job[r].user
           revoked == job[r].done
<1>1. /\ revoked \in SUBSET Token
      /\ \A t \in revoked : tokens[t] # "none" /\ pairs[t].user = u
  BY DEF LogoutCommit, AInv, LogoutOK, LoggingOut, RowsOf
<1>2. /\ tokens' = [t \in Token |-> IF t \in revoked THEN "revoked" ELSE tokens[t]]
      /\ pairs' = pairs /\ accounts' = accounts
  BY DEF LogoutCommit
<1>3. \A t \in revoked :
         /\ RowsNow[t] # None /\ RowsNow[t].user = u
         /\ RowsNow[t] = [user |-> pairs[t].user, root |-> pairs[t].root,
                          live |-> tokens[t] = "live"]
  BY <1>1, RowFacts DEF AInv
<1>4. ASSUME NEW t \in Token
      PROVE  RowsNow'[t] = IF t \in revoked THEN [RowsNow[t] EXCEPT !.live = FALSE]
                           ELSE RowsNow[t]
  BY <1>1, <1>2, <1>3 DEF RowsNow
<1>5. RowsNow' = [t \in Token |-> IF t \in revoked THEN [RowsNow[t] EXCEPT !.live = FALSE]
                                  ELSE RowsNow[t]]
  <2>1. RowsNow' = [t \in Token |-> RowsNow'[t]]
    BY DEF RowsNow
  <2> QED
    BY <1>4, <2>1
<1>6. CASE revoked = {}
  <2>1. tokens' = tokens
    BY <1>2, <1>6 DEF AInv, TypeOK
  <2> QED
    BY <1>2, <2>1, QuietRefines
<1>7. CASE revoked # {}
  <2>1. u \in User
    BY <1>1, <1>7, RowFacts DEF AInv, Pair
  <2>2. A!Logout(u, revoked)
    BY <1>2, <1>3, <1>5 DEF A!Logout
  <2> QED
    BY <1>1, <2>1, <2>2 DEF A!Next
<1> QED
  BY <1>6, <1>7

LEMMA NextRefines == AInv /\ [Next]_vars => [A!Next]_(A!vars)
<1> SUFFICES ASSUME AInv, [Next]_vars PROVE [A!Next]_(A!vars)
  OBVIOUS
<1>1. ASSUME NEW r \in Req,
             RegisterCommit(r) \/ LoginCommit(r) \/ RefreshCommit(r) \/ LogoutCommit(r)
      PROVE  [A!Next]_(A!vars)
  BY <1>1, RegisterRefines, LoginRefines, RefreshRefines, LogoutRefines
<1>2. ASSUME NEW r \in Req, NEW t \in Token, LoginInsert(r, t) \/ RefreshInsert(r, t)
      PROVE  [A!Next]_(A!vars)
  <2>1. accounts' = accounts /\ tokens' = tokens
    BY <1>2 DEF LoginInsert, RefreshInsert
  <2>2. \A s \in Token : tokens[s] # "none" => pairs'[s] = pairs[s]
    BY <1>2 DEF LoginInsert, RefreshInsert, Make, AInv, NamesOK, TypeOK
  <2> QED
    BY <2>1, <2>2, QuietRefines
<1>3. ASSUME NEW r \in Req,
             \/ \E e \in Email : RegisterExists(r, e)
             \/ \E u \in User : RegisterInsert(r, u) \/ LoginFind(r, u)
             \/ RegisterRefused(r) \/ RefreshRevoke(r)
             \/ \E t \in Token : RefreshFind(r, t)
             \/ Lose(r) \/ BreakDeadlock(r)
      PROVE  [A!Next]_(A!vars)
  <2>1. accounts' = accounts /\ pairs' = pairs /\ tokens' = tokens
    <3>1. CASE \/ \E e \in Email : RegisterExists(r, e)
               \/ \E u \in User : RegisterInsert(r, u)
      BY <3>1 DEF RegisterExists, RegisterInsert
    <3>2. CASE \E u \in User : LoginFind(r, u)
      BY <3>2, Zenon DEF LoginFind
    <3>3. CASE \E t \in Token : RefreshFind(r, t)
      BY <3>3, Zenon DEF RefreshFind
    <3>4. CASE RegisterRefused(r) \/ RefreshRevoke(r) \/ Lose(r) \/ BreakDeadlock(r)
      BY <3>4 DEF RegisterRefused, RefreshRevoke, Lose, BreakDeadlock
    <3> QED
      BY <1>3, <3>1, <3>2, <3>3, <3>4
  <2> QED
    BY <2>1, QuietRefines
<1>4. ASSUME NEW r \in Req,
             \/ \E t \in Token : LogoutDecode(r, t) \/ LogoutLock(r, t)
             \/ LogoutBlacklist(r) \/ LogoutBlacklistFails(r) \/ LogoutRevoke(r)
      PROVE  [A!Next]_(A!vars)
  <2>1. accounts' = accounts /\ pairs' = pairs /\ tokens' = tokens
    <3>1. CASE \E t \in Token : LogoutDecode(r, t) \/ LogoutLock(r, t)
      BY <3>1 DEF LogoutDecode, LogoutLock
    <3>2. CASE LogoutBlacklist(r) \/ LogoutBlacklistFails(r) \/ LogoutRevoke(r)
      BY <3>2 DEF LogoutBlacklist, LogoutBlacklistFails, LogoutRevoke
    <3> QED
      BY <1>4, <3>1, <3>2
  <2> QED
    BY <2>1, QuietRefines
<1>5. CASE Tick \/ UNCHANGED vars
  BY <1>5, QuietRefines DEF Tick, vars
<1> QED
  BY <1>1, <1>2, <1>3, <1>4, <1>5, Zenon DEF Next

\* The auth feature, statement by statement, implements Accounts: a refresh
\* token is issued by a login of an account that is there or takes the place
\* of one of the same account and login, and every account is made whole.
THEOREM TokensRefine == Spec => Atomic
<1>1. Init => A!Init
  <2>1. Init => RowsNow = [t \in Token |-> None]
    BY DEF Init, RowsNow
  <2> QED
    BY <2>1 DEF Init, A!Init
<1> QED
  BY <1>1, NextRefines, TokensInvariance, PTL DEF Spec, Atomic, A!Spec

\* What an operation of Accounts leaves of each row.
LEMMA OperationsKeepRows ==
    ASSUME AInv, [A!Next]_(A!vars), NEW t \in Token, RowsNow[t] # None
    PROVE  /\ RowsNow'[t] # None
           /\ RowsNow'[t].user = RowsNow[t].user
           /\ RowsNow'[t].root = RowsNow[t].root
           /\ RowsNow'[t].live => RowsNow[t].live
<1>0. /\ RowsNow \in [Token -> A!Row \cup {None}]
      /\ \A row : row \in A!Row => row # None
  BY RowFacts DEF AInv
<1>1. /\ RowsNow[t] \in A!Row
      /\ [RowsNow[t] EXCEPT !.live = FALSE] \in A!Row
  BY <1>0 DEF A!Row
<1>2. ASSUME NEW u \in User, NEW e \in Email, A!Register(u, e)
      PROVE  RowsNow'[t] = RowsNow[t]
  BY <1>2 DEF A!Register
<1>3. ASSUME NEW u \in User, NEW s \in Token, A!Login(u, s)
      PROVE  RowsNow'[t] = RowsNow[t]
  BY <1>0, <1>3 DEF A!Login
<1>4. ASSUME NEW u \in User, NEW revoked \in SUBSET Token, A!Logout(u, revoked)
      PROVE  \/ RowsNow'[t] = RowsNow[t]
             \/ RowsNow'[t] = [RowsNow[t] EXCEPT !.live = FALSE]
  BY <1>4 DEF A!Logout
<1>5. ASSUME NEW s \in Token, NEW x \in Token, A!Refresh(s, x)
      PROVE  \/ RowsNow'[t] = RowsNow[t]
             \/ RowsNow'[t] = [RowsNow[t] EXCEPT !.live = FALSE]
  BY <1>0, <1>5 DEF A!Refresh
<1>6. \/ RowsNow'[t] = RowsNow[t]
      \/ RowsNow'[t] = [RowsNow[t] EXCEPT !.live = FALSE]
  BY <1>2, <1>3, <1>4, <1>5 DEF A!Next, A!vars
<1> QED
  BY <1>0, <1>1, <1>6 DEF A!Row

\* refresh and logout: a token that was revoked stays so whatever is under
\* way at the time, and belongs to its account and login for ever.
THEOREM TokensRevokedForGood == Spec => A!RevokedForGood
<1>1. AInv /\ [Next]_vars => [A!KeepRows]_(A!vars)
  BY NextRefines, OperationsKeepRows DEF A!KeepRows
<1> QED
  BY <1>1, TokensInvariance, PTL DEF Spec, A!RevokedForGood

\* register: an account that was made stays, and so does its email.
THEOREM TokensEmailsKept == Spec => A!EmailsKept
<1>1. AInv /\ [Next]_vars =>
        [\A u \in User : accounts[u] # None => accounts'[u] = accounts[u]]_(A!vars)
  <2> SUFFICES ASSUME AInv, [Next]_vars, NEW u \in User, accounts[u] # None
               PROVE  accounts'[u] = accounts[u]
    OBVIOUS
  <2>1. accounts \in [User -> Email \cup {None}]
    BY DEF AInv, TypeOK
  <2>2. [A!Next]_(A!vars)
    BY NextRefines
  <2> QED
    BY <2>1, <2>2 DEF A!Next, A!vars, A!Register, A!Login, A!Logout, A!Refresh
<1> QED
  BY <1>1, TokensInvariance, PTL DEF Spec, A!EmailsKept
=============================================================================
