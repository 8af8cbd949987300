------------------------------ MODULE Accounts ------------------------------
(***************************************************************************)
(* What the auth feature promises, free of transactions and of the clock:  *)
(* accounts, and refresh tokens that go back to a login, changed by one    *)
(* whole operation at a time.  AuthTokens, where every request is a        *)
(* sequence of SQL statements, implements this module (its property        *)
(* Atomic).                                                                *)
(*                                                                         *)
(* Two refreshes with one token may both succeed, and a logout may miss a  *)
(* token that is issued meanwhile: Refresh and Logout promise no more.     *)
(***************************************************************************)
CONSTANTS User,       \* ids of accounts
          Email,
          Token,      \* names of refresh tokens, each used once
          None        \* no account, no row

VARIABLES accounts,   \* the email of each account
          rows        \* the rows of refresh_tokens

\* root: the token of the login that this one descends from.
Row == [user: User, root: Token, live: BOOLEAN]

TypeOK == /\ accounts \in [User -> Email \cup {None}]
          /\ rows \in [Token -> Row \cup {None}]

Init == /\ accounts = [u \in User |-> None]
        /\ rows = [t \in Token |-> None]

\* An email is registered once.
Register(u, e) ==
    /\ accounts[u] = None
    /\ \A v \in User : accounts[v] # e
    /\ accounts' = [accounts EXCEPT ![u] = e]
    /\ UNCHANGED rows

\* A login begins a line of tokens for an account that is there.
Login(u, t) ==
    /\ accounts[u] # None /\ rows[t] = None
    /\ rows' = [rows EXCEPT ![t] = [user |-> u, root |-> t, live |-> TRUE]]
    /\ UNCHANGED accounts

\* t takes the place of s, for the same account and in the same line.
Refresh(s, t) ==
    /\ rows[s] # None /\ rows[t] = None
    /\ rows' = [rows EXCEPT ![s].live = FALSE, ![t] = [rows[s] EXCEPT !.live = TRUE]]
    /\ UNCHANGED accounts

\* Tokens of one account, and of no other, are revoked.
Logout(u, revoked) ==
    /\ \A t \in revoked : rows[t] # None /\ rows[t].user = u
    /\ rows' = [t \in Token |->
                  IF t \in revoked THEN [rows[t] EXCEPT !.live = FALSE] ELSE rows[t]]
    /\ UNCHANGED accounts

Next ==
    \/ \E u \in User :
         \/ \E e \in Email : Register(u, e)
         \/ \E t \in Token : Login(u, t)
         \/ \E revoked \in SUBSET Token : Logout(u, revoked)
    \/ \E s, t \in Token : Refresh(s, t)

vars == <<accounts, rows>>

Spec == Init /\ [][Next]_vars

\* A row keeps its account and its login for ever, and once it is revoked no
\* login, refresh or logout makes it live again.
KeepRows ==
    \A t \in Token : rows[t] # None =>
       /\ rows'[t] # None
       /\ rows'[t].user = rows[t].user /\ rows'[t].root = rows[t].root
       /\ rows'[t].live => rows[t].live

RevokedForGood == [][KeepRows]_vars

\* An account is there for good, and its email does not change.
EmailsKept ==
    [][\A u \in User : accounts[u] # None => accounts'[u] = accounts[u]]_vars
=============================================================================
