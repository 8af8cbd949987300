------------------------------- MODULE Streaks -------------------------------
(***************************************************************************)
(* calculate_user_streaks: for one user after the other it selects the     *)
(* dates of the sessions, counts back from today, walks over the sorted    *)
(* dates for the longest streak and stores both in Redis for an hour.      *)
(*                                                                         *)
(* The loops are taken apart into their iterations.  Meanwhile users read, *)
(* sessions are deleted, entries expire and the date changes.              *)
(***************************************************************************)
EXTENDS Integers, FiniteSets

CONSTANTS User,
          Day,        \* bound of the model: dates on which something happens
          MaxAborts,  \* bound of the model: runs that fail
          None        \* no user, no entry

ASSUME BoundAssumption == Day \subseteq Nat /\ MaxAborts \in Nat

VARIABLES
    day,     \* the date, UTC
    dates,   \* the dates of each user's sessions
    streak,  \* the key streak:{user_id} of each user
    phase,   \* what the task does next
    todo,    \* users it has not come to yet
    job,     \* its local variables
    aborts   \* runs that failed so far

vars == <<day, dates, streak, phase, todo, job, aborts>>

Larger(a, b) == IF a < b THEN b ELSE a

Phases == {"idle", "user", "today", "count", "scan", "store"}

\* at: the date that the walk over sorted_dates has come to.
Job == [user: User \cup {None}, session_dates: SUBSET Day, today: Nat,
        check_date: Int, current: Nat, at: Nat, temp: Nat, longest: Nat]
NoJob == [user |-> None, session_dates |-> {}, today |-> 0, check_date |-> 0,
          current |-> 0, at |-> 0, temp |-> 0, longest |-> 0]

\* last_read_date, which nobody reads, is left out.
Entry == [current: Nat, longest: Nat]

ASSUME NoneAssumption == None \notin User \cup Entry

TypeOK == /\ day \in Day
          /\ dates \in [User -> SUBSET Day]
          /\ streak \in [User -> Entry \cup {None}]
          /\ phase \in Phases
          /\ todo \subseteq User
          /\ job \in Job
          /\ aborts \in 0..MaxAborts

\* The service has run for some time: users have any past.
Init == /\ day \in Day
        /\ dates \in [User -> SUBSET {d \in Day : d <= day}]
        /\ streak = [u \in User |-> None]
        /\ phase = "idle" /\ todo = {} /\ job = NoJob
        /\ aborts = 0

-----------------------------------------------------------------------------
(* The task.                                                                *)

\* SELECT of the users; a user without a book counts as one without dates.
Begin == /\ phase = "idle"
         /\ phase' = "user" /\ todo' = User
         /\ UNCHANGED <<day, dates, streak, job, aborts>>

Finish == /\ phase = "user" /\ todo = {}
          /\ phase' = "idle"
          /\ UNCHANGED <<day, dates, streak, todo, job, aborts>>

\* Mutant: the first user without sessions ends the loop.
SkipRest(u) ==
    /\ phase = "user" /\ u \in todo /\ dates[u] = {}
    /\ todo' = {}
    /\ UNCHANGED <<day, dates, streak, phase, job, aborts>>

\* continue: what is stored of the user stays.
Skip(u) ==
    /\ phase = "user" /\ u \in todo /\ dates[u] = {}
    /\ todo' = todo \ {u}
    /\ UNCHANGED <<day, dates, streak, phase, job, aborts>>

Look(u) ==
    /\ phase = "user" /\ u \in todo /\ dates[u] # {}
    /\ phase' = "today" /\ todo' = todo \ {u}
    /\ job' = [NoJob EXCEPT !.user = u, !.session_dates = dates[u]]
    /\ UNCHANGED <<day, dates, streak, aborts>>

\* Mutant: a day that is not over is left out.
TodayYesterday ==
    /\ phase = "today"
    /\ phase' = "count"
    /\ job' = [job EXCEPT !.today = day, !.check_date = day - 1]
    /\ UNCHANGED <<day, dates, streak, todo, aborts>>

Today ==
    /\ phase = "today"
    /\ phase' = "count"
    /\ job' = [job EXCEPT !.today = day, !.check_date = day]
    /\ UNCHANGED <<day, dates, streak, todo, aborts>>

Count ==
    /\ phase = "count" /\ job.check_date \in job.session_dates
    /\ job' = [job EXCEPT !.current = @ + 1, !.check_date = @ - 1]
    /\ UNCHANGED <<day, dates, streak, phase, todo, aborts>>

\* .. and sorted_dates[0] begins the walk.
CountEnd ==
    /\ phase = "count" /\ job.check_date \notin job.session_dates
    /\ phase' = "scan"
    /\ \E d \in job.session_dates :
          /\ \A e \in job.session_dates : d <= e
          /\ job' = [job EXCEPT !.at = d, !.temp = 1, !.longest = 0]
    /\ UNCHANGED <<day, dates, streak, todo, aborts>>

\* Mutant: a gap begins a streak of no day.
ScanZero(d) ==
    /\ phase = "scan" /\ d \in job.session_dates /\ job.at < d
    /\ \A e \in job.session_dates : job.at < e => d <= e
    /\ job' = IF d - job.at = 1
              THEN [job EXCEPT !.at = d, !.temp = @ + 1]
              ELSE [job EXCEPT !.at = d, !.temp = 0,
                               !.longest = Larger(@, job.temp)]
    /\ UNCHANGED <<day, dates, streak, phase, todo, aborts>>

\* d is the date that follows in sorted_dates.
Scan(d) ==
    /\ phase = "scan" /\ d \in job.session_dates /\ job.at < d
    /\ \A e \in job.session_dates : job.at < e => d <= e
    /\ job' = IF d - job.at = 1
              THEN [job EXCEPT !.at = d, !.temp = @ + 1]
              ELSE [job EXCEPT !.at = d, !.temp = 1,
                               !.longest = Larger(@, job.temp)]
    /\ UNCHANGED <<day, dates, streak, phase, todo, aborts>>

\* Mutant: the last streak is not looked at once more.
ScanEndForgets ==
    /\ phase = "scan" /\ \A e \in job.session_dates : e <= job.at
    /\ phase' = "store"
    /\ UNCHANGED <<day, dates, streak, todo, job, aborts>>

ScanEnd ==
    /\ phase = "scan" /\ \A e \in job.session_dates : e <= job.at
    /\ phase' = "store"
    /\ job' = [job EXCEPT !.longest = Larger(@, job.temp)]
    /\ UNCHANGED <<day, dates, streak, todo, aborts>>

Store ==
    /\ phase = "store"
    /\ streak' = [streak EXCEPT ![job.user] =
          [current |-> job.current, longest |-> job.longest]]
    /\ phase' = "user" /\ job' = NoJob
    /\ UNCHANGED <<day, dates, todo, aborts>>

\* PostgreSQL or Redis raises, or the worker dies: the users that are left
\* wait for the next run.
Abort == /\ phase # "idle" /\ aborts < MaxAborts
         /\ aborts' = aborts + 1
         /\ phase' = "idle" /\ todo' = {} /\ job' = NoJob
         /\ UNCHANGED <<day, dates, streak>>

Task == \/ Begin \/ Finish \/ Today \/ Count \/ CountEnd \/ ScanEnd \/ Store
        \/ \E u \in User : Skip(u) \/ Look(u)
        \/ \E d \in Day : Scan(d)

-----------------------------------------------------------------------------
(* Meanwhile.                                                               *)

\* create_session: the session begins at the time of the request.
CreateSession(u) ==
    /\ dates' = [dates EXCEPT ![u] = @ \cup {day}]
    /\ UNCHANGED <<day, streak, phase, todo, job, aborts>>

\* The last session of a date is deleted, alone, with its book or by the
\* cleanup of old sessions.
DeleteSession(u, d) ==
    /\ d \in dates[u]
    /\ dates' = [dates EXCEPT ![u] = @ \ {d}]
    /\ UNCHANGED <<day, streak, phase, todo, job, aborts>>

Midnight == /\ day' \in {d \in Day : d > day}
            /\ UNCHANGED <<dates, streak, phase, todo, job, aborts>>

Expire(u) == /\ streak[u] # None
             /\ streak' = [streak EXCEPT ![u] = None]
             /\ UNCHANGED <<day, dates, phase, todo, job, aborts>>

Next == \/ Task \/ Abort \/ Midnight
        \/ \E u \in User :
              \/ CreateSession(u) \/ Expire(u)
              \/ \E d \in Day : DeleteSession(u, d)

Spec == Init /\ [][Next]_vars

\* The worker goes on with the task, and beat sends it again and again.
FairSpec == Spec /\ WF_vars(Task)

-----------------------------------------------------------------------------
(* Properties.                                                              *)

\* The dates a..b are all among S.
Run(a, b, S) == \A d \in a..b : d \in S

\* What is stored as the current streak is the run of days that ends on the
\* date of the computation, no day more and no day less; whoever has not yet
\* read on that date has none.
CurrentExact ==
    [][\A u \in User : streak'[u] \notin {streak[u], None} =>
          LET n == streak'[u].current
          IN  /\ Run(job.today - n + 1, job.today, job.session_dates)
              /\ job.today - n \notin job.session_dates]_vars

\* What is stored as the longest streak is the length of a run of days on
\* which the user read, and no run is longer, the last one included.
LongestExact ==
    [][\A u \in User : streak'[u] \notin {streak[u], None} =>
          LET n == streak'[u].longest
          IN  /\ n >= 1
              /\ \E a \in job.session_dates : Run(a, a + n - 1, job.session_dates)
              /\ \A a, b \in Day : Run(a, b, job.session_dates) => b - a < n]_vars

\* A user who has sessions is given a streak, unless the sessions are deleted
\* meanwhile, whatever the others have and however often a run fails.
EveryoneComputed ==
    \A u \in User : dates[u] # {} ~> streak[u] # None \/ dates[u] = {}

-----------------------------------------------------------------------------
(* The inductive invariant.                                                 *)

Working == phase \notin {"idle", "user"}

\* Between two users nothing is remembered; a user at work has read.
JobOK == IF Working THEN job.user \in User /\ job.session_dates # {}
                    ELSE job = NoJob

TodayOK == phase = "today" => job.current = 0

\* check_date is the date before the days that were counted.
CountOK ==
    phase \in {"count", "scan", "store"} =>
       /\ job.check_date = job.today - job.current
       /\ Run(job.check_date + 1, job.today, job.session_dates)
       /\ phase # "count" => job.check_date \notin job.session_dates

\* Runs that end no later than d are no longer than n.
AtMost(n, d) ==
    \A a, b \in Day : b <= d /\ Run(a, b, job.session_dates) => b - a < n

Longest(n) == n >= 1 => \E a \in job.session_dates : Run(a, a + n - 1, job.session_dates)

\* temp is the run that ends at the date reached, longest one that ended
\* before, and no run so far is longer than both.
ScanOK ==
    /\ phase = "scan" =>
          /\ job.at \in job.session_dates /\ job.temp >= 1
          /\ Run(job.at - job.temp + 1, job.at, job.session_dates)
          /\ job.at - job.temp \notin job.session_dates
          /\ Longest(job.longest)
          /\ AtMost(Larger(job.longest, job.temp), job.at)
    /\ phase = "store" =>
          /\ job.longest >= 1 /\ Longest(job.longest)
          /\ AtMost(job.longest, job.at)
          /\ \A d \in job.session_dates : d <= job.at

SInv == TypeOK /\ JobOK /\ TodayOK /\ CountOK /\ ScanOK
=============================================================================
