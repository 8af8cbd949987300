---------------------------- MODULE StreaksProofs ----------------------------
(***************************************************************************)
(* Streaks for any users and dates.                                        *)
(***************************************************************************)
EXTENDS Streaks, TLAPS

LEMMA NoJobType == NoJob \in Job
BY DEF NoJob, Job

LEMMA LargerFacts ==
    ASSUME NEW a \in Nat, NEW b \in Nat
    PROVE  /\ Larger(a, b) \in Nat /\ Larger(a, b) >= a /\ Larger(a, b) >= b
           /\ Larger(a, b) = a \/ Larger(a, b) = b
BY DEF Larger

\* What the fields of a job at work are.
LEMMA JobFields ==
    ASSUME SInv
    PROVE  /\ job.session_dates \subseteq Day /\ Day \subseteq Nat
           /\ job.today \in Nat /\ job.check_date \in Int /\ job.current \in Nat
           /\ job.at \in Nat /\ job.temp \in Nat /\ job.longest \in Nat
BY BoundAssumption DEF SInv, TypeOK, Job

\* The two steps of the count keep the fields in their sets.
LEMMA TodayJob ==
    ASSUME NEW j \in Job, NEW d \in Nat
    PROVE  [j EXCEPT !.today = d, !.check_date = d] \in Job
<1>1. d \in Int
  OBVIOUS
<1> QED
  BY <1>1 DEF Job

LEMMA CountJob ==
    ASSUME NEW j \in Job
    PROVE  [j EXCEPT !.current = j.current + 1, !.check_date = j.check_date - 1] \in Job
<1>1. j.current + 1 \in Nat /\ j.check_date - 1 \in Int
  BY DEF Job
<1> QED
  BY <1>1 DEF Job

-----------------------------------------------------------------------------
(* Types, and the job between two users.                                    *)

LEMMA TypeInv == SInv /\ [Next]_vars => TypeOK' /\ JobOK'
<1> SUFFICES ASSUME SInv, [Next]_vars PROVE TypeOK' /\ JobOK'
  OBVIOUS
<1> USE NoJobType, JobFields, BoundAssumption
    DEF SInv, TypeOK, JobOK, Working, Phases
<1>1. CASE Begin \/ Finish \/ Abort \/ \E u \in User : Skip(u)
  BY <1>1 DEF Begin, Finish, Abort, Skip
<1>2. ASSUME NEW u \in User, Look(u) PROVE TypeOK' /\ JobOK'
  <2>1. [NoJob EXCEPT !.user = u, !.session_dates = dates[u]] \in Job
    BY DEF NoJob, Job
  <2>2. job'.user = u /\ job'.session_dates = dates[u]
    BY <1>2 DEF Look, NoJob
  <2> QED
    BY <1>2, <2>1, <2>2 DEF Look
<1>3. CASE Today \/ Count
  <2>1. CASE Today
    <3>1. job' = [job EXCEPT !.today = day, !.check_date = day] /\ day \in Nat
      BY <2>1 DEF Today
    <3>2. job' \in Job
      BY <3>1, TodayJob
    <3>3. job'.user = job.user /\ job'.session_dates = job.session_dates
      BY <3>1 DEF Job
    <3> QED
      BY <2>1, <3>2, <3>3 DEF Today
  <2>2. CASE Count
    <3>1. job' = [job EXCEPT !.current = job.current + 1,
                             !.check_date = job.check_date - 1]
      BY <2>2 DEF Count
    <3>2. job' \in Job
      BY <3>1, CountJob
    <3>3. job'.user = job.user /\ job'.session_dates = job.session_dates
      BY <3>1 DEF Job
    <3> QED
      BY <2>2, <3>2, <3>3 DEF Count
  <2> QED
    BY <1>3, <2>1, <2>2
<1>4. CASE CountEnd \/ ScanEnd \/ \E d \in Day : Scan(d)
  <2>1. CASE CountEnd
    <3>1. PICK d \in job.session_dates :
             job' = [job EXCEPT !.at = d, !.temp = 1, !.longest = 0]
      BY <2>1 DEF CountEnd
    <3> QED
      BY <2>1, <3>1 DEF CountEnd, Job
  <2>2. CASE ScanEnd
    <3>1. Larger(job.longest, job.temp) \in Nat
      BY LargerFacts
    <3> QED
      BY <2>2, <3>1 DEF ScanEnd, Job
  <2>3. ASSUME NEW d \in Day, Scan(d) PROVE TypeOK' /\ JobOK'
    <3>1. Larger(job.longest, job.temp) \in Nat
      BY LargerFacts
    <3>2. d \in Nat /\ job.temp + 1 \in Nat
      OBVIOUS
    <3>3. job' \in Job
      BY <2>3, <3>1, <3>2 DEF Scan, Job
    <3>4. job'.user = job.user /\ job'.session_dates = job.session_dates
      BY <2>3 DEF Scan, Job
    <3> QED
      BY <2>3, <3>3, <3>4 DEF Scan
  <2> QED
    BY <1>4, <2>1, <2>2, <2>3
<1>5. CASE Store
  <2>1. [current |-> job.current, longest |-> job.longest] \in Entry
    BY DEF Entry
  <2> QED
    BY <1>5, <2>1 DEF Store
<1>6. CASE Midnight \/ \E u \in User : CreateSession(u) \/ Expire(u)
                                        \/ \E d \in Day : DeleteSession(u, d)
  BY <1>6 DEF Midnight, CreateSession, Expire, DeleteSession
<1>7. CASE UNCHANGED vars
  BY <1>7 DEF vars
<1> QED
  BY <1>1, <1>2, <1>3, <1>4, <1>5, <1>6, <1>7 DEF Next, Task

-----------------------------------------------------------------------------
(* The current streak.                                                      *)

LEMMA CountInv == SInv /\ [Next]_vars => CountOK'
<1> SUFFICES ASSUME SInv, [Next]_vars PROVE CountOK'
  OBVIOUS
<1> USE DEF CountOK
<1>1. CASE Begin \/ Finish \/ Abort \/ Store \/ \E u \in User : Skip(u) \/ Look(u)
  BY <1>1 DEF Begin, Finish, Abort, Store, Skip, Look, SInv
<1>2. CASE Today
  <2>1. /\ job'.check_date = day /\ job'.today = day /\ job'.current = job.current
        /\ phase' = "count" /\ day \in Nat
    BY <1>2, BoundAssumption DEF Today, SInv, TypeOK, Job
  <2>2. job.current = 0
    BY <1>2 DEF Today, SInv, TodayOK
  <2> QED
    BY <2>1, <2>2 DEF Run
<1>3. CASE Count
  <2> DEFINE S == job.session_dates
             c == job.check_date
  <2>1. /\ job'.check_date = c - 1 /\ job'.current = job.current + 1
        /\ job'.today = job.today /\ job'.session_dates = S
        /\ phase = "count" /\ phase' = "count" /\ c \in S
    BY <1>3 DEF Count, SInv, TypeOK, Job
  <2>2. c = job.today - job.current /\ Run(c + 1, job.today, S)
    BY <2>1 DEF SInv
  <2>3. Run(c, job.today, S)
    BY <2>1, <2>2, JobFields DEF Run
  <2> QED
    BY <2>1, <2>2, <2>3, JobFields
<1>4. CASE CountEnd \/ ScanEnd \/ \E d \in Day : Scan(d)
  <2>1. /\ job'.check_date = job.check_date /\ job'.current = job.current
        /\ job'.today = job.today /\ job'.session_dates = job.session_dates
    BY <1>4 DEF CountEnd, ScanEnd, Scan, SInv, TypeOK, Job
  <2>2. job.check_date \notin job.session_dates /\ phase \in {"count", "scan", "store"}
    BY <1>4 DEF CountEnd, ScanEnd, Scan, SInv
  <2> QED
    BY <2>1, <2>2 DEF SInv
<1>5. CASE Midnight \/ \E u \in User : CreateSession(u) \/ Expire(u)
                                        \/ \E d \in Day : DeleteSession(u, d)
  BY <1>5 DEF Midnight, CreateSession, Expire, DeleteSession, SInv
<1>6. CASE UNCHANGED vars
  BY <1>6 DEF vars, SInv
<1> QED
  BY <1>1, <1>2, <1>3, <1>4, <1>5, <1>6 DEF Next, Task

-----------------------------------------------------------------------------
(* The longest streak.                                                      *)

\* The walk begins at the first date.
LEMMA ScanStarts == SInv /\ CountEnd => ScanOK'
<1> SUFFICES ASSUME SInv, CountEnd PROVE ScanOK'
  OBVIOUS
<1> DEFINE S == job.session_dates
<1>1. PICK d \in S : /\ \A e \in S : d <= e
                     /\ job' = [job EXCEPT !.at = d, !.temp = 1, !.longest = 0]
  BY DEF CountEnd
<1>2. /\ job'.at = d /\ job'.temp = 1 /\ job'.longest = 0 /\ job'.session_dates = S
      /\ phase' = "scan"
  BY <1>1 DEF CountEnd, SInv, TypeOK, Job
<1>3. d \in Nat /\ S \subseteq Nat
  BY JobFields
<1>4. Run(d, d, S) /\ d - 1 \notin S
  BY <1>1, <1>3 DEF Run
<1>5. AtMost(1, d)
  <2> SUFFICES ASSUME NEW a \in Day, NEW b \in Day, b <= d, Run(a, b, S)
               PROVE  b - a < 1
    BY DEF AtMost
  <2>1. a \in Nat /\ b \in Nat
    BY JobFields
  <2> QED
    BY <1>1, <1>3, <2>1 DEF Run
<1> QED
  BY <1>2, <1>3, <1>4, <1>5 DEF ScanOK, AtMost, Longest, Larger

\* One date further: the run goes on, or it has ended.
LEMMA ScanGoesOn == ASSUME SInv, NEW d \in Day, Scan(d) PROVE ScanOK'
<1> DEFINE S == job.session_dates
           at == job.at
           temp == job.temp
           longest == job.longest
<1>1. /\ at \in S /\ temp >= 1 /\ Run(at - temp + 1, at, S) /\ at - temp \notin S
      /\ Longest(longest) /\ AtMost(Larger(longest, temp), at)
  BY DEF SInv, ScanOK, Scan
<1>2. d \in S /\ at < d /\ \A e \in S : at < e => d <= e
  BY DEF Scan
<1>3. S \subseteq Nat /\ Day \subseteq Nat /\ d \in Nat /\ at \in Nat /\ temp \in Nat
      /\ longest \in Nat
  BY JobFields
<1>4. /\ job'.at = d /\ job'.session_dates = S /\ phase' = "scan"
  BY DEF Scan, SInv, TypeOK, Job
<1>5. CASE d - at = 1
  <2>1. job'.temp = temp + 1 /\ job'.longest = longest
    BY <1>5 DEF Scan, SInv, TypeOK, Job
  <2>2. Run(d - (temp + 1) + 1, d, S) /\ d - (temp + 1) \notin S
    BY <1>1, <1>2, <1>3, <1>5 DEF Run
  <2>3. AtMost(Larger(longest, temp + 1), d)
    <3> SUFFICES ASSUME NEW a \in Day, NEW b \in Day, b <= d, Run(a, b, S)
                 PROVE  b - a < Larger(longest, temp + 1)
      BY DEF AtMost
    <3>1. a \in Nat /\ b \in Nat
      BY <1>3
    <3>2. CASE b <= at
      BY <1>1, <1>3, <3>1, <3>2 DEF AtMost, Larger
    <3>3. CASE b > at
      <4>1. b = d
        BY <1>3, <1>5, <3>1, <3>3
      <4>2. ~(at - temp \in a..b)
        BY <1>1 DEF Run
      <4>3. b - a < temp + 1
        BY <1>1, <1>3, <1>5, <3>1, <4>1, <4>2
      <4> QED
        BY <1>3, <3>1, <4>3 DEF Larger
    <3> QED
      BY <1>3, <3>1, <3>2, <3>3
  <2> QED
    BY <1>1, <1>2, <1>3, <1>4, <2>1, <2>2, <2>3 DEF ScanOK, AtMost, Longest
<1>6. CASE d - at # 1
  <2> DEFINE n == Larger(longest, temp)
  <2>1. job'.temp = 1 /\ job'.longest = n
    BY <1>6 DEF Scan, SInv, TypeOK, Job
  <2>2. d - 1 \notin S
    BY <1>2, <1>3, <1>6
  <2>3. Run(d, d, S)
    BY <1>2, <1>3 DEF Run
  <2>4. Longest(n)
    <3>1. at - temp + 1 \in S /\ Run(at - temp + 1, at - temp + 1 + temp - 1, S)
      BY <1>1, <1>3 DEF Run
    <3> QED
      BY <1>1, <3>1 DEF Longest, Larger
  <2>5. n \in Nat
    BY <1>3, LargerFacts
  <2>6. AtMost(Larger(n, 1), d)
    <3> SUFFICES ASSUME NEW a \in Day, NEW b \in Day, b <= d, Run(a, b, S)
                 PROVE  b - a < Larger(n, 1)
      BY DEF AtMost
    <3>1. a \in Nat /\ b \in Nat
      BY <1>3
    <3>2. CASE b <= at
      <4>1. b - a < n
        BY <1>1, <3>2 DEF AtMost
      <4> QED
        BY <2>5, <3>1, <4>1 DEF Larger
    <3>3. CASE b > at
      <4>1. b \in a..b => b \in S
        BY DEF Run
      <4>2. (d - 1) \notin a..b
        BY <2>2 DEF Run
      <4>3. b - a < 1
        BY <1>2, <1>3, <3>1, <3>3, <4>1, <4>2
      <4> QED
        BY <2>5, <3>1, <4>3 DEF Larger
    <3> QED
      BY <1>3, <3>1, <3>2, <3>3
  <2> HIDE DEF n
  <2> QED
    BY <1>2, <1>3, <1>4, <2>1, <2>2, <2>3, <2>4, <2>5, <2>6 DEF ScanOK, AtMost, Longest
<1> QED
  BY <1>5, <1>6

\* After the last date the run of the moment is looked at once more.
LEMMA ScanEnds == SInv /\ ScanEnd => ScanOK'
<1> SUFFICES ASSUME SInv, ScanEnd PROVE ScanOK'
  OBVIOUS
<1> DEFINE S == job.session_dates
           at == job.at
           temp == job.temp
           n == Larger(job.longest, job.temp)
<1>1. /\ at \in S /\ temp >= 1 /\ Run(at - temp + 1, at, S)
      /\ Longest(job.longest) /\ AtMost(n, at)
  BY DEF SInv, ScanOK, ScanEnd
<1>2. at \in Nat /\ temp \in Nat /\ job.longest \in Nat
  BY JobFields
<1>3. /\ job'.at = at /\ job'.longest = n /\ job'.session_dates = S
      /\ phase' = "store" /\ \A d \in S : d <= at
  BY DEF ScanEnd, SInv, TypeOK, Job
<1>4. n \in Nat /\ n >= 1
  BY <1>1, <1>2 DEF Larger
<1>5. Longest(n)
  <2>1. at - temp + 1 \in S /\ Run(at - temp + 1, at - temp + 1 + temp - 1, S)
    BY <1>1, <1>2 DEF Run
  <2> QED
    BY <1>1, <2>1 DEF Longest, Larger
<1> HIDE DEF n
<1> QED
  BY <1>1, <1>3, <1>4, <1>5 DEF ScanOK, AtMost, Longest

LEMMA ScanInv == SInv /\ [Next]_vars => ScanOK'
<1> SUFFICES ASSUME SInv, [Next]_vars PROVE ScanOK'
  OBVIOUS
<1>1. CASE \/ Begin \/ Finish \/ Abort \/ Store \/ Today \/ Count
           \/ \E u \in User : Skip(u) \/ Look(u)
  BY <1>1 DEF Begin, Finish, Abort, Store, Today, Count, Skip, Look, ScanOK
<1>2. CASE CountEnd \/ ScanEnd \/ \E d \in Day : Scan(d)
  BY <1>2, ScanStarts, ScanGoesOn, ScanEnds
<1>3. CASE Midnight \/ \E u \in User : CreateSession(u) \/ Expire(u)
                                        \/ \E d \in Day : DeleteSession(u, d)
  BY <1>3 DEF Midnight, CreateSession, Expire, DeleteSession, SInv, ScanOK,
              AtMost, Longest
<1>4. CASE UNCHANGED vars
  BY <1>4 DEF vars, SInv, ScanOK, AtMost, Longest
<1> QED
  BY <1>1, <1>2, <1>3, <1>4 DEF Next, Task

-----------------------------------------------------------------------------
(* The theorems.                                                            *)

LEMMA InitInv == Init => SInv
BY NoJobType, BoundAssumption
   DEF Init, SInv, TypeOK, Phases, JobOK, Working, CountOK, ScanOK, TodayOK

LEMMA TodayInv == SInv /\ [Next]_vars => TodayOK'
<1> SUFFICES ASSUME SInv, [Next]_vars PROVE TodayOK'
  OBVIOUS
<1> QED
  BY DEF TodayOK, SInv, JobOK, Working, NoJob, Next, Task, vars, Begin, Finish,
         Abort, Store, Today, Count, Skip, Look, CountEnd, ScanEnd, Scan, Midnight,
         CreateSession, Expire, DeleteSession

\* The invariant of the task, for any users, dates and pasts.
THEOREM StreaksInvariance == Spec => []SInv
<1>1. SInv /\ [Next]_vars => SInv'
  BY TypeInv, TodayInv, CountInv, ScanInv DEF SInv
<1> QED
  BY InitInv, <1>1, PTL DEF Spec

\* Only the end of the work on a user stores something.
LEMMA StoreOnly ==
    ASSUME SInv, [Next]_vars, NEW u \in User, streak'[u] \notin {streak[u], None}
    PROVE  /\ phase = "store" /\ u = job.user
           /\ streak'[u].current = job.current /\ streak'[u].longest = job.longest
<1>1. Store
  BY DEF Next, Task, vars, Begin, Finish, Abort, Today, Count, Skip, Look, CountEnd,
         ScanEnd, Scan, Midnight, CreateSession, Expire, DeleteSession, SInv, TypeOK
<1> QED
  BY <1>1 DEF Store, SInv, TypeOK

\* calculate_user_streaks: the current streak is exact for every history.
THEOREM StreaksCurrent == Spec => CurrentExact
<1>1. SInv /\ [Next]_vars =>
        [\A u \in User : streak'[u] \notin {streak[u], None} =>
           LET n == streak'[u].current
           IN  /\ Run(job.today - n + 1, job.today, job.session_dates)
               /\ job.today - n \notin job.session_dates]_vars
  <2> SUFFICES ASSUME SInv, [Next]_vars, NEW u \in User,
                      streak'[u] \notin {streak[u], None}
               PROVE  /\ Run(job.today - streak'[u].current + 1, job.today,
                             job.session_dates)
                      /\ job.today - streak'[u].current \notin job.session_dates
    OBVIOUS
  <2> QED
    BY StoreOnly DEF SInv, CountOK
<1> QED
  BY StreaksInvariance, <1>1, PTL DEF Spec, CurrentExact

\* calculate_user_streaks: the longest streak is exact for every history.
THEOREM StreaksLongest == Spec => LongestExact
<1>1. SInv /\ [Next]_vars =>
        [\A u \in User : streak'[u] \notin {streak[u], None} =>
           LET n == streak'[u].longest
           IN  /\ n >= 1
               /\ \E a \in job.session_dates : Run(a, a + n - 1, job.session_dates)
               /\ \A a, b \in Day : Run(a, b, job.session_dates) => b - a < n]_vars
  <2> SUFFICES ASSUME SInv, [Next]_vars, NEW u \in User,
                      streak'[u] \notin {streak[u], None}
               PROVE  LET n == streak'[u].longest
                      IN  /\ n >= 1
                          /\ \E a \in job.session_dates :
                                Run(a, a + n - 1, job.session_dates)
                          /\ \A a, b \in Day : Run(a, b, job.session_dates) => b - a < n
    OBVIOUS
  <2> DEFINE n == job.longest
             S == job.session_dates
  <2>1. n >= 1 /\ Longest(n) /\ AtMost(n, job.at) /\ \A d \in S : d <= job.at
    BY StoreOnly DEF SInv, ScanOK
  <2>2. ASSUME NEW a \in Day, NEW b \in Day, Run(a, b, S) PROVE b - a < n
    <3>1. a \in Nat /\ b \in Nat /\ n \in Nat
      BY JobFields
    <3>2. CASE a <= b
      <4>1. b \in S
        BY <2>2, <3>1, <3>2 DEF Run
      <4> QED
        BY <2>1, <2>2, <4>1 DEF AtMost
    <3>3. CASE ~(a <= b)
      BY <2>1, <3>1, <3>3
    <3> QED
      BY <3>2, <3>3
  <2> QED
    BY <2>1, <2>2, StoreOnly DEF Longest
<1> QED
  BY StreaksInvariance, <1>1, PTL DEF Spec, LongestExact
=============================================================================
