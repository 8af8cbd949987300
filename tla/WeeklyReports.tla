---------------------------- MODULE WeeklyReports ----------------------------
(***************************************************************************)
(* send_weekly_reports_to_all_users: beat sends one message a week, whose  *)
(* task mails every user in turn and counts what send_email answers.       *)
(*                                                                         *)
(* The message is acknowledged when the task ends (task_acks_late), so the *)
(* broker, Redis, may deliver it again: each delivery is a copy here.      *)
(***************************************************************************)
EXTENDS Integers, FiniteSets

CONSTANTS User,
          MaxCopies,  \* bound of the model: deliveries of messages
          Enabled,    \* settings.email_enabled
          MaxWeeks,   \* bound of the model: messages that beat sends
          MaxFaults,  \* bound of the model: failures and redeliveries
          None        \* no user

ASSUME EnabledAssumption == Enabled \in BOOLEAN
ASSUME BoundAssumption == MaxWeeks \in Nat /\ MaxFaults \in Nat /\ MaxCopies \in Nat
ASSUME NoneAssumption == None \notin User
ASSUME FiniteAssumption == IsFiniteSet(User)

VARIABLES
    users,   \* committed rows of users
    week,    \* messages that beat has sent
    copy,    \* the deliveries
    faults,  \* failures and redeliveries so far
    mails,   \* how many reports the SMTP server has taken for a user in the
             \* run of a week
    due,     \* the users at the time of each message (history)
    failed   \* weeks in which a run was ended by an exception, a dead child
             \* or the time limit (history)

vars == <<users, week, copy, faults, mails, due, failed>>

Week == 1..MaxWeeks
Copy == 1..MaxCopies

\* unacked: the broker may deliver the message again.  selected: what the
\* SELECT returned; todo: users still to come; at: the user of the moment;
\* accepted: the SMTP server has taken that user's report; mailed: users
\* whose report it has taken from this copy (history).
Delivery == [state: {"none", "queued", "running", "ended", "died"},
             week: 0..MaxWeeks, unacked: BOOLEAN,
             selected: SUBSET User, todo: SUBSET User, at: User \cup {None},
             accepted: BOOLEAN, sent: Nat, failed: Nat, mailed: SUBSET User]
NoDelivery == [state |-> "none", week |-> 0, unacked |-> FALSE,
               selected |-> {}, todo |-> {}, at |-> None, accepted |-> FALSE,
               sent |-> 0, failed |-> 0, mailed |-> {}]

TypeOK == /\ users \subseteq User
          /\ week \in 0..MaxWeeks
          /\ copy \in [Copy -> Delivery]
          /\ faults \in 0..MaxFaults
          /\ mails \in [Week -> [User -> Nat]]
          /\ due \in [Week -> SUBSET User]
          /\ failed \subseteq Week

Init == /\ users \in SUBSET User
        /\ week = 0
        /\ copy = [c \in Copy |-> NoDelivery]
        /\ faults = 0
        /\ mails = [w \in Week |-> [u \in User |-> 0]]
        /\ due = [w \in Week |-> {}]
        /\ failed = {}

Fault == faults < MaxFaults /\ faults' = faults + 1

Queued(w) == [NoDelivery EXCEPT !.state = "queued", !.week = w]

\* Deliveries are numbered in their order.
Fresh(c) == copy[c].state = "none" /\ \A d \in Copy : d < c => copy[d].state # "none"

Register(u) ==
    /\ u \notin users
    /\ users' = users \cup {u}
    /\ UNCHANGED <<week, copy, faults, mails, due, failed>>

\* Every 604800 seconds.
Beat(c) ==
    /\ week < MaxWeeks /\ Fresh(c)
    /\ week' = week + 1
    /\ copy' = [copy EXCEPT ![c] = Queued(week + 1)]
    /\ due' = [due EXCEPT ![week + 1] = users]
    /\ UNCHANGED <<users, faults, mails, failed>>

-----------------------------------------------------------------------------
(* The task.                                                                *)

\* Mutant: task_acks_late is not set.
BeginAcked(c) ==
    /\ copy[c].state = "queued"
    /\ copy' = [copy EXCEPT ![c].state = "running",
                            ![c].selected = users, ![c].todo = users]
    /\ UNCHANGED <<users, week, faults, mails, due, failed>>

\* A worker fetches the message and selects the users.
Begin(c) ==
    /\ copy[c].state = "queued"
    /\ copy' = [copy EXCEPT ![c].state = "running", ![c].unacked = TRUE,
                            ![c].selected = users, ![c].todo = users]
    /\ UNCHANGED <<users, week, faults, mails, due, failed>>

\* Mutant: the loop does not go on to the next user.
TakeAgain(c, u) ==
    /\ copy[c].state = "running" /\ copy[c].at = None /\ u \in copy[c].todo
    /\ copy' = [copy EXCEPT ![c].at = u]
    /\ UNCHANGED <<users, week, faults, mails, due, failed>>

\* generate_weekly_report(u): the SELECTs and the text.
Take(c, u) ==
    /\ copy[c].state = "running" /\ copy[c].at = None /\ u \in copy[c].todo
    /\ copy' = [copy EXCEPT ![c].at = u, ![c].todo = @ \ {u}]
    /\ UNCHANGED <<users, week, faults, mails, due, failed>>

\* aiosmtplib.send: the server takes the mail.
Deliver(c) ==
    /\ copy[c].state = "running" /\ copy[c].at # None
    /\ Enabled /\ ~copy[c].accepted
    /\ mails' = [mails EXCEPT ![copy[c].week][copy[c].at] = @ + 1]
    /\ copy' = [copy EXCEPT ![c].accepted = TRUE, ![c].mailed = @ \cup {copy[c].at}]
    /\ UNCHANGED <<users, week, faults, due, failed>>

\* send_email is True: the mail was taken, or nothing is sent at all.
Sent(c) ==
    /\ copy[c].state = "running" /\ copy[c].at # None
    /\ Enabled => copy[c].accepted
    /\ copy' = [copy EXCEPT ![c].at = None, ![c].accepted = FALSE,
                            ![c].sent = @ + 1]
    /\ UNCHANGED <<users, week, faults, mails, due, failed>>

\* Mutant: a user whose mail failed is tried again later.
NotSentRetry(c) ==
    /\ copy[c].state = "running" /\ copy[c].at # None /\ Enabled
    /\ copy' = [copy EXCEPT ![c].at = None, ![c].accepted = FALSE,
                            ![c].todo = @ \cup {copy[c].at}]
    /\ UNCHANGED <<users, week, faults, mails, due, failed>>

\* Mutant: failures are not counted.
NotSentUncounted(c) ==
    /\ copy[c].state = "running" /\ copy[c].at # None /\ Enabled
    /\ copy' = [copy EXCEPT ![c].at = None, ![c].accepted = FALSE]
    /\ UNCHANGED <<users, week, faults, mails, due, failed>>

\* send_email is False after any exception, a timeout after the server has
\* taken the mail included.
NotSent(c) ==
    /\ copy[c].state = "running" /\ copy[c].at # None /\ Enabled
    /\ copy' = [copy EXCEPT ![c].at = None, ![c].accepted = FALSE,
                            ![c].failed = @ + 1]
    /\ UNCHANGED <<users, week, faults, mails, due, failed>>

\* The task returns its summary and the message is acknowledged.
Finish(c) ==
    /\ copy[c].state = "running" /\ copy[c].at = None /\ copy[c].todo = {}
    /\ copy' = [copy EXCEPT ![c].state = "ended", ![c].unacked = FALSE]
    /\ UNCHANGED <<users, week, faults, mails, due, failed>>

\* The database raises, the child process dies or the hour of task_time_limit
\* is over: the task fails, and its message is acknowledged all the same.
Raise(c) ==
    /\ copy[c].state = "running" /\ Fault
    /\ copy' = [copy EXCEPT ![c].state = "died", ![c].unacked = FALSE]
    /\ failed' = failed \cup {copy[c].week}
    /\ UNCHANGED <<users, week, mails, due>>

\* The worker dies as a whole and acknowledges nothing.
WorkerDies(c) ==
    /\ copy[c].state = "running" /\ Fault
    /\ copy' = [copy EXCEPT ![c].state = "died"]
    /\ UNCHANGED <<users, week, mails, due, failed>>

\* The visibility timeout of an hour is over: the message goes back to the
\* queue, also when the task still runs.
Restore(c, d) ==
    /\ copy[c].unacked /\ Fresh(d)
    /\ copy[c].state = "running" => faults < MaxFaults
    /\ faults' = IF copy[c].state = "running" THEN faults + 1 ELSE faults
    /\ copy' = [copy EXCEPT ![c].unacked = FALSE, ![d] = Queued(copy[c].week)]
    /\ UNCHANGED <<users, week, mails, due, failed>>

Work(c) == \/ Begin(c) \/ Sent(c) \/ NotSent(c) \/ Finish(c)
           \/ \E u \in User : Take(c, u)

Redeliver(c) == copy[c].state = "died" /\ \E d \in Copy : Restore(c, d)

Next == \/ \E u \in User : Register(u)
        \/ \E c \in Copy :
              \/ Beat(c) \/ Work(c) \/ Deliver(c) \/ Raise(c) \/ WorkerDies(c)
              \/ \E d \in Copy : Restore(c, d)

Spec == Init /\ [][Next]_vars

\* Workers run what is queued, send_email has a timeout, and the broker
\* delivers again what a dead worker held.
FairSpec == Spec /\ \A c \in Copy : WF_vars(Work(c)) /\ WF_vars(Redeliver(c))

-----------------------------------------------------------------------------
(* Properties.                                                              *)

CopiesOf(w) == {c \in Copy : copy[c].week = w}

\* A user gets no more reports for a week than the message was delivered:
\* one, unless the broker has delivered it again.
ReportOnce ==
    \A w \in Week, u \in User : mails[w][u] <= Cardinality(CopiesOf(w))

Settled(w) == \A c \in CopiesOf(w) :
                 copy[c].state \in {"ended", "died"} /\ ~copy[c].unacked

\* Once nothing of a week's message is left, some run has been through all
\* users that were there when it was sent, unless a run has failed; the death
\* of a worker leaves nobody out.
NobodyLeftOut ==
    \A w \in 1..week : Settled(w) /\ w \notin failed =>
       \E c \in CopiesOf(w) : copy[c].state = "ended" /\ due[w] \subseteq copy[c].selected

\* The summary of a run counts every user once, and no more as sent than
\* there are users whose report was taken.
SummaryTrue ==
    [][\A c \in Copy : Finish(c) =>
          /\ copy[c].sent + copy[c].failed = Cardinality(copy[c].selected)
          /\ Enabled => copy[c].sent <= Cardinality(copy[c].mailed)]_vars

\* Every message is dealt with in the end, however many users' mails fail.
Settles == \A w \in Week : w <= week ~> Settled(w)

-----------------------------------------------------------------------------
(* The inductive invariant.                                                 *)

\* Copies exist for weeks that have come, and only running or died ones are
\* unacknowledged.
CopiesOK ==
    \A c \in Copy :
       /\ copy[c].state = "none" => copy[c] = NoDelivery
       /\ copy[c].state # "none" => copy[c].week \in 1..week
       /\ copy[c].state = "queued" => copy[c] = Queued(copy[c].week)
       /\ copy[c].unacked => copy[c].state \in {"running", "died"}

\* A run has counted whom it has seen.
Counted(c) == copy[c].selected \ (copy[c].todo \cup {copy[c].at})
RunsOK ==
    \A c \in Copy :
       /\ copy[c].todo \subseteq copy[c].selected
       /\ copy[c].at # None => copy[c].at \in copy[c].selected \ copy[c].todo
       /\ copy[c].accepted <=> copy[c].at # None /\ copy[c].at \in copy[c].mailed
       /\ copy[c].mailed \subseteq copy[c].selected \ copy[c].todo
       /\ copy[c].sent + copy[c].failed = Cardinality(Counted(c))
       /\ Enabled => copy[c].sent <= Cardinality(copy[c].mailed \ {copy[c].at})
       /\ copy[c].state = "ended" => copy[c].todo = {} /\ copy[c].at = None

Mailing(w, u) == {c \in CopiesOf(w) : u \in copy[c].mailed}
MailsOK == \A w \in Week, u \in User : mails[w][u] = Cardinality(Mailing(w, u))

\* Of a week without a failed run there is a copy that is at its end or for
\* which, whatever becomes of it, the message is not lost.
WeeksOK ==
    \A w \in 1..week :
       w \in failed \/ \E c \in CopiesOf(w) :
          copy[c].state \in {"queued", "ended"} \/ copy[c].unacked
DueOK == \A w \in Week : due[w] \subseteq users /\ (w > week => due[w] = {})
SelectedOK ==
    \A c \in Copy : copy[c].state \in {"running", "ended", "died"} =>
       due[copy[c].week] \subseteq copy[c].selected

WInv == /\ TypeOK /\ CopiesOK /\ RunsOK /\ MailsOK
        /\ WeeksOK /\ DueOK /\ SelectedOK
=============================================================================
