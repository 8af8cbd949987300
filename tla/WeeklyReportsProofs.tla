------------------------- MODULE WeeklyReportsProofs -------------------------
(***************************************************************************)
(* WeeklyReports for any users, deliveries and failures.                   *)
(***************************************************************************)
EXTENDS WeeklyReports, FiniteSetTheorems, TLAPS

LEMMA Bounds ==
    /\ MaxWeeks \in Nat /\ MaxCopies \in Nat /\ MaxFaults \in Nat
    /\ Week \subseteq Nat \ {0} /\ Copy \subseteq Nat
BY BoundAssumption DEF Week, Copy

\* Sets of users, and what one user more or less makes of their size.
LEMMA UserSets ==
    ASSUME NEW S \in SUBSET User
    PROVE  /\ IsFiniteSet(S) /\ Cardinality(S) \in Nat
           /\ S \ {None} = S
           /\ \A u \in S : Cardinality(S) = Cardinality(S \ {u}) + 1
           /\ \A u : Cardinality(S \ {u}) \in Nat /\ Cardinality(S \ {u}) <= Cardinality(S)
<1>1. IsFiniteSet(S)
  BY FiniteAssumption, FS_Subset
<1>2. Cardinality(S) \in Nat
  BY <1>1, FS_CardinalityType
<1>3. ASSUME NEW u
      PROVE  /\ Cardinality(S \ {u}) = IF u \in S THEN Cardinality(S) - 1 ELSE Cardinality(S)
             /\ Cardinality(S \ {u}) \in Nat
  <2>1. IsFiniteSet(S \ {u})
    BY <1>1, FS_RemoveElement
  <2>2. Cardinality(S \ {u}) \in Nat
    BY <2>1, FS_CardinalityType
  <2> QED
    BY <1>1, <2>2, FS_RemoveElement
<1> QED
  BY <1>1, <1>2, <1>3, NoneAssumption

LEMMA CopySets ==
    ASSUME NEW S \in SUBSET Copy
    PROVE  IsFiniteSet(S) /\ Cardinality(S) \in Nat
<1>1. 1 \in Int /\ MaxCopies \in Int
  BY Bounds
<1>2. IsFiniteSet(Copy)
  BY <1>1, FS_Interval DEF Copy
<1>3. IsFiniteSet(S)
  BY <1>2, FS_Subset
<1> QED
  BY <1>3, FS_CardinalityType

LEMMA DeliveryFacts ==
    ASSUME NEW x \in Delivery
    PROVE  /\ x.state \in {"none", "queued", "running", "ended", "died"}
           /\ x.week \in 0..MaxWeeks /\ x.unacked \in BOOLEAN
           /\ x.selected \subseteq User /\ x.todo \subseteq User
           /\ x.at \in User \cup {None} /\ x.accepted \in BOOLEAN
           /\ x.sent \in Nat /\ x.failed \in Nat /\ x.mailed \subseteq User
BY DEF Delivery

LEMMA NoDeliveryFacts ==
    /\ NoDelivery \in Delivery
    /\ NoDelivery.state = "none" /\ NoDelivery.week = 0 /\ ~NoDelivery.unacked
    /\ NoDelivery.selected = {} /\ NoDelivery.todo = {} /\ NoDelivery.at = None
    /\ NoDelivery.accepted = FALSE /\ NoDelivery.sent = 0 /\ NoDelivery.failed = 0
    /\ NoDelivery.mailed = {}
BY Bounds DEF NoDelivery, Delivery

LEMMA QueuedFacts ==
    ASSUME NEW w \in 0..MaxWeeks
    PROVE  /\ Queued(w) \in Delivery
           /\ Queued(w).state = "queued" /\ Queued(w).week = w /\ Queued(w).unacked = FALSE
           /\ Queued(w).selected = {} /\ Queued(w).todo = {} /\ Queued(w).at = None
           /\ Queued(w).accepted = FALSE /\ Queued(w).sent = 0 /\ Queued(w).failed = 0
           /\ Queued(w).mailed = {}
BY DEF Queued, NoDelivery, Delivery

-----------------------------------------------------------------------------
(* The invariant, delivery by delivery.                                     *)

CopyOK(x) == /\ x.state = "none" => x = NoDelivery
             /\ x.state # "none" => x.week \in 1..week
             /\ x.state = "queued" => x = Queued(x.week)
             /\ x.unacked => x.state \in {"running", "died"}

RunOK(x) == /\ x.todo \subseteq x.selected
            /\ x.at # None => x.at \in x.selected \ x.todo
            /\ x.accepted <=> (x.at # None /\ x.at \in x.mailed)
            /\ x.mailed \subseteq x.selected \ x.todo
            /\ x.sent + x.failed = Cardinality(x.selected \ (x.todo \cup {x.at}))
            /\ Enabled => x.sent <= Cardinality(x.mailed \ {x.at})
            /\ x.state = "ended" => x.todo = {} /\ x.at = None

ChosenOK(x) == x.state \in {"running", "ended", "died"} => due[x.week] \subseteq x.selected

\* The message of such a delivery is not lost.
Safe(x) == x.state \in {"queued", "ended"} \/ x.unacked

LEMMA ByDelivery ==
    WInv <=> /\ TypeOK /\ MailsOK /\ DueOK
             /\ \A c \in Copy : CopyOK(copy[c]) /\ RunOK(copy[c]) /\ ChosenOK(copy[c])
             /\ \A w \in 1..week :
                   w \in failed \/ \E c \in Copy : copy[c].week = w /\ Safe(copy[c])
<1>1. CopiesOK /\ RunsOK /\ SelectedOK <=>
        \A c \in Copy : CopyOK(copy[c]) /\ RunOK(copy[c]) /\ ChosenOK(copy[c])
  BY DEF CopiesOK, CopyOK, RunsOK, RunOK, Counted, SelectedOK, ChosenOK
<1>2. WeeksOK <=> \A w \in 1..week :
                     w \in failed \/ \E c \in Copy : copy[c].week = w /\ Safe(copy[c])
  BY DEF WeeksOK, CopiesOf, Safe
<1> QED
  BY <1>1, <1>2 DEF WInv

\* .. and of the next state.
LEMMA NextByDelivery ==
    ASSUME TypeOK', MailsOK', DueOK',
           \A c \in Copy : (CopyOK(copy[c]) /\ RunOK(copy[c]) /\ ChosenOK(copy[c]))',
           \A w \in 1..week' :
              w \in failed' \/ \E c \in Copy : copy'[c].week = w /\ Safe(copy[c])'
    PROVE  WInv'
<1>1. /\ TypeOK' /\ MailsOK' /\ DueOK'
      /\ (\A c \in Copy : CopyOK(copy[c]) /\ RunOK(copy[c]) /\ ChosenOK(copy[c]))'
      /\ (\A w \in 1..week :
            w \in failed \/ \E c \in Copy : copy[c].week = w /\ Safe(copy[c]))'
  OBVIOUS
<1> QED
  BY <1>1, ByDelivery, PTL

\* An empty run is in order.
LEMMA EmptyRun ==
    ASSUME NEW x, x.state # "ended", x.todo = {}, x.selected = {}, x.at = None,
           x.accepted = FALSE,
           x.sent = 0, x.failed = 0, x.mailed = {}
    PROVE  RunOK(x)
<1>1. Cardinality(x.selected \ (x.todo \cup {x.at})) = 0 /\ Cardinality(x.mailed \ {x.at}) = 0
  BY FS_EmptySet
<1> QED
  BY <1>1 DEF RunOK

LEMMA InitInv == Init => WInv
<1> SUFFICES ASSUME Init PROVE WInv
  OBVIOUS
<1>1. week = 0 /\ failed = {} /\ \A c \in Copy : copy[c] = NoDelivery
  BY DEF Init
<1>2. TypeOK /\ DueOK
  BY <1>1, Bounds, NoDeliveryFacts DEF Init, TypeOK, DueOK
<1>3. MailsOK
  <2>1. \A w \in Week, u \in User : Mailing(w, u) = {} /\ mails[w][u] = 0
    BY <1>1, NoDeliveryFacts DEF Init, Mailing, CopiesOf
  <2> QED
    BY <2>1, FS_EmptySet DEF MailsOK
<1>4. CopyOK(NoDelivery) /\ ChosenOK(NoDelivery)
  BY NoDeliveryFacts DEF CopyOK, ChosenOK
<1>5. RunOK(NoDelivery)
  BY NoDeliveryFacts, EmptyRun
<1> QED
  BY <1>1, <1>2, <1>3, <1>4, <1>5, ByDelivery

\* A step that changes one delivery of a message, whose own order it keeps.
LEMMA DeliveryInv ==
    ASSUME WInv, NEW c \in Copy, NEW x \in Delivery, copy' = [copy EXCEPT ![c] = x],
           copy[c].state # "none", x.state \notin {"none", "queued"},
           x.week = copy[c].week,
           x.unacked => x.state \in {"running", "died"},
           RunOK(x), ChosenOK(x),
           UNCHANGED <<users, week, due>>, faults' \in 0..MaxFaults,
           failed \subseteq failed', failed' \subseteq Week,
           Safe(copy[c]) => Safe(x) \/ x.week \in failed',
           mails' \in [Week -> [User -> Nat]], MailsOK'
    PROVE  WInv'
<1>1. /\ TypeOK /\ DueOK
      /\ \A d \in Copy : CopyOK(copy[d]) /\ RunOK(copy[d]) /\ ChosenOK(copy[d])
      /\ \A w \in 1..week : w \in failed \/ \E d \in Copy : copy[d].week = w /\ Safe(copy[d])
  BY ByDelivery
<1>2. copy'[c] = x /\ \A d \in Copy : d # c => copy'[d] = copy[d]
  BY <1>1 DEF TypeOK
<1>3. TypeOK' /\ DueOK'
  BY <1>1 DEF TypeOK, DueOK
<1>4. ASSUME NEW d \in Copy PROVE (CopyOK(copy[d]) /\ RunOK(copy[d]) /\ ChosenOK(copy[d]))'
  <2>1. CASE d = c
    BY <1>1, <1>2, <2>1 DEF CopyOK, RunOK, ChosenOK
  <2>2. CASE d # c
    <3>1. copy'[d] = copy[d] /\ CopyOK(copy[d]) /\ RunOK(copy[d]) /\ ChosenOK(copy[d])
      BY <1>1, <1>2, <2>2
    <3>2. CopyOK(copy[d])'
      BY <3>1 DEF CopyOK
    <3>3. RunOK(copy[d])'
      BY <3>1 DEF RunOK
    <3>4. ChosenOK(copy[d])'
      BY <3>1 DEF ChosenOK
    <3> QED
      BY <3>2, <3>3, <3>4
  <2> QED
    BY <2>1, <2>2
<1>5. ASSUME NEW w \in 1..week'
      PROVE  w \in failed' \/ \E d \in Copy : copy'[d].week = w /\ Safe(copy'[d])
  <2>1. CASE w \in failed
    BY <2>1
  <2>2. CASE w \notin failed
    <3>1. PICK d \in Copy : copy[d].week = w /\ Safe(copy[d])
      BY <1>1, <2>2
    <3> QED
      BY <1>2, <3>1
  <2> QED
    BY <2>1, <2>2
<1> QED
  BY <1>3, <1>4, <1>5, NextByDelivery DEF Safe

\* Reports that were taken stay counted when no delivery forgets its own.
LEMMA MailsStay ==
    ASSUME MailsOK, UNCHANGED mails,
           \A d \in Copy : \/ copy'[d].week = copy[d].week /\ copy'[d].mailed = copy[d].mailed
                           \/ copy'[d].mailed = {} /\ copy[d].mailed = {}
    PROVE  MailsOK'
<1>1. \A w \in Week, u \in User : Mailing(w, u)' = Mailing(w, u)
  BY DEF Mailing, CopiesOf
<1> QED
  BY <1>1 DEF MailsOK

-----------------------------------------------------------------------------
(* The steps of the task.                                                   *)

\* What the invariant says of a delivery that is at work.
LEMMA Running ==
    ASSUME WInv, NEW c \in Copy, copy[c].state = "running"
    PROVE  /\ copy \in [Copy -> Delivery] /\ copy[c] \in Delivery
           /\ copy[c].week \in 1..week /\ copy[c].week \in Week
           /\ RunOK(copy[c]) /\ due[copy[c].week] \subseteq copy[c].selected
           /\ faults \in 0..MaxFaults /\ failed \subseteq Week /\ Enabled \in BOOLEAN
           /\ mails \in [Week -> [User -> Nat]] /\ MailsOK
<1>1. TypeOK /\ CopyOK(copy[c]) /\ RunOK(copy[c]) /\ ChosenOK(copy[c]) /\ MailsOK
  BY ByDelivery
<1>2. copy[c] \in Delivery /\ copy[c].week \in 1..week /\ week \in 0..MaxWeeks
  BY <1>1 DEF TypeOK, CopyOK
<1>3. copy[c].week \in Week
  BY <1>2, Bounds DEF Week
<1> QED
  BY <1>1, <1>2, <1>3, EnabledAssumption DEF TypeOK, ChosenOK

\* A step of a run that ends no run, sends no mail and keeps the message.
LEMMA RunInv ==
    ASSUME WInv, NEW c \in Copy, copy[c].state = "running", NEW x \in Delivery,
           copy' = [copy EXCEPT ![c] = x],
           x.state = "running", x.week = copy[c].week, x.unacked = copy[c].unacked,
           x.selected = copy[c].selected, x.mailed = copy[c].mailed, RunOK(x),
           UNCHANGED <<users, week, faults, mails, due, failed>>
    PROVE  WInv'
<1>1. ChosenOK(x) /\ (Safe(copy[c]) => Safe(x))
  BY Running DEF ChosenOK, Safe
<1>2. MailsOK'
  BY Running, MailsStay
<1> QED
  BY <1>1, <1>2, DeliveryInv, Running

LEMMA TakeInv == ASSUME WInv, NEW c \in Copy, NEW u \in User, Take(c, u) PROVE WInv'
<1> DEFINE y == copy[c]
           x == [y EXCEPT !.at = u, !.todo = y.todo \ {u}]
<1>1. /\ y.state = "running" /\ y.at = None /\ u \in y.todo
      /\ copy' = [copy EXCEPT ![c] = x]
      /\ UNCHANGED <<users, week, faults, mails, due, failed>>
  BY Running DEF Take
<1>2. y \in Delivery /\ RunOK(y)
  BY <1>1, Running
<1>3. /\ x \in Delivery /\ x.state = y.state /\ x.week = y.week /\ x.unacked = y.unacked
      /\ x.selected = y.selected /\ x.mailed = y.mailed /\ x.at = u /\ x.todo = y.todo \ {u}
      /\ x.accepted = y.accepted /\ x.sent = y.sent /\ x.failed = y.failed
  BY <1>2 DEF Delivery
<1> HIDE DEF x
<1>4. x.selected \ (x.todo \cup {x.at}) = y.selected \ (y.todo \cup {y.at})
  BY <1>1, <1>2, <1>3, DeliveryFacts, NoneAssumption
<1>5. x.mailed \ {x.at} = y.mailed \ {y.at}
  BY <1>1, <1>2, <1>3, DeliveryFacts, NoneAssumption DEF RunOK
<1>6. RunOK(x)
  BY <1>1, <1>2, <1>3, <1>4, <1>5, NoneAssumption DEF RunOK
<1> QED
  BY <1>1, <1>3, <1>6, RunInv

LEMMA SentInv == ASSUME WInv, NEW c \in Copy, Sent(c) PROVE WInv'
<1> DEFINE y == copy[c]
           x == [y EXCEPT !.at = None, !.accepted = FALSE, !.sent = y.sent + 1]
<1>1. /\ y.state = "running" /\ y.at # None /\ (Enabled => y.accepted)
      /\ copy' = [copy EXCEPT ![c] = x]
      /\ UNCHANGED <<users, week, faults, mails, due, failed>>
  BY Running DEF Sent
<1>2. y \in Delivery /\ RunOK(y) /\ y.sent \in Nat /\ y.failed \in Nat
  BY <1>1, Running, DeliveryFacts
<1>3. /\ x \in Delivery /\ x.state = y.state /\ x.week = y.week /\ x.unacked = y.unacked
      /\ x.selected = y.selected /\ x.mailed = y.mailed /\ x.at = None /\ x.todo = y.todo
      /\ x.accepted = FALSE /\ x.sent = y.sent + 1 /\ x.failed = y.failed
  <2>1. y.sent + 1 \in Nat
    BY <1>2
  <2> QED
    BY <1>2, <2>1 DEF Delivery
<1> HIDE DEF x
<1>4. Cardinality(x.selected \ (x.todo \cup {x.at})) =
        Cardinality(y.selected \ (y.todo \cup {y.at})) + 1
  <2> DEFINE S == y.selected \ y.todo
  <2>1. S \in SUBSET User /\ y.at \in S
    BY <1>1, <1>2, DeliveryFacts DEF RunOK
  <2>2. /\ x.selected \ (x.todo \cup {x.at}) = S
        /\ y.selected \ (y.todo \cup {y.at}) = S \ {y.at}
    BY <1>3, <2>1, UserSets
  <2> HIDE DEF S
  <2>3. Cardinality(S) = Cardinality(S \ {y.at}) + 1
    BY <2>1, UserSets
  <2> QED
    BY <2>2, <2>3
<1>5. Enabled => x.sent <= Cardinality(x.mailed \ {x.at})
  <2> SUFFICES ASSUME Enabled PROVE x.sent <= Cardinality(x.mailed \ {x.at})
    OBVIOUS
  <2>1. y.mailed \in SUBSET User /\ y.at \in y.mailed
    BY <1>1, <1>2, DeliveryFacts DEF RunOK
  <2>2. /\ x.mailed \ {x.at} = y.mailed
        /\ Cardinality(y.mailed) = Cardinality(y.mailed \ {y.at}) + 1
        /\ Cardinality(y.mailed \ {y.at}) \in Nat
    BY <1>3, <2>1, UserSets
  <2>3. y.sent <= Cardinality(y.mailed \ {y.at})
    BY <1>2 DEF RunOK
  <2> QED
    BY <1>2, <1>3, <2>2, <2>3
<1>6. RunOK(x)
  <2>1. y.sent + y.failed = Cardinality(y.selected \ (y.todo \cup {y.at}))
    BY <1>2 DEF RunOK
  <2>2. x.sent + x.failed = Cardinality(x.selected \ (x.todo \cup {x.at}))
    BY <1>2, <1>3, <1>4, <2>1
  <2> QED
    BY <1>1, <1>2, <1>3, <1>5, <2>2 DEF RunOK
<1> QED
  BY <1>1, <1>3, <1>6, RunInv

LEMMA NotSentInv == ASSUME WInv, NEW c \in Copy, NotSent(c) PROVE WInv'
<1> DEFINE y == copy[c]
           x == [y EXCEPT !.at = None, !.accepted = FALSE, !.failed = y.failed + 1]
<1>1. /\ y.state = "running" /\ y.at # None
      /\ copy' = [copy EXCEPT ![c] = x]
      /\ UNCHANGED <<users, week, faults, mails, due, failed>>
  BY Running DEF NotSent
<1>2. y \in Delivery /\ RunOK(y) /\ y.sent \in Nat /\ y.failed \in Nat
  BY <1>1, Running, DeliveryFacts
<1>3. /\ x \in Delivery /\ x.state = y.state /\ x.week = y.week /\ x.unacked = y.unacked
      /\ x.selected = y.selected /\ x.mailed = y.mailed /\ x.at = None /\ x.todo = y.todo
      /\ x.accepted = FALSE /\ x.sent = y.sent /\ x.failed = y.failed + 1
  <2>1. y.failed + 1 \in Nat
    BY <1>2
  <2> QED
    BY <1>2, <2>1 DEF Delivery
<1> HIDE DEF x
<1>4. Cardinality(x.selected \ (x.todo \cup {x.at})) =
        Cardinality(y.selected \ (y.todo \cup {y.at})) + 1
  <2> DEFINE S == y.selected \ y.todo
  <2>1. S \in SUBSET User /\ y.at \in S
    BY <1>1, <1>2, DeliveryFacts DEF RunOK
  <2>2. /\ x.selected \ (x.todo \cup {x.at}) = S
        /\ y.selected \ (y.todo \cup {y.at}) = S \ {y.at}
    BY <1>3, <2>1, UserSets
  <2> HIDE DEF S
  <2>3. Cardinality(S) = Cardinality(S \ {y.at}) + 1
    BY <2>1, UserSets
  <2> QED
    BY <2>2, <2>3
<1>5. Enabled => x.sent <= Cardinality(x.mailed \ {x.at})
  <2> SUFFICES ASSUME Enabled PROVE x.sent <= Cardinality(x.mailed \ {x.at})
    OBVIOUS
  <2>1. y.mailed \in SUBSET User /\ y.sent <= Cardinality(y.mailed \ {y.at})
    BY <1>2, DeliveryFacts DEF RunOK
  <2>2. /\ x.mailed \ {x.at} = y.mailed
        /\ Cardinality(y.mailed \ {y.at}) <= Cardinality(y.mailed)
        /\ Cardinality(y.mailed \ {y.at}) \in Nat /\ Cardinality(y.mailed) \in Nat
    BY <1>3, <2>1, UserSets
  <2>3. Cardinality(x.mailed \ {x.at}) = Cardinality(y.mailed)
    BY <2>2
  <2> QED
    BY <1>2, <1>3, <2>1, <2>2, <2>3
<1>6. RunOK(x)
  <2>1. y.sent + y.failed = Cardinality(y.selected \ (y.todo \cup {y.at}))
    BY <1>2 DEF RunOK
  <2>2. x.sent + x.failed = Cardinality(x.selected \ (x.todo \cup {x.at}))
    BY <1>2, <1>3, <1>4, <2>1
  <2> QED
    BY <1>1, <1>2, <1>3, <1>5, <2>2 DEF RunOK
<1> QED
  BY <1>1, <1>3, <1>6, RunInv

LEMMA DeliverInv == ASSUME WInv, NEW c \in Copy, Deliver(c) PROVE WInv'
<1> DEFINE y == copy[c]
           x == [y EXCEPT !.accepted = TRUE, !.mailed = y.mailed \cup {y.at}]
<1>1. /\ y.state = "running" /\ y.at # None /\ ~y.accepted
      /\ copy' = [copy EXCEPT ![c] = x]
      /\ mails' = [mails EXCEPT ![y.week] =
                     [mails[y.week] EXCEPT ![y.at] = mails[y.week][y.at] + 1]]
      /\ UNCHANGED <<users, week, faults, due, failed>>
  BY Running DEF Deliver
<1>2. /\ y \in Delivery /\ RunOK(y) /\ y.at \in User /\ y.week \in Week
      /\ y.at \notin y.mailed
  BY <1>1, Running, DeliveryFacts DEF RunOK
<1>3. /\ x \in Delivery /\ x.state = y.state /\ x.week = y.week /\ x.unacked = y.unacked
      /\ x.selected = y.selected /\ x.mailed = y.mailed \cup {y.at} /\ x.at = y.at
      /\ x.todo = y.todo /\ x.accepted = TRUE /\ x.sent = y.sent /\ x.failed = y.failed
  BY <1>2 DEF Delivery
<1> HIDE DEF x
<1>4. RunOK(x)
  <2>1. x.mailed \ {x.at} = y.mailed \ {y.at}
    BY <1>3
  <2> QED
    BY <1>1, <1>2, <1>3, <2>1 DEF RunOK
<1>5. ChosenOK(x) /\ (Safe(copy[c]) => Safe(x))
  BY <1>1, <1>3, Running DEF ChosenOK, Safe
<1>6. copy'[c] = x /\ \A d \in Copy : d # c => copy'[d] = copy[d]
  BY <1>1, Running
<1>7. /\ mails' \in [Week -> [User -> Nat]]
      /\ mails'[y.week][y.at] = mails[y.week][y.at] + 1
      /\ \A w \in Week, u \in User : <<w, u>> # <<y.week, y.at>> => mails'[w][u] = mails[w][u]
  BY <1>1, <1>2, Running
<1>8. MailsOK'
  <2> SUFFICES ASSUME NEW w \in Week, NEW u \in User
               PROVE  mails'[w][u] = Cardinality(Mailing(w, u)')
    BY DEF MailsOK
  <2>1. Mailing(w, u) \in SUBSET Copy /\ mails[w][u] = Cardinality(Mailing(w, u))
    BY <1>1, Running DEF MailsOK, Mailing, CopiesOf
  <2>2. CASE w = y.week /\ u = y.at
    <3>1. Mailing(w, u)' = Mailing(w, u) \cup {c} /\ c \notin Mailing(w, u)
      BY <1>2, <1>3, <1>6, <2>2 DEF Mailing, CopiesOf
    <3>2. Cardinality(Mailing(w, u) \cup {c}) = Cardinality(Mailing(w, u)) + 1
      BY <2>1, <3>1, CopySets, FS_AddElement
    <3> QED
      BY <1>7, <2>1, <2>2, <3>1, <3>2
  <2>3. CASE <<w, u>> # <<y.week, y.at>>
    <3>1. Mailing(w, u)' = Mailing(w, u)
      BY <1>2, <1>3, <1>6, <2>3 DEF Mailing, CopiesOf
    <3> QED
      BY <1>7, <2>1, <2>3, <3>1
  <2> QED
    BY <2>2, <2>3
<1>9. /\ copy[c].state # "none" /\ x.state \notin {"none", "queued"}
      /\ x.unacked => x.state \in {"running", "died"}
  BY <1>1, <1>3
<1>10. /\ faults' \in 0..MaxFaults /\ failed \subseteq failed' /\ failed' \subseteq Week
       /\ UNCHANGED <<users, week, due>> /\ x.week = copy[c].week
  BY <1>1, <1>3, Running
<1> QED
  BY <1>1, <1>3, <1>4, <1>5, <1>7, <1>8, <1>9, <1>10, DeliveryInv

\* A step that ends a run, in whatever way, and changes nothing else of it.
LEMMA EndInv ==
    ASSUME WInv, NEW c \in Copy, copy[c].state = "running", NEW s \in {"ended", "died"},
           NEW b \in BOOLEAN, b => s = "died",
           copy' = [copy EXCEPT ![c] = [copy[c] EXCEPT !.state = s, !.unacked = b]],
           s = "ended" => copy[c].todo = {} /\ copy[c].at = None,
           UNCHANGED <<users, week, mails, due>>, faults' \in 0..MaxFaults,
           failed \subseteq failed', failed' \subseteq Week,
           copy[c].unacked => s = "ended" \/ b \/ copy[c].week \in failed'
    PROVE  WInv'
<1> DEFINE y == copy[c]
           x == [y EXCEPT !.state = s, !.unacked = b]
<1>1. y \in Delivery /\ RunOK(y) /\ copy \in [Copy -> Delivery]
  BY Running
<1>2. /\ x \in Delivery /\ x.state = s /\ x.week = y.week /\ x.unacked = b
      /\ x.selected = y.selected /\ x.mailed = y.mailed /\ x.at = y.at /\ x.todo = y.todo
      /\ x.accepted = y.accepted /\ x.sent = y.sent /\ x.failed = y.failed
  BY <1>1 DEF Delivery
<1> HIDE DEF x
<1>3. RunOK(x) /\ ChosenOK(x)
  BY <1>1, <1>2, Running DEF RunOK, ChosenOK
<1>4. Safe(y) => Safe(x) \/ x.week \in failed'
  BY <1>2 DEF Safe
<1>5. MailsOK'
  BY <1>1, <1>2, Running, MailsStay
<1>6. copy' = [copy EXCEPT ![c] = x]
  BY DEF x
<1>7. mails' \in [Week -> [User -> Nat]]
  BY Running
<1> QED
  BY <1>2, <1>3, <1>4, <1>5, <1>6, <1>7, DeliveryInv

LEMMA FinishInv == ASSUME WInv, NEW c \in Copy, Finish(c) PROVE WInv'
<1>1. /\ copy[c].state = "running" /\ copy[c].at = None /\ copy[c].todo = {}
      /\ copy' = [copy EXCEPT ![c] = [copy[c] EXCEPT !.state = "ended", !.unacked = FALSE]]
      /\ UNCHANGED <<users, week, faults, mails, due, failed>>
  BY Running DEF Finish
<1> QED
  BY <1>1, EndInv, Running

LEMMA RaiseInv == ASSUME WInv, NEW c \in Copy, Raise(c) PROVE WInv'
<1>1. /\ copy[c].state = "running" /\ faults' = faults + 1 /\ faults < MaxFaults
      /\ copy' = [copy EXCEPT ![c] = [copy[c] EXCEPT !.state = "died", !.unacked = FALSE]]
      /\ failed' = failed \cup {copy[c].week}
      /\ UNCHANGED <<users, week, mails, due>>
  BY Running DEF Raise, Fault
<1>2. faults' \in 0..MaxFaults /\ failed' \subseteq Week
  BY <1>1, Running, Bounds
<1> QED
  BY <1>1, <1>2, EndInv

LEMMA WorkerDiesInv == ASSUME WInv, NEW c \in Copy, WorkerDies(c) PROVE WInv'
<1>1. copy[c].state = "running" /\ copy[c] \in Delivery /\ copy[c].unacked \in BOOLEAN
  BY Running, DeliveryFacts DEF WorkerDies
<1>2. /\ faults' = faults + 1 /\ faults < MaxFaults
      /\ copy' = [copy EXCEPT ![c] = [copy[c] EXCEPT !.state = "died"]]
      /\ UNCHANGED <<users, week, mails, due, failed>>
  BY DEF WorkerDies, Fault
<1>3. faults' \in 0..MaxFaults /\ failed' \subseteq Week
  BY <1>1, <1>2, Running, Bounds
<1>4. [copy[c] EXCEPT !.state = "died"] =
        [copy[c] EXCEPT !.state = "died", !.unacked = copy[c].unacked]
  BY <1>1 DEF Delivery
<1> QED
  BY <1>1, <1>2, <1>3, <1>4, EndInv

LEMMA BeginInv == ASSUME WInv, NEW c \in Copy, Begin(c) PROVE WInv'
<1> DEFINE y == copy[c]
           x == [y EXCEPT !.state = "running", !.unacked = TRUE, !.selected = users,
                          !.todo = users]
<1>1. /\ TypeOK /\ DueOK /\ MailsOK /\ copy \in [Copy -> Delivery] /\ y \in Delivery
      /\ CopyOK(y) /\ RunOK(y)
  BY ByDelivery DEF TypeOK
<1>2. /\ y.state = "queued" /\ copy' = [copy EXCEPT ![c] = x]
      /\ UNCHANGED <<users, week, faults, mails, due, failed>>
  BY <1>1 DEF Begin
<1>3. /\ y.week \in 1..week /\ y.week \in Week /\ y.week \in 0..MaxWeeks
      /\ y.at = None /\ y.accepted = FALSE /\ y.sent = 0 /\ y.failed = 0 /\ y.mailed = {}
  <2>1. y.week \in 1..week /\ y = Queued(y.week) /\ y.week \in 0..MaxWeeks
    BY <1>1, <1>2, DeliveryFacts DEF CopyOK
  <2>2. y.week \in Week
    BY <1>1, <2>1, Bounds DEF TypeOK, Week
  <2> HIDE DEF y
  <2> QED
    BY <2>1, <2>2, QueuedFacts
<1>4. users \subseteq User
  BY <1>1 DEF TypeOK
<1>5. /\ x \in Delivery /\ x.state = "running" /\ x.week = y.week /\ x.unacked = TRUE
      /\ x.selected = users /\ x.mailed = {} /\ x.at = None /\ x.todo = users
      /\ x.accepted = FALSE /\ x.sent = 0 /\ x.failed = 0
  BY <1>1, <1>3, <1>4 DEF Delivery
<1> HIDE DEF x
<1>6. RunOK(x)
  <2>1. x.selected \ (x.todo \cup {x.at}) = {} /\ x.mailed \ {x.at} = {}
    BY <1>5
  <2>2. Cardinality(x.selected \ (x.todo \cup {x.at})) = 0
    BY <2>1, FS_EmptySet
  <2>3. Cardinality(x.mailed \ {x.at}) = 0
    BY <2>1, FS_EmptySet
  <2> QED
    BY <1>5, <2>2, <2>3 DEF RunOK
<1>7. ChosenOK(x)
  BY <1>1, <1>3, <1>5 DEF ChosenOK, DueOK
<1>8. MailsOK'
  BY <1>1, <1>2, <1>3, <1>5, MailsStay
<1>9. Safe(x)
  BY <1>5 DEF Safe
<1>10. /\ mails' \in [Week -> [User -> Nat]] /\ faults' \in 0..MaxFaults
       /\ failed' \subseteq Week
  BY <1>1, <1>2 DEF TypeOK
<1> QED
  BY <1>2, <1>5, <1>6, <1>7, <1>8, <1>9, <1>10, DeliveryInv

-----------------------------------------------------------------------------
(* Users, beat and the broker.                                              *)

\* A step that touches no message.
LEMMA NoMessage ==
    ASSUME WInv, UNCHANGED <<week, copy, faults, mails, due, failed>>,
           users \subseteq users', users' \subseteq User
    PROVE  WInv'
<1>1. TypeOK'
  BY DEF WInv, TypeOK
<1>2. CopiesOK'
  BY DEF WInv, CopiesOK
<1>3. RunsOK'
  BY DEF WInv, RunsOK, Counted
<1>4. MailsOK'
  BY DEF WInv, MailsOK, Mailing, CopiesOf
<1>5. WeeksOK'
  BY DEF WInv, WeeksOK, CopiesOf
<1>6. DueOK' /\ SelectedOK'
  BY DEF WInv, DueOK, SelectedOK
<1> QED
  BY <1>1, <1>2, <1>3, <1>4, <1>5, <1>6 DEF WInv

LEMMA RegisterInv == ASSUME WInv, NEW u \in User, Register(u) PROVE WInv'
BY NoMessage DEF Register, WInv, TypeOK

LEMMA StutterInv == WInv /\ UNCHANGED vars => WInv'
BY NoMessage DEF vars, WInv, TypeOK

\* A new delivery is in order.
LEMMA QueuedOK ==
    ASSUME NEW w \in 1..week, week \in 0..MaxWeeks
    PROVE  CopyOK(Queued(w)) /\ RunOK(Queued(w)) /\ ChosenOK(Queued(w)) /\ Safe(Queued(w))
<1>1. w \in 0..MaxWeeks
  BY Bounds
<1>2. RunOK(Queued(w))
  BY <1>1, QueuedFacts, EmptyRun
<1> QED
  BY <1>1, <1>2, QueuedFacts DEF CopyOK, ChosenOK, Safe

LEMMA BeatInv == ASSUME WInv, NEW c \in Copy, Beat(c) PROVE WInv'
<1>1. /\ TypeOK /\ DueOK /\ MailsOK /\ copy \in [Copy -> Delivery] /\ week \in 0..MaxWeeks
      /\ \A d \in Copy : CopyOK(copy[d]) /\ RunOK(copy[d]) /\ ChosenOK(copy[d])
      /\ \A w \in 1..week : w \in failed \/ \E d \in Copy : copy[d].week = w /\ Safe(copy[d])
  BY ByDelivery DEF TypeOK
<1>2. /\ week < MaxWeeks /\ copy[c].state = "none" /\ week' = week + 1
      /\ copy' = [copy EXCEPT ![c] = Queued(week + 1)]
      /\ due' = [due EXCEPT ![week + 1] = users]
      /\ UNCHANGED <<users, faults, mails, failed>>
  BY DEF Beat, Fresh
<1>3. /\ week + 1 \in 0..MaxWeeks /\ week + 1 \in Week /\ week + 1 \in 1..week'
      /\ week' \in 0..MaxWeeks /\ copy[c] = NoDelivery
  BY <1>1, <1>2, Bounds DEF Week, CopyOK
<1>4. copy'[c] = Queued(week + 1) /\ \A d \in Copy : d # c => copy'[d] = copy[d]
  BY <1>1, <1>2
<1>5. TypeOK'
  BY <1>1, <1>2, <1>3, QueuedFacts DEF TypeOK
<1>6. /\ due'[week + 1] = users
      /\ \A w \in Week : w # week + 1 => due'[w] = due[w]
  BY <1>1, <1>2, <1>3 DEF TypeOK
<1>7. DueOK'
  BY <1>1, <1>2, <1>3, <1>6, Bounds DEF DueOK
<1>8. MailsOK'
  BY <1>1, <1>2, <1>3, <1>4, QueuedFacts, NoDeliveryFacts, MailsStay
<1>9. ASSUME NEW d \in Copy
      PROVE  (CopyOK(copy[d]) /\ RunOK(copy[d]) /\ ChosenOK(copy[d]))'
  <2>1. CASE d = c
    <3>1. (CopyOK(Queued(week)) /\ RunOK(Queued(week)) /\ ChosenOK(Queued(week)))'
      <4>1. /\ Queued(week').state = "queued" /\ Queued(week').week = week'
            /\ Queued(week').unacked = FALSE
        BY <1>3, QueuedFacts
      <4>2. RunOK(Queued(week'))
        BY <1>3, QueuedFacts, EmptyRun
      <4> QED
        BY <1>2, <1>3, <4>1, <4>2 DEF CopyOK, RunOK, ChosenOK
    <3>2. copy'[d] = Queued(week')
      BY <1>2, <1>4, <2>1
    <3> QED
      BY <3>1, <3>2 DEF CopyOK, RunOK, ChosenOK
  <2>2. CASE d # c
    <3>1. copy'[d] = copy[d] /\ CopyOK(copy[d]) /\ RunOK(copy[d]) /\ ChosenOK(copy[d])
      BY <1>1, <1>4, <2>2
    <3>2. CopyOK(copy[d])'
      BY <1>1, <1>2, <3>1 DEF CopyOK
    <3>3. RunOK(copy[d])'
      BY <3>1 DEF RunOK
    <3>4. ChosenOK(copy[d])'
      BY <1>1, <1>2, <1>3, <1>6, <3>1, Bounds DEF ChosenOK, CopyOK, Week
    <3> QED
      BY <3>2, <3>3, <3>4
  <2> QED
    BY <2>1, <2>2
<1>10. ASSUME NEW w \in 1..week'
       PROVE  w \in failed' \/ \E d \in Copy : copy'[d].week = w /\ Safe(copy'[d])
  <2>1. CASE w = week + 1
    BY <1>3, <1>4, <2>1, QueuedFacts DEF Safe
  <2>2. CASE w # week + 1 /\ w \notin failed
    <3>1. w \in 1..week
      BY <1>1, <1>2, <2>2
    <3>2. PICK d \in Copy : copy[d].week = w /\ Safe(copy[d])
      BY <1>1, <2>2, <3>1
    <3>3. d # c
      BY <1>3, <3>1, <3>2, NoDeliveryFacts
    <3> QED
      BY <1>4, <3>2, <3>3
  <2>3. CASE w \in failed
    BY <1>2, <2>3
  <2> QED
    BY <2>1, <2>2, <2>3
<1> QED
  BY <1>5, <1>7, <1>8, <1>9, <1>10, NextByDelivery DEF Safe

LEMMA RestoreInv ==
    ASSUME WInv, NEW c \in Copy, NEW d \in Copy, Restore(c, d) PROVE WInv'
<1> DEFINE y == copy[c]
           x == [y EXCEPT !.unacked = FALSE]
<1>1. /\ TypeOK /\ DueOK /\ MailsOK /\ copy \in [Copy -> Delivery] /\ week \in 0..MaxWeeks
      /\ \A e \in Copy : CopyOK(copy[e]) /\ RunOK(copy[e]) /\ ChosenOK(copy[e])
      /\ \A w \in 1..week : w \in failed \/ \E e \in Copy : copy[e].week = w /\ Safe(copy[e])
  BY ByDelivery DEF TypeOK
<1>2. /\ y.unacked /\ copy[d].state = "none"
      /\ y.state = "running" => faults < MaxFaults
      /\ faults' = IF y.state = "running" THEN faults + 1 ELSE faults
      /\ UNCHANGED <<users, week, mails, due, failed>>
  BY DEF Restore, Fresh
<1>3. /\ y \in Delivery /\ CopyOK(y) /\ RunOK(y) /\ ChosenOK(y)
      /\ y.state \in {"running", "died"} /\ y.week \in 1..week /\ y.week \in 0..MaxWeeks
      /\ c # d
  BY <1>1, <1>2, DeliveryFacts DEF CopyOK
<1>4. copy' = [copy EXCEPT ![c] = x, ![d] = Queued(y.week)]
  BY <1>1 DEF Restore
<1>5. /\ x \in Delivery /\ x.state = y.state /\ x.week = y.week /\ x.unacked = FALSE
      /\ x.selected = y.selected /\ x.mailed = y.mailed /\ x.at = y.at /\ x.todo = y.todo
      /\ x.accepted = y.accepted /\ x.sent = y.sent /\ x.failed = y.failed
  BY <1>3 DEF Delivery
<1> DEFINE q == Queued(y.week)
<1>6. /\ q \in Delivery /\ CopyOK(q) /\ RunOK(q) /\ ChosenOK(q) /\ Safe(q)
      /\ q.week = y.week /\ q.mailed = {}
  BY <1>1, <1>3, QueuedOK, QueuedFacts
<1>7. CopyOK(x) /\ RunOK(x) /\ ChosenOK(x)
  BY <1>3, <1>5 DEF CopyOK, RunOK, ChosenOK
<1>8. copy[d] = NoDelivery
  BY <1>1, <1>2 DEF CopyOK
<1> HIDE DEF x, q
<1>9. /\ copy'[c] = x /\ copy'[d] = q
      /\ \A e \in Copy : e # c /\ e # d => copy'[e] = copy[e]
  BY <1>1, <1>3, <1>4 DEF q
<1>10. TypeOK'
  <2>1. copy' \in [Copy -> Delivery]
    BY <1>1, <1>4, <1>5, <1>6 DEF q
  <2>2. faults' \in 0..MaxFaults
    BY <1>1, <1>2, Bounds DEF TypeOK
  <2> QED
    BY <1>1, <1>2, <2>1, <2>2 DEF TypeOK
<1>11. DueOK'
  BY <1>1, <1>2 DEF DueOK
<1>12. MailsOK'
  BY <1>1, <1>2, <1>5, <1>6, <1>8, <1>9, NoDeliveryFacts, MailsStay
<1>13. ASSUME NEW e \in Copy
       PROVE  (CopyOK(copy[e]) /\ RunOK(copy[e]) /\ ChosenOK(copy[e]))'
  <2>1. CopyOK(copy'[e]) /\ RunOK(copy'[e]) /\ ChosenOK(copy'[e])
    BY <1>1, <1>6, <1>7, <1>9
  <2>2. CopyOK(copy[e])'
    BY <1>2, <2>1 DEF CopyOK
  <2>3. RunOK(copy[e])'
    BY <2>1 DEF RunOK
  <2>4. ChosenOK(copy[e])'
    BY <1>2, <2>1 DEF ChosenOK
  <2> QED
    BY <2>2, <2>3, <2>4
<1>14. ASSUME NEW w \in 1..week', w \notin failed'
       PROVE  \E e \in Copy : copy'[e].week = w /\ Safe(copy'[e])
  <2>1. CASE w = y.week
    BY <1>6, <1>9, <2>1
  <2>2. CASE w # y.week
    <3>1. PICK e \in Copy : copy[e].week = w /\ Safe(copy[e])
      BY <1>1, <1>2, <1>14
    <3>2. e # c /\ e # d
      BY <1>8, <2>2, <3>1, NoDeliveryFacts DEF Safe
    <3> QED
      BY <1>9, <3>1, <3>2
  <2> QED
    BY <2>1, <2>2
<1> QED
  BY <1>10, <1>11, <1>12, <1>13, <1>14, NextByDelivery DEF Safe

-----------------------------------------------------------------------------
(* The theorems.                                                            *)

LEMMA NextInv == WInv /\ [Next]_vars => WInv'
BY StutterInv, RegisterInv, BeatInv, BeginInv, TakeInv, SentInv, NotSentInv, FinishInv,
   DeliverInv, RaiseInv, WorkerDiesInv, RestoreInv DEF Next, Work

\* send_weekly_reports_to_all_users: the invariant of its runs and mails, for
\* any users, failures and redeliveries.
THEOREM ReportsInvariance == Spec => []WInv
BY InitInv, NextInv, PTL DEF Spec

\* A week's message mails a user at most once per delivery.
THEOREM ReportsOnce == Spec => []ReportOnce
<1>1. WInv => ReportOnce
  <2> SUFFICES ASSUME WInv, NEW w \in Week, NEW u \in User
               PROVE  mails[w][u] <= Cardinality(CopiesOf(w))
    BY DEF ReportOnce
  <2>1. /\ Mailing(w, u) \in SUBSET CopiesOf(w) /\ CopiesOf(w) \in SUBSET Copy
        /\ mails[w][u] = Cardinality(Mailing(w, u))
    BY DEF WInv, MailsOK, Mailing, CopiesOf
  <2>2. IsFiniteSet(CopiesOf(w))
    BY <2>1, CopySets
  <2> QED
    BY <2>1, <2>2, FS_Subset
<1> QED
  BY ReportsInvariance, <1>1, PTL

\* The death of a worker leaves no user without a report.
THEOREM ReportsNobodyLeftOut == Spec => []NobodyLeftOut
<1>1. WInv => NobodyLeftOut
  <2> SUFFICES ASSUME WInv, NEW w \in 1..week, Settled(w), w \notin failed
               PROVE  \E c \in CopiesOf(w) : copy[c].state = "ended"
                                             /\ due[w] \subseteq copy[c].selected
    BY DEF NobodyLeftOut
  <2>1. PICK c \in CopiesOf(w) : copy[c].state \in {"queued", "ended"} \/ copy[c].unacked
    BY DEF WInv, WeeksOK
  <2>2. copy[c].state = "ended" /\ copy[c].week = w /\ c \in Copy
    BY <2>1 DEF Settled, CopiesOf
  <2> QED
    BY <2>1, <2>2 DEF WInv, SelectedOK
<1> QED
  BY ReportsInvariance, <1>1, PTL

\* The summary of a run is true.
THEOREM ReportsSummary == Spec => SummaryTrue
<1>1. WInv /\ [Next]_vars =>
        [\A c \in Copy : Finish(c) =>
            /\ copy[c].sent + copy[c].failed = Cardinality(copy[c].selected)
            /\ Enabled => copy[c].sent <= Cardinality(copy[c].mailed)]_vars
  <2> SUFFICES ASSUME WInv, NEW c \in Copy, Finish(c)
               PROVE  /\ copy[c].sent + copy[c].failed = Cardinality(copy[c].selected)
                      /\ Enabled => copy[c].sent <= Cardinality(copy[c].mailed)
    OBVIOUS
  <2>1. /\ copy[c].state = "running" /\ copy[c].at = None /\ copy[c].todo = {}
    BY DEF Finish
  <2>2. copy[c].selected \subseteq User /\ copy[c].mailed \subseteq User
    BY <2>1, Running, DeliveryFacts
  <2>3. /\ copy[c].selected \ (copy[c].todo \cup {copy[c].at}) = copy[c].selected
        /\ copy[c].mailed \ {copy[c].at} = copy[c].mailed
    BY <2>1, <2>2, NoneAssumption
  <2>4. RunOK(copy[c])
    BY <2>1, Running
  <2> QED
    BY <2>3, <2>4 DEF RunOK
<1> QED
  BY ReportsInvariance, <1>1, PTL DEF Spec, SummaryTrue
=============================================================================
