--------------------------- MODULE RateLimitProofs ---------------------------
(***************************************************************************)
(* RateLimit for any clients, limits, windows and resolution of time.      *)
(***************************************************************************)
EXTENDS RateLimit, FiniteSetTheorems, TLAPS

LEMMA WindowFacts ==
    /\ Window \in Nat \ {0} /\ Times \in Nat \ {0}
    /\ Second \in Nat \ {0} /\ Second \div 2 \in Nat /\ 2 * (Second \div 2) = Second
<1>1. Seconds \in Nat \ {0} /\ Second \in Nat \ {0} /\ Second % 2 = 0
  BY WindowAssumption, SecondAssumption
<1>2. Seconds * Second \in Nat \ {0}
  BY <1>1, SMT
<1>3. Second \div 2 \in Nat /\ 2 * (Second \div 2) = Second
  BY <1>1
<1> QED
  BY <1>1, <1>2, <1>3, WindowAssumption DEF Window

\* What an element of the log is.
LEMMA AdmissionFacts ==
    ASSUME NEW a \in Admission
    PROVE  /\ a.age \in Nat /\ a.age < Window /\ a.n \in 1..Times /\ a.current \in BOOLEAN
           /\ a = [age |-> a.age, n |-> a.n, current |-> a.current]
BY WindowFacts DEF Admission

LEMMA RequestFacts ==
    ASSUME TypeOK, NEW r \in Req
    PROVE  /\ req[r] \in Request /\ req[r].phase \in {"idle", "refused", "told"}
           /\ req[r].key \in Key \cup {None} /\ req[r].wait \in Nat
           /\ req[r].same \in BOOLEAN
BY DEF TypeOK, Request

LEMMA InitInv == Init => RInv
<1> SUFFICES ASSUME Init PROVE RInv
  OBVIOUS
<1>1. TypeOK
  BY WindowFacts, BoundAssumption DEF Init, TypeOK, NoRequest, Request
<1>2. CounterOK /\ LogOK
  BY DEF Init, CounterOK, LogOK
<1>3. WaitOK
  BY DEF Init, WaitOK, NoRequest
<1> QED
  BY <1>1, <1>2, <1>3 DEF RInv

-----------------------------------------------------------------------------
(* The script.                                                              *)

\* INCR, and EXPIRE for the first: a counter that runs goes on as it does.
LEMMA CountedFacts ==
    ASSUME RInv, NEW k \in Key, Counted(k)
    PROVE  /\ count' \in [Key -> 0..MaxCount] /\ left' \in [Key -> 0..Window]
           /\ CounterOK'
           /\ count'[k] = count[k] + 1 /\ count[k] \in Nat
           /\ left'[k] = IF count[k] = 0 THEN Window ELSE left[k]
           /\ \A q \in Key : q # k => count'[q] = count[q] /\ left'[q] = left[q]
           /\ \A q \in Key : count[q] # 0 => count'[q] # 0 /\ left'[q] = left[q]
<1>1. count \in [Key -> 0..MaxCount] /\ left \in [Key -> 0..Window]
  BY DEF RInv, TypeOK
<1>2. /\ count[k] \in Nat /\ count[k] < MaxCount
      /\ count' = [count EXCEPT ![k] = count[k] + 1]
      /\ left' = IF count[k] = 0 THEN [left EXCEPT ![k] = Window] ELSE left
  BY <1>1, BoundAssumption DEF Counted
<1>3. count' \in [Key -> 0..MaxCount] /\ left' \in [Key -> 0..Window]
  BY <1>1, <1>2, BoundAssumption, WindowFacts
<1>4. /\ count'[k] = count[k] + 1
      /\ left'[k] = IF count[k] = 0 THEN Window ELSE left[k]
      /\ \A q \in Key : q # k => count'[q] = count[q] /\ left'[q] = left[q]
  BY <1>1, <1>2
<1>5. CounterOK'
  BY <1>1, <1>2, <1>4, WindowFacts DEF RInv, CounterOK
<1>6. \A q \in Key : count[q] # 0 => count'[q] # 0 /\ left'[q] = left[q]
  BY <1>2, <1>4
<1> QED
  BY <1>2, <1>3, <1>4, <1>5, <1>6

\* Whoever waits for a counter, waits for the same one as before.
LEMMA CountedWaits ==
    ASSUME RInv, NEW k \in Key, Counted(k), UNCHANGED req PROVE WaitOK'
<1>1. ASSUME NEW r \in Req
      PROVE  /\ req[r].phase # "idle" => req[r].key \in Key
             /\ req[r].same => req[r].phase # "idle" /\ count'[req[r].key] # 0
             /\ req[r].phase = "told" => req[r].wait <= Window + Second \div 2
             /\ req[r].phase = "told" /\ req[r].same =>
                   /\ left'[req[r].key] <= req[r].wait
                   /\ req[r].wait <= left'[req[r].key] + Second + Second \div 2
  BY CountedFacts DEF RInv, WaitOK
<1> QED
  BY <1>1 DEF WaitOK

\* The log, when nobody is admitted.
LEMMA CountedLog ==
    ASSUME RInv, NEW k \in Key, Counted(k), UNCHANGED log PROVE LogOK'
<1> SUFFICES ASSUME NEW q \in Key
             PROVE  /\ \A a \in log[q] : a.current =>
                          /\ count'[q] # 0 /\ a.n <= count'[q]
                          /\ a.n = 1 => a.age = Window - left'[q]
                          /\ a.age <= Window - left'[q]
                    /\ \A a \in log[q] : ~a.current => a.n >= 2 /\ a.age >= 1
                    /\ \A a, b \in log[q] : a.n = b.n /\ a.current = b.current => a = b
                    /\ \A a \in log[q] : ~a.current /\ count'[q] # 0 =>
                          a.age > Window - left'[q]
  BY DEF LogOK
<1>1. log[q] \subseteq Admission
  BY DEF RInv, TypeOK
<1>2. CASE q # k
  BY <1>2, CountedFacts DEF RInv, LogOK
<1>3. CASE q = k
  <2>1. \A a \in log[k] : a.n \in Nat /\ a.age \in Nat
    BY <1>1, <1>3, AdmissionFacts
  <2> QED
    BY <1>3, <2>1, CountedFacts, WindowFacts DEF RInv, LogOK
<1> QED
  BY <1>2, <1>3

LEMMA AdmitInv == ASSUME RInv, NEW r \in Req, NEW k \in Key, Admit(r, k) PROVE RInv'
<1> DEFINE new == [age |-> 0, n |-> count[k] + 1, current |-> TRUE]
<1>1. /\ Counted(k) /\ count[k] + 1 <= Times /\ UNCHANGED req
      /\ log' = [log EXCEPT ![k] = log[k] \cup {new}]
  BY DEF Admit, Within
<1>2. log \in [Key -> SUBSET Admission] /\ req \in [Req -> Request]
  BY DEF RInv, TypeOK
<1>3. new \in Admission
  BY <1>1, CountedFacts, WindowFacts DEF Admission
<1>4. TypeOK'
  BY <1>1, <1>2, <1>3, CountedFacts DEF TypeOK
<1>5. LogOK'
  <2> SUFFICES ASSUME NEW q \in Key
               PROVE  /\ \A a \in log'[q] : a.current =>
                            /\ count'[q] # 0 /\ a.n <= count'[q]
                            /\ a.n = 1 => a.age = Window - left'[q]
                            /\ a.age <= Window - left'[q]
                      /\ \A a \in log'[q] : ~a.current => a.n >= 2 /\ a.age >= 1
                      /\ \A a, b \in log'[q] : a.n = b.n /\ a.current = b.current => a = b
                      /\ \A a \in log'[q] : ~a.current /\ count'[q] # 0 =>
                            a.age > Window - left'[q]
    BY DEF LogOK
  <2>1. CASE q # k
    BY <1>1, <1>2, <2>1, CountedFacts DEF RInv, LogOK
  <2>2. CASE q = k
    <3>1. log'[q] = log[k] \cup {new}
      BY <1>1, <1>2, <2>2
    <3>2. \A a \in log[k] : a.n \in Nat /\ a.age \in Nat
      BY <1>2, AdmissionFacts
    <3>3. new.n = count[k] + 1 /\ new.age = 0 /\ new.current
      OBVIOUS
    <3>4. left[k] \in 0..Window
      BY DEF RInv, TypeOK
    <3>5. /\ \A a \in log[k] : a.current =>
               /\ a.n <= count[k] /\ count[k] # 0
               /\ a.n = 1 => a.age = Window - left[k]
               /\ a.age <= Window - left[k]
          /\ \A a \in log[k] : ~a.current => a.n >= 2 /\ a.age >= 1
          /\ \A a, b \in log[k] : a.n = b.n /\ a.current = b.current => a = b
          /\ \A a \in log[k] : ~a.current /\ count[k] # 0 => a.age > Window - left[k]
      BY DEF RInv, LogOK
    <3> HIDE DEF new
    <3>10. /\ count'[k] = count[k] + 1 /\ count[k] \in Nat /\ left[k] \in Nat
           /\ left[k] <= Window /\ Window \in Nat
           /\ left'[k] = IF count[k] = 0 THEN Window ELSE left[k]
           /\ count[k] = 0 <=> left[k] = 0
      BY <3>4, CountedFacts, WindowFacts, <1>1 DEF RInv, CounterOK
    <3>6. ASSUME NEW a \in log'[q], a.current
          PROVE  /\ count'[q] # 0 /\ a.n <= count'[q]
                 /\ a.n = 1 => a.age = Window - left'[q]
                 /\ a.age <= Window - left'[q]
      <4>1. CASE a = new
        BY <2>2, <3>3, <3>10, <4>1
      <4>2. CASE a \in log[k]
        BY <2>2, <3>2, <3>5, <3>6, <3>10, <4>2
      <4> QED
        BY <3>1, <4>1, <4>2
    <3>7. ASSUME NEW a \in log'[q], NEW b \in log'[q], a.n = b.n, a.current = b.current
          PROVE  a = b
      <4>1. ~(a = new /\ b \in log[k]) /\ ~(b = new /\ a \in log[k])
        BY <3>2, <3>3, <3>5, <3>7, <3>10
      <4> QED
        BY <3>1, <3>5, <3>7, <4>1
    <3>8. \A a \in log'[q] : ~a.current => a.n >= 2 /\ a.age >= 1
      BY <3>1, <3>3, <3>5
    <3>9. ASSUME NEW a \in log'[q], ~a.current PROVE a.age > Window - left'[q]
      <4>1. a \in log[k] /\ a.age >= 1 /\ a.age \in Nat
        BY <3>1, <3>2, <3>3, <3>5, <3>9
      <4> QED
        BY <2>2, <3>5, <3>9, <3>10, <4>1
    <3> QED
      BY <3>6, <3>7, <3>8, <3>9
  <2> QED
    BY <2>1, <2>2
<1> QED
  BY <1>1, <1>4, <1>5, CountedFacts, CountedWaits DEF RInv

LEMMA RefuseInv == ASSUME RInv, NEW r \in Req, NEW k \in Key, Refuse(r, k) PROVE RInv'
<1> DEFINE new == [phase |-> "refused", key |-> k, wait |-> 0, same |-> TRUE]
<1>1. Counted(k) /\ UNCHANGED log /\ req' = [req EXCEPT ![r] = new]
  BY DEF Refuse
<1>2. new \in Request
  BY DEF Request
<1>3. TypeOK'
  BY <1>1, <1>2, CountedFacts DEF RInv, TypeOK
<1>4. WaitOK'
  <2> SUFFICES ASSUME NEW p \in Req
               PROVE  /\ req'[p].phase # "idle" => req'[p].key \in Key
                      /\ req'[p].same => req'[p].phase # "idle" /\ count'[req'[p].key] # 0
                      /\ req'[p].phase = "told" => req'[p].wait <= Window + Second \div 2
                      /\ req'[p].phase = "told" /\ req'[p].same =>
                            /\ left'[req'[p].key] <= req'[p].wait
                            /\ req'[p].wait <= left'[req'[p].key] + Second + Second \div 2
    BY DEF WaitOK
  <2>1. CASE p = r
    BY <1>1, <2>1, CountedFacts DEF RInv, TypeOK
  <2>2. CASE p # r
    <3>1. req'[p] = req[p]
      BY <1>1, <2>2 DEF RInv, TypeOK
    <3> QED
      BY <1>1, <3>1, CountedFacts DEF RInv, WaitOK
  <2> QED
    BY <2>1, <2>2
<1> QED
  BY <1>1, <1>3, <1>4, CountedFacts, CountedLog DEF RInv

LEMMA LoseInv == ASSUME RInv, NEW r \in Req, NEW k \in Key, Lose(r, k) PROVE RInv'
<1>1. Counted(k) /\ UNCHANGED <<log, req>>
  BY DEF Lose
<1>2. TypeOK'
  BY <1>1, CountedFacts DEF RInv, TypeOK
<1> QED
  BY <1>1, <1>2, CountedFacts, CountedWaits, CountedLog DEF RInv

-----------------------------------------------------------------------------
(* The answer.                                                              *)

\* Rounding to the nearest second takes away half a second at most, and adds
\* no more.
LEMMA Rounding ==
    ASSUME NEW n \in Nat, NEW s \in Nat \ {0}
    PROVE  n \div s \in Nat /\ n < (n \div s) * s + s /\ (n \div s) * s <= n
OBVIOUS

\* The client is told to wait no less than what is left of the counter, and
\* not much more.
LEMMA RetryFacts ==
    ASSUME RInv, NEW k \in Key
    PROVE  /\ RetryAfter(k) * Second + Second \div 2 \in Nat
           /\ left[k] <= RetryAfter(k) * Second + Second \div 2
           /\ RetryAfter(k) * Second + Second \div 2 <= Window + Second \div 2
           /\ count[k] # 0 => RetryAfter(k) * Second + Second \div 2
                                <= left[k] + Second + Second \div 2
<1> DEFINE half == Second \div 2
           t == (left[k] + half) \div Second
<1>1. left[k] \in Nat /\ (count[k] = 0 <=> left[k] = 0)
  BY DEF RInv, TypeOK, CounterOK
<1>2. half \in Nat /\ 2 * half = Second /\ Second \in Nat \ {0}
  BY WindowFacts
<1>3. left[k] + half \in Nat
  BY <1>1, <1>2
<1>4. /\ t \in Nat /\ left[k] + half < t * Second + Second
      /\ t * Second <= left[k] + half
  BY <1>2, <1>3, Rounding
<1>5. /\ RetryAfter(k) \in Nat /\ (count[k] # 0 => RetryAfter(k) >= t)
      /\ RetryAfter(k) = 1 \/ RetryAfter(k) = t
  BY <1>1, <1>4 DEF RetryAfter, Ttl
<1> HIDE DEF half, t
<1>6. RetryAfter(k) * Second \in Nat
  BY <1>2, <1>5
<1>7. count[k] # 0 => RetryAfter(k) * Second >= t * Second
  BY <1>2, <1>4, <1>5
<1>8. t * Second \in Nat
  BY <1>2, <1>4
<1>9. left[k] <= RetryAfter(k) * Second + half
  BY <1>1, <1>2, <1>4, <1>6, <1>7, <1>8
<1>10. RetryAfter(k) * Second <= left[k] + Second
  <2>1. 1 * Second = Second
    BY <1>2
  <2> QED
    BY <1>1, <1>2, <1>4, <1>5, <1>8, <2>1
<1>11. RetryAfter(k) * Second <= Window
  <2>1. left[k] <= Seconds * Second /\ Window = Seconds * Second
    BY DEF RInv, TypeOK, Window
  <2>2. Seconds \in Nat \ {0} /\ Second \in Nat \ {0} /\ half < Second
    BY <1>2, WindowAssumption
  <2>3. t * Second < Seconds * Second + Second
    BY <1>1, <1>2, <1>4, <1>8, <2>1, <2>2
  <2>4. t <= Seconds
    <3> SUFFICES ASSUME t >= Seconds + 1 PROVE FALSE
      BY <1>4, <2>2
    <3>1. t * Second >= (Seconds + 1) * Second
      BY <1>4, <2>2
    <3>2. (Seconds + 1) * Second = Seconds * Second + Second
      BY <2>2
    <3> QED
      BY <1>8, <2>2, <2>3, <3>1, <3>2
  <2>5. RetryAfter(k) <= Seconds
    BY <1>5, <2>2, <2>4
  <2> QED
    BY <1>5, <2>1, <2>2, <2>5
<1>12. /\ RetryAfter(k) * Second + half \in Nat
       /\ RetryAfter(k) * Second + half <= Window + half
       /\ RetryAfter(k) * Second + half <= left[k] + Second + half
  BY <1>1, <1>2, <1>6, <1>10, <1>11, WindowFacts
<1> QED
  BY <1>9, <1>12 DEF half

LEMMA ReplyInv == ASSUME RInv, NEW r \in Req, Reply(r) PROVE RInv'
<1> DEFINE k == req[r].key
           w == RetryAfter(k) * Second + Second \div 2
<1>1. /\ req[r].phase = "refused" /\ UNCHANGED <<count, left, log>>
      /\ req' = [req EXCEPT ![r] = [req[r] EXCEPT !.phase = "told", !.wait = w]]
  BY DEF Reply, RInv, TypeOK
<1>2. k \in Key
  BY <1>1 DEF RInv, WaitOK
<1>3. /\ w \in Nat /\ left[k] <= w /\ w <= Window + Second \div 2
      /\ count[k] # 0 => w <= left[k] + Second + Second \div 2
  BY <1>2, RetryFacts
<1> HIDE DEF w
<1>4. [req[r] EXCEPT !.phase = "told", !.wait = w] \in Request
  BY <1>3, RequestFacts DEF RInv, Request
<1>5. TypeOK'
  BY <1>1, <1>4 DEF RInv, TypeOK
<1>6. WaitOK'
  <2> SUFFICES ASSUME NEW p \in Req
               PROVE  /\ req'[p].phase # "idle" => req'[p].key \in Key
                      /\ req'[p].same => req'[p].phase # "idle" /\ count[req'[p].key] # 0
                      /\ req'[p].phase = "told" => req'[p].wait <= Window + Second \div 2
                      /\ req'[p].phase = "told" /\ req'[p].same =>
                            /\ left[req'[p].key] <= req'[p].wait
                            /\ req'[p].wait <= left[req'[p].key] + Second + Second \div 2
    BY <1>1 DEF WaitOK
  <2>1. CASE p = r
    <3>1. /\ req'[p].phase = "told" /\ req'[p].wait = w
          /\ req'[p].key = k /\ req'[p].same = req[r].same
      BY <1>1, <2>1, RequestFacts DEF RInv, TypeOK, Request
    <3> QED
      BY <1>2, <1>3, <3>1 DEF RInv, WaitOK
  <2>2. CASE p # r
    <3>1. req'[p] = req[p]
      BY <1>1, <2>2 DEF RInv, TypeOK
    <3> QED
      BY <3>1 DEF RInv, WaitOK
  <2> QED
    BY <2>1, <2>2
<1> QED
  BY <1>1, <1>5, <1>6 DEF RInv, CounterOK, LogOK

LEMMA GiveUpInv == ASSUME RInv, NEW r \in Req, GiveUp(r) PROVE RInv'
<1>1. UNCHANGED <<count, left, log>> /\ req' = [req EXCEPT ![r] = NoRequest]
  BY DEF GiveUp
<1>2. NoRequest \in Request /\ NoRequest.phase = "idle" /\ ~NoRequest.same
  BY DEF NoRequest, Request
<1>3. TypeOK'
  BY <1>1, <1>2 DEF RInv, TypeOK
<1>4. \A p \in Req : req'[p] = NoRequest \/ req'[p] = req[p]
  BY <1>1 DEF RInv, TypeOK
<1>5. WaitOK'
  BY <1>1, <1>2, <1>4 DEF RInv, WaitOK
<1> QED
  BY <1>1, <1>3, <1>5 DEF RInv, CounterOK, LogOK

-----------------------------------------------------------------------------
(* Time.                                                                    *)

LEMMA DownFacts ==
    ASSUME NEW n \in Nat
    PROVE  Down(n) \in Nat /\ Down(n) <= n /\ (n # 0 => Down(n) = n - 1) /\ Down(0) = 0
BY DEF Down

\* What is in the log after a tick was in it, a tick younger.
LEMMA TickLog ==
    ASSUME TypeOK, Tick, NEW k \in Key, NEW a \in log'[k]
    PROVE  /\ a \in Admission /\ a.age \in Nat
           /\ \E b \in log[k] : /\ b \in Admission /\ a.age = b.age + 1 /\ a.n = b.n
                                /\ a.current <=> (b.current /\ ~Expires(k))
                                /\ b.age + 1 < Window
                                /\ a = [age |-> b.age + 1, n |-> b.n,
                                        current |-> b.current /\ ~Expires(k)]
<1>1. PICK b \in log[k] : /\ b.age + 1 < Window
                          /\ a = [age |-> b.age + 1, n |-> b.n,
                                  current |-> b.current /\ ~Expires(k)]
  BY DEF Tick
<1>2. b \in Admission
  BY DEF TypeOK
<1>3. b.age \in Nat /\ b.n \in 1..Times /\ b.current \in BOOLEAN
  BY <1>2, AdmissionFacts
<1>4. b.age + 1 \in 0..(Window - 1) /\ (b.current /\ ~Expires(k)) \in BOOLEAN
  BY <1>1, <1>3, WindowFacts
<1>5. a \in Admission
  BY <1>1, <1>3, <1>4 DEF Admission
<1>6. a.age = b.age + 1 /\ a.n = b.n /\ (a.current <=> (b.current /\ ~Expires(k)))
  BY <1>1
<1> QED
  BY <1>1, <1>2, <1>3, <1>5, <1>6

\* A counter ends when its time is over.
LEMMA TickCounter ==
    ASSUME RInv, Tick, NEW k \in Key
    PROVE  /\ count[k] \in 0..MaxCount /\ left[k] \in 0..Window /\ left'[k] \in 0..Window
           /\ left'[k] = Down(left[k]) /\ count'[k] = IF left[k] = 1 THEN 0 ELSE count[k]
           /\ count[k] = 0 <=> left[k] = 0
           /\ count'[k] = 0 <=> left'[k] = 0
<1>1. count[k] \in 0..MaxCount /\ left[k] \in 0..Window /\ (count[k] = 0 <=> left[k] = 0)
  BY DEF RInv, TypeOK, CounterOK
<1>2. left'[k] = Down(left[k]) /\ count'[k] = IF left[k] = 1 THEN 0 ELSE count[k]
  BY DEF Tick, Expires
<1> QED
  BY <1>1, <1>2, WindowFacts DEF Down

\* The log of a counter that ends: what it admitted first has left it, and so
\* has everything from the counter before.
LEMMA TickEnds ==
    ASSUME RInv, Tick, NEW k \in Key, Expires(k), NEW a \in log'[k]
    PROVE  /\ ~a.current /\ a.n >= 2 /\ a.age >= 1
           /\ \A b \in log'[k] : a.n = b.n => a = b
<1>1. /\ \A b \in log[k] : b.current /\ b.n = 1 => b.age = Window - left[k]
      /\ \A b \in log[k] : ~b.current => b.age > Window - left[k]
      /\ \A b, c \in log[k] : b.n = c.n /\ b.current = c.current => b = c
  BY TickCounter, WindowFacts DEF RInv, LogOK, Expires
<1>2. left[k] = 1
  BY DEF Expires
<1>3. TypeOK
  BY DEF RInv
<1>4. ASSUME NEW b \in Admission, b \in log[k], b.age + 1 < Window
      PROVE  b.current /\ b.n >= 2
  BY <1>1, <1>2, <1>4, AdmissionFacts, WindowFacts
<1>5. ~a.current /\ a.n >= 2 /\ a.age >= 1
  BY <1>3, <1>4, TickLog, AdmissionFacts
<1>6. ASSUME NEW d \in log'[k], a.n = d.n PROVE a = d
  <2>1. PICK b \in log[k] : /\ b \in Admission /\ a.n = b.n /\ b.age + 1 < Window
                            /\ a = [age |-> b.age + 1, n |-> b.n,
                                    current |-> b.current /\ ~Expires(k)]
    BY <1>3, TickLog
  <2>2. PICK c \in log[k] : /\ c \in Admission /\ d.n = c.n /\ c.age + 1 < Window
                            /\ d = [age |-> c.age + 1, n |-> c.n,
                                    current |-> c.current /\ ~Expires(k)]
    BY <1>3, TickLog
  <2>3. b.current /\ c.current
    BY <1>4, <2>1, <2>2
  <2>4. b = c
    BY <1>1, <1>6, <2>1, <2>2, <2>3, AdmissionFacts
  <2> QED
    BY <2>1, <2>2, <2>4
<1> QED
  BY <1>5, <1>6

\* The log of a counter that goes on, or of none.
LEMMA TickGoesOn ==
    ASSUME RInv, Tick, NEW k \in Key, ~Expires(k), NEW a \in log'[k]
    PROVE  /\ a.current => /\ count'[k] # 0 /\ a.n <= count'[k]
                           /\ a.n = 1 => a.age = Window - left'[k]
                           /\ a.age <= Window - left'[k]
           /\ ~a.current => a.n >= 2 /\ a.age >= 1
           /\ ~a.current /\ count'[k] # 0 => a.age > Window - left'[k]
           /\ \A b \in log'[k] : a.n = b.n /\ a.current = b.current => a = b
<1>1. TypeOK
  BY DEF RInv
<1>2. /\ \A b \in log[k] : b.current =>
           /\ count[k] # 0 /\ b.n <= count[k]
           /\ b.n = 1 => b.age = Window - left[k]
           /\ b.age <= Window - left[k]
      /\ \A b \in log[k] : ~b.current => b.n >= 2 /\ b.age >= 1
      /\ \A b, c \in log[k] : b.n = c.n /\ b.current = c.current => b = c
      /\ \A b \in log[k] : ~b.current /\ count[k] # 0 => b.age > Window - left[k]
  BY DEF RInv, LogOK
<1>3. /\ count'[k] = count[k] /\ left[k] \in Nat /\ left[k] # 1 /\ Window \in Nat
      /\ left'[k] = Down(left[k]) /\ (count[k] = 0 <=> left[k] = 0)
  BY TickCounter, WindowFacts DEF Expires
<1>4. count[k] # 0 => left'[k] = left[k] - 1
  BY <1>3 DEF Down
<1>5. PICK b \in log[k] : /\ b \in Admission /\ a.age = b.age + 1 /\ a.n = b.n
                          /\ a.current <=> b.current
                          /\ a = [age |-> b.age + 1, n |-> b.n, 
                                  current |-> b.current /\ ~Expires(k)]
  BY <1>1, TickLog
<1>6. b.age \in Nat /\ b.n \in Nat /\ b.current \in BOOLEAN
  BY <1>5, AdmissionFacts
<1>7. a.current => /\ count'[k] # 0 /\ a.n <= count'[k]
                   /\ a.n = 1 => a.age = Window - left'[k]
                   /\ a.age <= Window - left'[k]
  BY <1>2, <1>3, <1>4, <1>5, <1>6
<1>8. ~a.current => a.n >= 2 /\ a.age >= 1
  BY <1>2, <1>5, <1>6
<1>9. ~a.current /\ count'[k] # 0 => a.age > Window - left'[k]
  BY <1>2, <1>3, <1>4, <1>5, <1>6
<1>10. ASSUME NEW d \in log'[k], a.n = d.n, a.current = d.current PROVE a = d
  <2>1. PICK c \in log[k] : /\ c \in Admission /\ d.n = c.n /\ (d.current <=> c.current)
                            /\ d = [age |-> c.age + 1, n |-> c.n,
                                    current |-> c.current /\ ~Expires(k)]
    BY <1>1, TickLog
  <2>2. c.current \in BOOLEAN /\ b.n = c.n /\ (b.current <=> c.current)
    BY <1>5, <1>10, <2>1, AdmissionFacts
  <2>3. b = c
    BY <1>2, <1>6, <2>2
  <2> QED
    BY <1>5, <2>1, <2>3
<1> QED
  BY <1>7, <1>8, <1>9, <1>10

LEMMA TickInv == RInv /\ Tick => RInv'
<1> SUFFICES ASSUME RInv, Tick PROVE RInv'
  OBVIOUS
<1>1. TypeOK
  BY DEF RInv
<1>2. CounterOK'
  BY TickCounter DEF CounterOK
<1>3. LogOK'
  <2> SUFFICES ASSUME NEW q \in Key
               PROVE  /\ \A a \in log'[q] : a.current =>
                            /\ count'[q] # 0 /\ a.n <= count'[q]
                            /\ a.n = 1 => a.age = Window - left'[q]
                            /\ a.age <= Window - left'[q]
                      /\ \A a \in log'[q] : ~a.current => a.n >= 2 /\ a.age >= 1
                      /\ \A a, b \in log'[q] : a.n = b.n /\ a.current = b.current => a = b
                      /\ \A a \in log'[q] : ~a.current /\ count'[q] # 0 =>
                            a.age > Window - left'[q]
    BY DEF LogOK
  <2>1. CASE Expires(q)
    <3>1. count'[q] = 0
      BY <2>1, TickCounter DEF Expires
    <3> QED
      BY <2>1, <3>1, TickEnds
  <2>2. CASE ~Expires(q)
    BY <2>2, TickGoesOn
  <2> QED
    BY <2>1, <2>2
<1> DEFINE next(r) == [req[r] EXCEPT !.wait = Down(req[r].wait),
                          !.same = req[r].same /\ \A k \in Key : k = req[r].key => ~Expires(k)]
<1>4. req' = [r \in Req |-> next(r)]
  BY DEF Tick
<1>5. ASSUME NEW r \in Req
      PROVE  /\ next(r) \in Request /\ next(r).phase = req[r].phase
             /\ next(r).key = req[r].key /\ next(r).wait = Down(req[r].wait)
             /\ next(r).same <=> req[r].same /\ \A k \in Key : k = req[r].key => ~Expires(k)
  <2>1. /\ req[r] \in Request /\ Down(req[r].wait) \in Nat
        /\ (req[r].same /\ \A k \in Key : k = req[r].key => ~Expires(k)) \in BOOLEAN
    BY <1>1, RequestFacts, DownFacts
  <2> QED
    BY <2>1 DEF Request
<1> HIDE DEF next
<1>6. TypeOK'
  <2>1. \A k \in Key : log'[k] \subseteq Admission
    BY <1>1, TickLog
  <2>2. count' \in [Key -> 0..MaxCount] /\ left' \in [Key -> 0..Window]
    <3>1. /\ count' = [k \in Key |-> IF Expires(k) THEN 0 ELSE count[k]]
          /\ left' = [k \in Key |-> Down(left[k])]
      BY DEF Tick
    <3>2. \A k \in Key : count'[k] \in 0..MaxCount /\ left'[k] \in 0..Window
      BY TickCounter, BoundAssumption
    <3> QED
      BY <3>1, <3>2
  <2>3. req' \in [Req -> Request]
    BY <1>4, <1>5
  <2>4. log' \in [Key -> SUBSET Admission]
    BY <2>1 DEF Tick
  <2> QED
    BY <2>2, <2>3, <2>4 DEF TypeOK
<1>7. WaitOK'
  <2> SUFFICES ASSUME NEW r \in Req
               PROVE  /\ req'[r].phase # "idle" => req'[r].key \in Key
                      /\ req'[r].same => req'[r].phase # "idle" /\ count'[req'[r].key] # 0
                      /\ req'[r].phase = "told" => req'[r].wait <= Window + Second \div 2
                      /\ req'[r].phase = "told" /\ req'[r].same =>
                            /\ left'[req'[r].key] <= req'[r].wait
                            /\ req'[r].wait <= left'[req'[r].key] + Second + Second \div 2
    BY DEF WaitOK
  <2> DEFINE k == req[r].key
  <2>1. /\ req'[r].phase = req[r].phase /\ req'[r].key = k
        /\ req'[r].wait = Down(req[r].wait) /\ req[r].wait \in Nat
        /\ req'[r].same => req[r].same /\ (k \in Key => ~Expires(k))
    BY <1>1, <1>4, <1>5, RequestFacts
  <2>2. /\ req[r].phase # "idle" => k \in Key
        /\ req[r].same => req[r].phase # "idle" /\ count[k] # 0
        /\ req[r].phase = "told" => req[r].wait <= Window + Second \div 2
        /\ req[r].phase = "told" /\ req[r].same =>
              left[k] <= req[r].wait /\ req[r].wait <= left[k] + Second + Second \div 2
    BY DEF RInv, WaitOK
  <2>3. Second \div 2 \in Nat /\ Second \in Nat /\ Window \in Nat
    BY WindowFacts
  <2>4. req[r].phase = "told" => Down(req[r].wait) <= Window + Second \div 2
    BY <2>1, <2>2, <2>3 DEF Down
  <2>5. ASSUME req'[r].same
        PROVE  /\ req[r].phase # "idle" /\ count'[k] # 0
               /\ req[r].phase = "told" =>
                     /\ left'[k] <= Down(req[r].wait)
                     /\ Down(req[r].wait) <= left'[k] + Second + Second \div 2
    <3>1. k \in Key /\ ~Expires(k) /\ req[r].same
      BY <2>1, <2>2, <2>5
    <3>2. /\ left[k] \in Nat /\ left[k] # 1 /\ left[k] # 0
          /\ count'[k] = count[k] /\ left'[k] = Down(left[k]) /\ count[k] # 0
      BY <2>2, <3>1, TickCounter DEF Expires
    <3> QED
      BY <2>1, <2>2, <2>3, <3>1, <3>2 DEF Down
  <2> HIDE DEF k
  <2> QED
    BY <2>1, <2>2, <2>4, <2>5
<1> QED
  BY <1>2, <1>3, <1>6, <1>7 DEF RInv

-----------------------------------------------------------------------------
(* The theorems.                                                            *)

\* RateLimiter: the invariant of the counters, the requests they admitted and
\* the clients they refused, for any limit and window.
THEOREM RateInvariance == Spec => []RInv
<1>1. RInv /\ UNCHANGED vars => RInv'
  BY DEF vars, RInv, TypeOK, CounterOK, LogOK, WaitOK
<1>2. RInv /\ [Next]_vars => RInv'
  BY <1>1, AdmitInv, RefuseInv, LoseInv, ReplyInv, GiveUpInv, TickInv DEF Next
<1> QED
  BY InitInv, <1>2, PTL DEF Spec

\* The requests in the log have different numbers among 2 * Times - 1.
LEMMA LogBound == RInv => WindowBound
<1> SUFFICES ASSUME RInv, NEW k \in Key PROVE Cardinality(log[k]) <= 2 * Times - 1
  BY DEF WindowBound
<1> DEFINE T == 1..(2 * Times - 1)
           number(a) == IF a.current THEN a.n ELSE Times + a.n - 1
           f == [a \in log[k] |-> number(a)]
<1>1. /\ \A a \in log[k] : a.n \in 1..Times /\ a.current \in BOOLEAN
      /\ Times \in Nat \ {0}
  BY AdmissionFacts, WindowFacts DEF RInv, TypeOK
<1>2. /\ \A a \in log[k] : ~a.current => a.n >= 2
      /\ \A a, b \in log[k] : a.n = b.n /\ a.current = b.current => a = b
  BY DEF RInv, LogOK
<1>3. \A a \in log[k] : number(a) \in T
  BY <1>1, <1>2
<1>4. ASSUME NEW a \in log[k], NEW b \in log[k], number(a) = number(b) PROVE a = b
  <2>1. a.current = b.current /\ a.n = b.n
    BY <1>1, <1>2, <1>4
  <2> QED
    BY <1>2, <2>1
<1>5. f \in Injection(log[k], T)
  <2>1. f \in [log[k] -> T] /\ \A a, b \in log[k] : f[a] = f[b] => a = b
    BY <1>3, <1>4
  <2> HIDE DEF f
  <2> QED
    BY <2>1 DEF Injection, IsInjective
<1>6. IsFiniteSet(T) /\ Cardinality(T) = 2 * Times - 1
  <2>1. 1 \in Int /\ 2 * Times - 1 \in Int /\ ~(1 > 2 * Times - 1)
    BY <1>1
  <2>2. /\ IsFiniteSet(T)
        /\ Cardinality(T) = IF 1 > 2 * Times - 1 THEN 0 ELSE 2 * Times - 1 - 1 + 1
    BY <2>1, FS_Interval
  <2> QED
    BY <1>1, <2>1, <2>2
<1> HIDE DEF f, T
<1>7. Cardinality(log[k]) <= Cardinality(T)
  BY <1>5, <1>6, FS_Injection
<1> QED
  BY <1>6, <1>7

\* RateLimiter: no stretch of a window's length sees 2 * Times requests.
THEOREM RateWindowBound == Spec => []WindowBound
BY RateInvariance, LogBound, PTL

\* RateLimiter: the Retry-After that a client is told is long enough, and no
\* longer than it has to be.
THEOREM RateRetryHonest == Spec => []RetryHonest
<1>1. RInv => RetryHonest
  <2> SUFFICES ASSUME RInv, NEW r \in Req, req[r].phase = "told"
               PROVE  /\ req[r].wait = 0 => ~req[r].same
                      /\ req[r].wait <= Window + Second \div 2
                      /\ req[r].same =>
                            req[r].wait <= left[req[r].key] + Second + Second \div 2
    BY DEF RetryHonest
  <2>1. ASSUME req[r].wait = 0, req[r].same PROVE FALSE
    <3>1. req[r].key \in Key /\ count[req[r].key] # 0 /\ left[req[r].key] <= 0
      BY <2>1 DEF RInv, WaitOK
    <3> QED
      BY <3>1 DEF RInv, TypeOK, CounterOK
  <2>2. /\ req[r].wait <= Window + Second \div 2
        /\ req[r].same => req[r].wait <= left[req[r].key] + Second + Second \div 2
    BY DEF RInv, WaitOK
  <2>3. req[r].same \in BOOLEAN
    BY RequestFacts DEF RInv, TypeOK
  <2> QED
    BY <2>1, <2>2, <2>3
<1> QED
  BY RateInvariance, <1>1, PTL
=============================================================================
