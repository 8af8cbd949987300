----------------------------- MODULE RateLimit -----------------------------
(***************************************************************************)
(* RateLimiter: a counter per client and path in Redis, which a script     *)
(* raises and, when it is new, gives a lifetime; a request beyond the      *)
(* limit asks for what is left of it and is refused with that Retry-After. *)
(*                                                                         *)
(* Time is kept as what is left of each period, in ticks.                  *)
(***************************************************************************)
EXTENDS Integers, FiniteSets

CONSTANTS Req,
          Key,       \* rate:{client_ip}:{path}
          Times,     \* requests per window
          Second,    \* ticks per second
          Seconds,   \* length of a window
          MaxCount,  \* bound of the model: requests of one window
          None       \* no key

ASSUME SecondAssumption == Second \in Nat \ {0} /\ Second % 2 = 0
ASSUME WindowAssumption == Times \in Nat \ {0} /\ Seconds \in Nat \ {0}
ASSUME BoundAssumption == MaxCount \in Nat
ASSUME NoneAssumption == None \notin Key

Window == Seconds * Second

VARIABLES
    count,  \* the value of each key, 0 if it does not exist
    left,   \* ticks until it expires, 0 if it never does
    log,    \* requests admitted in the last Window ticks (history)
    req     \* the requests that are being refused, and who was refused

vars == <<count, left, log, req>>

\* age: ticks since the request was counted; n: the count it got; current:
\* the counter has not expired since.
Admission == [age: 0..(Window - 1), n: 1..Times, current: BOOLEAN]

\* phase "refused": the count was too high; "told": the client waits for wait
\* ticks.  same: the counter that refused it has not expired (history).
Request == [phase: {"idle", "refused", "told"}, key: Key \cup {None},
            wait: Nat, same: BOOLEAN]
NoRequest == [phase |-> "idle", key |-> None, wait |-> 0, same |-> FALSE]

TypeOK == /\ count \in [Key -> 0..MaxCount]
          /\ left \in [Key -> 0..Window]
          /\ log \in [Key -> SUBSET Admission]
          /\ req \in [Req -> Request]

Init == /\ count = [k \in Key |-> 0]
        /\ left = [k \in Key |-> 0]
        /\ log = [k \in Key |-> {}]
        /\ req = [r \in Req |-> NoRequest]

-----------------------------------------------------------------------------
(* The script.                                                              *)

\* Mutant: INCR and EXPIRE are two calls, and the second is lost.
CountedForever(k) ==
    /\ count[k] < MaxCount
    /\ count' = [count EXCEPT ![k] = @ + 1]
    /\ UNCHANGED left

\* Mutant: every request prolongs the window.
CountedSliding(k) ==
    /\ count[k] < MaxCount
    /\ count' = [count EXCEPT ![k] = @ + 1]
    /\ left' = [left EXCEPT ![k] = Window]

\* RATE_LIMIT_LUA: INCR, and EXPIRE for the first.
Counted(k) ==
    /\ count[k] < MaxCount
    /\ count' = [count EXCEPT ![k] = @ + 1]
    /\ left' = IF count[k] = 0 THEN [left EXCEPT ![k] = Window] ELSE left

\* Mutant: one more.
WithinOneMore(n) == n <= Times + 1

Within(n) == n <= Times

Admit(r, k) ==
    /\ req[r].phase = "idle" /\ Counted(k) /\ Within(count[k] + 1)
    /\ log' = [log EXCEPT ![k] = @ \cup
                  {[age |-> 0, n |-> count[k] + 1, current |-> TRUE]}]
    /\ UNCHANGED req

Refuse(r, k) ==
    /\ req[r].phase = "idle" /\ Counted(k) /\ ~Within(count[k] + 1)
    /\ req' = [req EXCEPT ![r] =
                  [phase |-> "refused", key |-> k, wait |-> 0, same |-> TRUE]]
    /\ UNCHANGED log

\* The script has run, but its answer is lost: the request fails.
Lose(r, k) ==
    /\ req[r].phase = "idle" /\ Counted(k)
    /\ UNCHANGED <<log, req>>

-----------------------------------------------------------------------------
(* The answer, a round trip later: by then the counter may have expired,    *)
(* and another may have begun.                                              *)

\* Mutant: TTL rounded down.
TtlFloor(k) == left[k] \div Second

\* Redis rounds to the nearest second; -2 says that the key is gone.
Ttl(k) == IF count[k] = 0 THEN -2 ELSE (left[k] + Second \div 2) \div Second

RetryAfter(k) == IF Ttl(k) < 1 THEN 1 ELSE Ttl(k)

\* 429.  The client waits that long and half a second more.
Reply(r) ==
    /\ req[r].phase = "refused"
    /\ req' = [req EXCEPT ![r].phase = "told",
          ![r].wait = RetryAfter(req[r].key) * Second + Second \div 2]
    /\ UNCHANGED <<count, left, log>>

\* TTL raises, or the client does not wait (any longer).
GiveUp(r) ==
    /\ req[r].phase # "idle"
    /\ req' = [req EXCEPT ![r] = NoRequest]
    /\ UNCHANGED <<count, left, log>>

\* A tick: counters expire, and what lies a window back is forgotten.
Down(n) == IF n = 0 THEN 0 ELSE n - 1
Expires(k) == left[k] = 1
Tick ==
    /\ count' = [k \in Key |-> IF Expires(k) THEN 0 ELSE count[k]]
    /\ left' = [k \in Key |-> Down(left[k])]
    /\ log' = [k \in Key |->
          {[age |-> a.age + 1, n |-> a.n, current |-> a.current /\ ~Expires(k)] :
             a \in {b \in log[k] : b.age + 1 < Window}}]
    /\ req' = [r \in Req |->
          [req[r] EXCEPT !.wait = Down(@),
             !.same = @ /\ \A k \in Key : k = req[r].key => ~Expires(k)]]

Next == \/ \E r \in Req :
              \/ \E k \in Key : Admit(r, k) \/ Refuse(r, k) \/ Lose(r, k)
              \/ Reply(r) \/ GiveUp(r)
        \/ Tick

Spec == Init /\ [][Next]_vars

\* Time passes.
FairSpec == Spec /\ WF_vars(Tick)

-----------------------------------------------------------------------------
(* Properties.                                                              *)

\* In no stretch of time as long as a window are more than 2 * Times - 1
\* requests admitted: the end of one window and the start of the next.
WindowBound == \A k \in Key : Cardinality(log[k]) <= 2 * Times - 1

\* A client that was refused and has waited for the Retry-After it was told,
\* and half a second, finds that the window which refused it is over; and it
\* is not kept away for more than a second and a half after that, nor for
\* longer than a window, whatever happens before the lifetime is read.
RetryHonest ==
    \A r \in Req : req[r].phase = "told" =>
       /\ req[r].wait = 0 => ~req[r].same
       /\ req[r].wait <= Window + Second \div 2
       /\ req[r].same => req[r].wait <= left[req[r].key] + Second + Second \div 2

\* Every counter expires, also when the answer of the script was lost: no
\* client is shut out for good.
WindowsEnd == \A k \in Key : []<>(count[k] = 0)

-----------------------------------------------------------------------------
(* The inductive invariant.                                                 *)

CounterOK == \A k \in Key : count[k] = 0 <=> left[k] = 0

\* Of the counter that runs, at most count requests were admitted, the first
\* when it began; of the one before, the first is forgotten once it has ended.
LogOK ==
    \A k \in Key :
       /\ \A a \in log[k] : a.current =>
             /\ count[k] # 0 /\ a.n <= count[k]
             /\ a.n = 1 => a.age = Window - left[k]
             /\ a.age <= Window - left[k]
       /\ \A a \in log[k] : ~a.current => a.n >= 2 /\ a.age >= 1
       /\ \A a, b \in log[k] : a.n = b.n /\ a.current = b.current => a = b
       /\ \A a \in log[k] : ~a.current /\ count[k] # 0 => a.age > Window - left[k]

WaitOK ==
    \A r \in Req :
       /\ req[r].phase # "idle" => req[r].key \in Key
       /\ req[r].same => req[r].phase # "idle" /\ count[req[r].key] # 0
       /\ req[r].phase = "told" => req[r].wait <= Window + Second \div 2
       /\ req[r].phase = "told" /\ req[r].same =>
             /\ left[req[r].key] <= req[r].wait
             /\ req[r].wait <= left[req[r].key] + Second + Second \div 2

RInv == TypeOK /\ CounterOK /\ LogOK /\ WaitOK
=============================================================================
