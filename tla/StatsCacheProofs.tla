-------------------------- MODULE StatsCacheProofs --------------------------
(***************************************************************************)
(* StatsCache for any users, leaderboards, readers, writers and lifetimes: *)
(* only a value that was read while a change was under way can outlive it. *)
(***************************************************************************)
EXTENDS StatsCache, TLAPS

LEMMA InitInv == Init => CInv
<1> SUFFICES ASSUME Init PROVE CInv
  OBVIOUS
<1>1. TypeOK
  BY DEF Init, TypeOK, NoFill, Fill, NoChange, Change
<1> QED
  BY <1>1 DEF Init, CInv, NoFill, NoChange

(* Keys: a user's statistics are about that user, a leaderboard about all.  *)
LEMMA KeyFacts ==
    /\ \A k \in Key : \A u \in Concerns(k) : u \in User /\ k \in {u} \cup Board
    /\ \A k \in Key : TTL(k) \in Nat \ {0}
    /\ \A u \in User : u \in Key
    /\ Board \subseteq Key
BY KeyAssumption, TTLAssumption DEF Key, Concerns, TTL

(* Steps of a reader that leave the cache alone.                            *)
LEMMA ReaderInv ==
    ASSUME CInv, NEW r \in Reader, NEW f \in Fill, reader' = [reader EXCEPT ![r] = f],
           f.phase # "idle" => f.key \in Key,
           f.phase = "set" => \A u \in Concerns(f.key) \ f.raced :
                                 /\ f.asof[u] >= announced[u]
                                 /\ \A w \in Writer : ~(writer[w].user = u /\ Pending(w, f.key)),
           UNCHANGED <<version, writer, announced>>,
           cache' \in [Key -> Entry \cup {None}],
           \A k \in Key : cache'[k] # None => Clean(cache'[k].asof, cache'[k].raced, k)
    PROVE  CInv'
<1>1. TypeOK'
  BY DEF CInv, TypeOK
<1>2. \A w \in Writer, k \in Key : Pending(w, k)' <=> Pending(w, k)
  BY DEF Pending
<1>3. ASSUME NEW q \in Reader
      PROVE  /\ reader'[q].phase # "idle" => reader'[q].key \in Key
             /\ reader'[q].phase = "set" => FillClean(q)'
  <2>1. CASE q = r
    <3>1. reader'[q] = f
      BY <2>1 DEF CInv, TypeOK
    <3> QED
      BY <1>2, <3>1 DEF FillClean
  <2>2. CASE q # r
    <3>1. reader'[q] = reader[q]
      BY <2>2 DEF CInv, TypeOK
    <3> QED
      BY <1>2, <3>1 DEF CInv, FillClean
  <2> QED
    BY <2>1, <2>2
<1>4. ASSUME NEW k \in Key, cache'[k] # None
      PROVE  Clean(cache[k].asof, cache[k].raced, k)'
  <2>1. \A w \in Writer, u \in User : Behind(w, u, k)' <=> Behind(w, u, k)
    BY <1>2 DEF Behind
  <2>2. Clean(cache'[k].asof, cache'[k].raced, k)
    BY <1>4
  <2> QED
    BY <2>1, <2>2, KeyFacts DEF Clean
<1> QED
  BY <1>1, <1>3, <1>4 DEF CInv

LEMMA NoFillType == NoFill \in Fill /\ NoFill.phase = "idle"
BY DEF NoFill, Fill

LEMMA StartInv ==
    ASSUME CInv, NEW r \in Reader, NEW k \in Key, reader[r].phase = "idle",
           reader' = [reader EXCEPT ![r].phase = "query", ![r].key = k],
           UNCHANGED <<version, cache, writer, announced>>
    PROVE  CInv'
<1> DEFINE f == [reader[r] EXCEPT !.phase = "query", !.key = k]
<1>1. f \in Fill /\ f.phase = "query" /\ f.key = k
  BY DEF CInv, TypeOK, Fill
<1>2. reader' = [reader EXCEPT ![r] = f]
  BY DEF CInv, TypeOK
<1> HIDE DEF f
<1> QED
  BY <1>1, <1>2, ReaderInv DEF CInv, TypeOK

LEMMA QueryInv == ASSUME CInv, NEW r \in Reader, Query(r) PROVE CInv'
<1> DEFINE raced == {u \in User : \E w \in Writer :
                        writer[w].user = u /\ Pending(w, reader[r].key)}
           f == [reader[r] EXCEPT !.phase = "set", !.asof = version, !.raced = raced]
<1>1. /\ f \in Fill /\ f.phase = "set" /\ f.key = reader[r].key
      /\ f.asof = version /\ f.raced = raced /\ f.key \in Key
  BY DEF CInv, TypeOK, Fill, Query
<1>2. reader' = [reader EXCEPT ![r] = f]
  BY DEF CInv, TypeOK, Query
<1> HIDE DEF f
<1>3. ASSUME NEW u \in Concerns(f.key) \ f.raced
      PROVE  /\ f.asof[u] >= announced[u]
             /\ \A w \in Writer : ~(writer[w].user = u /\ Pending(w, f.key))
  <2>1. u \in User
    BY <1>1, KeyFacts
  <2> QED
    BY <1>1, <2>1 DEF CInv, TypeOK
<1>4. cache' = cache /\ cache \in [Key -> Entry \cup {None}]
  BY DEF CInv, TypeOK, Query
<1>5. \A k \in Key : cache'[k] # None => Clean(cache'[k].asof, cache'[k].raced, k)
  BY <1>4 DEF CInv
<1>6. UNCHANGED <<version, writer, announced>>
  BY DEF Query
<1> HIDE DEF raced
<1> QED
  BY <1>1, <1>2, <1>3, <1>4, <1>5, <1>6, ReaderInv

LEMMA StoreInv == ASSUME CInv, NEW r \in Reader, Store(r) PROVE CInv'
<1> DEFINE k == reader[r].key
           entry == [asof |-> reader[r].asof, raced |-> reader[r].raced, left |-> TTL(k)]
<1>1. k \in Key /\ FillClean(r) /\ reader[r] \in Fill
  BY DEF CInv, TypeOK, Store
<1>2. entry \in Entry
  BY <1>1, KeyFacts DEF Entry, Fill
<1>3. Clean(entry.asof, entry.raced, k)
  BY <1>1 DEF Clean, FillClean, Behind
<1>4. cache' = [cache EXCEPT ![k] = entry] /\ reader' = [reader EXCEPT ![r] = NoFill]
  BY DEF Store, EndFill
<1> HIDE DEF entry, k
<1>5. cache' \in [Key -> Entry \cup {None}]
  BY <1>2, <1>4 DEF CInv, TypeOK
<1>6. ASSUME NEW c \in Key, cache'[c] # None
      PROVE  Clean(cache'[c].asof, cache'[c].raced, c)
  BY <1>1, <1>3, <1>4, <1>6 DEF CInv, TypeOK
<1> QED
  BY <1>4, <1>5, <1>6, NoFillType, ReaderInv DEF Store

LEMMA LoseFillInv == ASSUME CInv, NEW r \in Reader, LoseFill(r) PROVE CInv'
BY NoFillType, ReaderInv DEF LoseFill, EndFill, CInv, TypeOK

(* A step after which no more is asked of a value: the cache loses entries,  *)
(* writers get on with what they do, values on their way may become raced.  *)
LEMMA WriterInv ==
    ASSUME CInv, NEW w \in Writer, NEW c \in Change,
           writer' = [writer EXCEPT ![w] = c],
           c.phase # "idle" => c.user \in User,
           c.phase = "commit" => c.todo = {},
           version' \in [User -> Nat], announced' \in [User -> Nat],
           \A u \in User : announced'[u] <= version'[u],
           reader' \in [Reader -> Fill],
           cache' \in [Key -> Entry \cup {None}],
           \A r \in Reader : /\ reader'[r].phase = reader[r].phase
                             /\ reader'[r].key = reader[r].key
                             /\ reader'[r].phase = "set" => FillClean(r)',
           \A k \in Key : cache'[k] # None => Clean(cache[k].asof, cache[k].raced, k)'
    PROVE  CInv'
<1>1. TypeOK'
  BY DEF CInv, TypeOK
<1>2. \A v \in Writer : /\ writer'[v].phase # "idle" => writer'[v].user \in User
                       /\ writer'[v].phase = "commit" => writer'[v].todo = {}
  BY DEF CInv, TypeOK
<1> QED
  BY <1>1, <1>2 DEF CInv

(* The same if moreover nothing is announced, no value changes and w is not *)
(* behind more keys than it was.                                            *)
LEMMA QuietInv ==
    ASSUME CInv, NEW w \in Writer, NEW c \in Change,
           writer' = [writer EXCEPT ![w] = c],
           c.phase # "idle" => c.user \in User,
           c.phase = "commit" => c.todo = {},
           \A k \in Key : Pending(w, k)' => Pending(w, k) /\ c.user = writer[w].user,
           \A k \in Key : cache[k] # None /\ Behind(w, c.user, k)' => Behind(w, c.user, k),
           version' \in [User -> Nat], \A u \in User : announced[u] <= version'[u],
           UNCHANGED <<reader, announced, cache>>
    PROVE  CInv'
<1>1. \A v \in Writer \ {w}, k \in Key : Pending(v, k)' <=> Pending(v, k)
  BY DEF Pending, CInv, TypeOK
<1>2. writer'[w] = c /\ \A v \in Writer \ {w} : writer'[v] = writer[v]
  BY DEF CInv, TypeOK
<1>3. ASSUME NEW r \in Reader, reader[r].phase = "set" PROVE FillClean(r)'
  <2>1. FillClean(r) /\ reader[r].key \in Key
    BY <1>3 DEF CInv
  <2>2. ASSUME NEW v \in Writer, NEW u, writer'[v].user = u, Pending(v, reader[r].key)'
        PROVE  writer[v].user = u /\ Pending(v, reader[r].key)
    BY <1>1, <1>2, <2>1, <2>2
  <2> QED
    BY <2>1, <2>2 DEF FillClean
<1>4. ASSUME NEW k \in Key, cache[k] # None PROVE Clean(cache[k].asof, cache[k].raced, k)'
  <2>1. Clean(cache[k].asof, cache[k].raced, k)
    BY <1>4 DEF CInv
  <2>2. ASSUME NEW v \in Writer, NEW u, Behind(v, u, k)' PROVE Behind(v, u, k)
    <3>1. CASE v = w
      BY <1>2, <1>4, <2>2, <3>1 DEF Behind
    <3>2. CASE v # w
      BY <1>1, <1>2, <2>2, <3>2 DEF Behind
    <3> QED
      BY <3>1, <3>2
  <2> QED
    BY <2>1, <2>2 DEF Clean
<1> QED
  BY <1>3, <1>4, WriterInv DEF CInv, TypeOK

LEMMA NoChangeType == NoChange \in Change
BY DEF NoChange, Change

LEMMA WriteInv ==
    ASSUME CInv, NEW w \in Writer, NEW u \in User, NEW e \in BOOLEAN, Write(w, u, e)
    PROVE  CInv'
<1> DEFINE c == [phase |-> IF e THEN "invalidate" ELSE "commit", user |-> u,
                 event |-> e, todo |-> IF e THEN {u} \cup Board ELSE {}, found |-> {}]
<1>1. c \in Change
  BY KeyFacts DEF Change
<1>2. /\ c.user = u
      /\ c.event = e
      /\ c.phase = "commit" => c.todo = {}
      /\ e => c.todo = {u} \cup Board
  OBVIOUS
<1>3. writer' = [writer EXCEPT ![w] = c]
  BY DEF Write
<1> HIDE DEF c
<1>4. \A k \in Key : ~Pending(w, k)'
  <2>1. writer'[w] = c
    BY <1>3 DEF CInv, TypeOK
  <2>2. ASSUME NEW k \in Key, Pending(w, k)' PROVE FALSE
    <3>1. c.event /\ k \in {c.user} \cup Board /\ k \notin c.todo
      BY <2>1, <2>2, Zenon DEF Pending
    <3>2. e
      BY <1>2, <3>1, Zenon
    <3>3. c.todo = {c.user} \cup Board
      BY <1>2, <3>2
    <3> QED
      BY <3>1, <3>3, Zenon
  <2> QED
    BY <2>2
<1>5. /\ \A k \in Key : Pending(w, k)' => Pending(w, k) /\ c.user = writer[w].user
      /\ \A k \in Key : cache[k] # None /\ Behind(w, c.user, k)' => Behind(w, c.user, k)
      /\ c.phase # "idle" => c.user \in User
      /\ c.phase = "commit" => c.todo = {}
  BY <1>2, <1>4 DEF Behind
<1>6. version' \in [User -> Nat] /\ UNCHANGED <<reader, announced, cache, version>>
  BY DEF Write, CInv, TypeOK
<1>7. \A v \in User : announced[v] <= version'[v]
  BY <1>6 DEF CInv
<1> QED
  BY <1>1, <1>3, <1>5, <1>6, <1>7, QuietInv

(* Readers that a change races keep all but that.                           *)
LEMMA Raced ==
    ASSUME CInv, NEW u \in User, NEW K, Race(u, K)
    PROVE  /\ reader' \in [Reader -> Fill]
           /\ \A r \in Reader :
                 /\ reader'[r].phase = reader[r].phase
                 /\ reader'[r].key = reader[r].key
                 /\ reader'[r].asof = reader[r].asof
                 /\ reader[r].raced \subseteq reader'[r].raced
                 /\ reader[r].phase = "set" /\ reader[r].key \in K
                       => u \in reader'[r].raced
<1>1. ASSUME NEW r \in Reader
      PROVE  /\ reader'[r] \in Fill
             /\ reader'[r].phase = reader[r].phase
             /\ reader'[r].key = reader[r].key
             /\ reader'[r].asof = reader[r].asof
             /\ reader[r].raced \subseteq reader'[r].raced
             /\ reader[r].phase = "set" /\ reader[r].key \in K
                   => u \in reader'[r].raced
  <2>1. reader[r] \in Fill
    BY DEF CInv, TypeOK
  <2> QED
    BY <2>1 DEF Race, Fill
<1>2. reader' \in [Reader -> Fill]
  BY <1>1 DEF Race
<1> QED
  BY <1>1, <1>2

(* The change w gets past the key k: it finds no entry there, or deletes or  *)
(* remembers it, and races the values on their way to it.                    *)
LEMMA PassInv ==
    ASSUME CInv, NEW w \in Writer, NEW k \in Key, writer[w].phase = "invalidate",
           NEW c \in Change, writer' = [writer EXCEPT ![w] = c],
           c.phase = writer[w].phase, c.user = writer[w].user, c.event = writer[w].event,
           c.todo = writer[w].todo \ {k}, writer[w].found \subseteq c.found,
           Race(writer[w].user, {k}),
           cache' \in [Key -> Entry \cup {None}],
           \A d \in Key : cache'[d] \in {cache[d], None},
           cache'[k] = None \/ k \in c.found,
           UNCHANGED <<version, announced>>
    PROVE  CInv'
<1> DEFINE u == writer[w].user
<1>1. u \in User
  BY DEF CInv
<1>2. /\ reader' \in [Reader -> Fill]
      /\ \A r \in Reader :
            /\ reader'[r].phase = reader[r].phase
            /\ reader'[r].key = reader[r].key
            /\ reader'[r].asof = reader[r].asof
            /\ reader[r].raced \subseteq reader'[r].raced
            /\ reader[r].phase = "set" /\ reader[r].key \in {k}
                  => u \in reader'[r].raced
  BY <1>1, Raced, Zenon
<1>3. writer'[w] = c /\ \A v \in Writer \ {w} : writer'[v] = writer[v]
  BY DEF CInv, TypeOK
<1>4. \A d \in Key \ {k} : Pending(w, d)' <=> Pending(w, d)
  BY <1>3 DEF Pending
<1>5. \A v \in Writer \ {w}, d \in Key : Pending(v, d)' <=> Pending(v, d)
  BY <1>3 DEF Pending
<1> HIDE DEF u
<1>6. ASSUME NEW r \in Reader, reader'[r].phase = "set" PROVE FillClean(r)'
  <2>1. FillClean(r) /\ reader[r].key \in Key /\ reader[r].phase = "set"
    BY <1>2, <1>6 DEF CInv
  <2>2. ASSUME NEW v \in Writer, NEW x \in Concerns(reader[r].key) \ reader'[r].raced,
               writer'[v].user = x, Pending(v, reader[r].key)'
        PROVE  FALSE
    <3>1. x \in Concerns(reader[r].key) \ reader[r].raced
      BY <1>2
    <3>2. writer[v].user = x
      BY <1>3, <2>2
    <3>3. CASE v = w /\ reader[r].key = k
      BY <1>2, <2>1, <3>2, <3>3 DEF u
    <3>4. CASE ~(v = w /\ reader[r].key = k)
      <4>1. reader'[r].key = reader[r].key
        BY <1>2
      <4>2. Pending(v, reader[r].key)
        BY <1>3, <2>1, <2>2, <3>4, <4>1 DEF Pending
      <4> QED
        BY <2>1, <3>1, <3>2, <4>2 DEF FillClean
    <3> QED
      BY <3>3, <3>4
  <2> QED
    BY <1>2, <2>1, <2>2 DEF FillClean
<1>7. ASSUME NEW d \in Key, cache'[d] # None
      PROVE  Clean(cache[d].asof, cache[d].raced, d)'
  <2>1. cache'[d] = cache[d] /\ Clean(cache[d].asof, cache[d].raced, d)
    BY <1>7 DEF CInv
  <2>2. ASSUME NEW v \in Writer, NEW x, Behind(v, x, d)' PROVE Behind(v, x, d)
    <3>1. CASE v = w /\ d = k
      BY <1>3, <1>7, <2>2, <3>1 DEF Behind
    <3>2. CASE v = w /\ d # k
      BY <1>3, <1>4, <2>2, <3>2 DEF Behind
    <3>3. CASE v # w
      BY <1>3, <1>5, <2>2, <3>3 DEF Behind
    <3> QED
      BY <3>1, <3>2, <3>3
  <2> QED
    BY <2>1, <2>2 DEF Clean
<1>8. \A r \in Reader : /\ reader'[r].phase = reader[r].phase
                        /\ reader'[r].key = reader[r].key
                        /\ reader'[r].phase = "set" => FillClean(r)'
  BY <1>2, <1>6
<1>9. /\ version' \in [User -> Nat] /\ announced' \in [User -> Nat]
      /\ \A x \in User : announced'[x] <= version'[x]
  BY DEF CInv, TypeOK
<1>10. c.phase # "idle" => c.user \in User
  BY <1>1 DEF u
<1>11. c.phase = "commit" => c.todo = {}
  OBVIOUS
<1> QED
  BY <1>2, <1>7, <1>8, <1>9, <1>10, <1>11, WriterInv

LEMMA DeleteStatsInv == ASSUME CInv, NEW w \in Writer, DeleteStats(w) PROVE CInv'
<1> DEFINE k == writer[w].user
           c == [writer[w] EXCEPT !.todo = @ \ {k}]
<1>1. writer[w] \in Change /\ k \in Key
  BY KeyFacts DEF CInv, TypeOK, DeleteStats
<1>2. /\ c \in Change /\ c.phase = writer[w].phase /\ c.user = writer[w].user
      /\ c.event = writer[w].event /\ c.todo = writer[w].todo \ {k}
      /\ c.found = writer[w].found
  BY <1>1 DEF Change
<1>3. writer' = [writer EXCEPT ![w] = c]
  BY DEF DeleteStats, CInv, TypeOK
<1>4. cache' \in [Key -> Entry \cup {None}] /\ cache'[k] = None
  BY <1>1 DEF DeleteStats, CInv, TypeOK
<1>5. \A d \in Key : cache'[d] \in {cache[d], None}
  BY <1>1 DEF DeleteStats, CInv, TypeOK
<1>6. Race(writer[w].user, {k}) /\ UNCHANGED <<version, announced>>
      /\ writer[w].phase = "invalidate"
  BY DEF DeleteStats
<1> HIDE DEF c, k
<1> QED
  BY <1>1, <1>2, <1>3, <1>4, <1>5, <1>6, PassInv

LEMMA ScanInv == ASSUME CInv, NEW w \in Writer, NEW k \in Board, Scan(w, k) PROVE CInv'
<1> DEFINE c == [writer[w] EXCEPT !.todo = @ \ {k},
                                  !.found = IF cache[k] # None THEN @ \cup {k} ELSE @]
<1>1. writer[w] \in Change /\ k \in Key
  BY KeyFacts DEF CInv, TypeOK
<1>2. /\ c \in Change /\ c.phase = writer[w].phase /\ c.user = writer[w].user
      /\ c.event = writer[w].event /\ c.todo = writer[w].todo \ {k}
      /\ writer[w].found \subseteq c.found
      /\ cache[k] = None \/ k \in c.found
  BY <1>1 DEF Change
<1>3. writer' = [writer EXCEPT ![w] = c]
  BY DEF Scan, CInv, TypeOK
<1>4. cache' = cache /\ cache \in [Key -> Entry \cup {None}]
  BY DEF Scan, CInv, TypeOK
<1>6. Race(writer[w].user, {k}) /\ UNCHANGED <<version, announced>>
      /\ writer[w].phase = "invalidate"
  BY DEF Scan
<1> HIDE DEF c
<1>7. /\ \A d \in Key : cache'[d] \in {cache[d], None}
      /\ cache' \in [Key -> Entry \cup {None}]
      /\ cache'[k] = None \/ k \in c.found
  BY <1>2, <1>4
<1> QED
  BY <1>1, <1>2, <1>3, <1>6, <1>7, PassInv

(* Readers keep what they have, if no change gets past their key.            *)
LEMMA FillsKept ==
    ASSUME CInv, UNCHANGED <<reader, announced>>,
           \A v \in Writer, k \in Key :
              Pending(v, k)' => Pending(v, k) /\ writer'[v].user = writer[v].user
    PROVE  \A r \in Reader : reader'[r].phase = "set" => FillClean(r)'
<1> SUFFICES ASSUME NEW r \in Reader, reader[r].phase = "set" PROVE FillClean(r)'
  OBVIOUS
<1>1. FillClean(r) /\ reader[r].key \in Key
  BY DEF CInv
<1> QED
  BY <1>1 DEF FillClean

LEMMA DeleteFoundInv == ASSUME CInv, NEW w \in Writer, DeleteFound(w) PROVE CInv'
<1> DEFINE c == [writer[w] EXCEPT !.phase = "commit"]
<1>1. writer[w] \in Change
  BY DEF CInv, TypeOK
<1>2. /\ c \in Change /\ c.phase = "commit" /\ c.user = writer[w].user
      /\ c.event = writer[w].event /\ c.todo = {} /\ writer[w].todo = {}
      /\ c.found = writer[w].found
  BY <1>1 DEF Change, DeleteFound
<1>3. writer' = [writer EXCEPT ![w] = c]
  BY DEF DeleteFound, CInv, TypeOK
<1> HIDE DEF c
<1>4. writer'[w] = c /\ \A v \in Writer \ {w} : writer'[v] = writer[v]
  BY <1>3 DEF CInv, TypeOK
<1>5. \A v \in Writer, k \in Key :
         Pending(v, k)' => Pending(v, k) /\ writer'[v].user = writer[v].user
  BY <1>2, <1>4 DEF Pending, DeleteFound
<1>6. \A r \in Reader : reader'[r].phase = "set" => FillClean(r)'
  BY <1>5, FillsKept DEF DeleteFound
<1>7. ASSUME NEW k \in Key, cache'[k] # None
      PROVE  Clean(cache[k].asof, cache[k].raced, k)'
  <2>1. k \notin writer[w].found /\ cache'[k] = cache[k]
    BY <1>7 DEF DeleteFound
  <2>2. Clean(cache[k].asof, cache[k].raced, k)
    BY <1>7, <2>1 DEF CInv
  <2>3. ASSUME NEW v \in Writer, NEW u, Behind(v, u, k)' PROVE Behind(v, u, k)
    BY <1>2, <1>4, <1>5, <2>1, <2>3 DEF Behind
  <2> QED
    BY <2>1, <2>2, <2>3 DEF Clean, DeleteFound
<1>8. cache' \in [Key -> Entry \cup {None}]
  BY DEF DeleteFound, CInv, TypeOK
<1>9. c.user \in User
  BY <1>2 DEF CInv, DeleteFound
<1> QED
  BY <1>2, <1>3, <1>6, <1>7, <1>8, <1>9, WriterInv DEF DeleteFound, CInv, TypeOK

(* A change that is behind nothing any more.                                *)
LEMMA DropInv ==
    ASSUME CInv, NEW w \in Writer, NEW c \in Change,
           writer' = [writer EXCEPT ![w] = c], ~c.event,
           c.phase # "idle" => c.user \in User,
           c.phase = "commit" => c.todo = {},
           UNCHANGED <<version, reader, announced, cache>>
    PROVE  CInv'
<1>1. \A k \in Key : ~Pending(w, k)'
  BY DEF Pending, CInv, TypeOK
<1>2. \A k \in Key : ~Behind(w, c.user, k)'
  BY <1>1 DEF Behind
<1>3. version' \in [User -> Nat] /\ \A u \in User : announced[u] <= version'[u]
  BY DEF CInv, TypeOK
<1> QED
  BY <1>1, <1>2, <1>3, QuietInv

LEMMA HandlerFailsInv == ASSUME CInv, NEW w \in Writer, HandlerFails(w) PROVE CInv'
<1> DEFINE c == [writer[w] EXCEPT !.phase = "commit", !.event = FALSE, !.todo = {}]
<1>1. writer[w] \in Change /\ writer[w].user \in User
  BY DEF CInv, TypeOK, HandlerFails
<1>2. c \in Change /\ ~c.event /\ c.todo = {} /\ c.user \in User
  BY <1>1 DEF Change
<1>3. writer' = [writer EXCEPT ![w] = c]
  BY DEF HandlerFails, CInv, TypeOK
<1> HIDE DEF c
<1> QED
  BY <1>2, <1>3, DropInv DEF HandlerFails

LEMMA RollbackInv == ASSUME CInv, NEW w \in Writer, Rollback(w) PROVE CInv'
<1>1. ~NoChange.event /\ NoChange.phase = "idle"
  BY DEF NoChange
<1> QED
  BY <1>1, NoChangeType, DropInv DEF Rollback

(* The commit: everything that is still there was raced by it.              *)
LEMMA CommitInv == ASSUME CInv, NEW w \in Writer, Commit(w) PROVE CInv'
<1> DEFINE u == writer[w].user
<1>1. u \in User /\ writer[w].todo = {} /\ writer[w] \in Change
  BY DEF CInv, TypeOK, Commit
<1>2. /\ writer' = [writer EXCEPT ![w] = NoChange]
      /\ version' = [version EXCEPT ![u] = @ + 1]
      /\ UNCHANGED <<cache, reader>>
  BY DEF Commit
<1>3. writer'[w] = NoChange /\ \A v \in Writer \ {w} : writer'[v] = writer[v]
  BY <1>2 DEF CInv, TypeOK
<1>4. \A k \in Key : ~Pending(w, k)'
  BY <1>3 DEF Pending, NoChange
<1>5. \A v \in Writer, k \in Key :
         Pending(v, k)' => Pending(v, k) /\ writer'[v].user = writer[v].user
  BY <1>3, <1>4 DEF Pending
<1>6. \A v \in Writer, k \in Key, x \in User : Behind(v, x, k)' => Behind(v, x, k)
  BY <1>3, <1>4, <1>5 DEF Behind
<1>7. CASE ~writer[w].event
  <2>1. announced' = announced
    BY <1>7 DEF Commit
  <2>2. \A r \in Reader : reader'[r].phase = "set" => FillClean(r)'
    BY <1>2, <1>5, <2>1, FillsKept
  <2>3. ASSUME NEW k \in Key, cache'[k] # None
        PROVE  Clean(cache[k].asof, cache[k].raced, k)'
    <3>1. Clean(cache[k].asof, cache[k].raced, k)
      BY <1>2, <2>3 DEF CInv
    <3> QED
      BY <1>2, <1>6, <2>1, <3>1, KeyFacts DEF Clean
  <2>4. version' \in [User -> Nat] /\ \A x \in User : announced'[x] <= version'[x]
    BY <1>1, <1>2, <2>1 DEF CInv, TypeOK
  <2> HIDE DEF u
  <2> QED
    BY <1>2, <2>1, <2>2, <2>3, <2>4, NoChangeType, WriterInv DEF CInv, TypeOK, NoChange
<1>8. CASE writer[w].event
  <2>1. announced' = [announced EXCEPT ![u] = version[u] + 1]
    BY <1>8 DEF Commit
  <2>2. \A k \in Key : u \in Concerns(k) => Pending(w, k) /\ Behind(w, u, k)
    BY <1>1, <1>8, KeyFacts DEF Pending, Behind, Commit
  <2>3. ASSUME NEW r \in Reader, reader[r].phase = "set" PROVE FillClean(r)'
    <3>1. FillClean(r) /\ reader[r].key \in Key
      BY <2>3 DEF CInv
    <3>2. u \notin Concerns(reader[r].key) \ reader[r].raced
      BY <2>2, <3>1 DEF FillClean
    <3>3. \A x \in Concerns(reader[r].key) \ reader[r].raced :
             x \in User /\ announced'[x] = announced[x]
      BY <2>1, <3>1, <3>2, KeyFacts DEF CInv, TypeOK
    <3> QED
      BY <1>2, <1>5, <3>1, <3>3 DEF FillClean
  <2>4. ASSUME NEW k \in Key, cache'[k] # None
        PROVE  Clean(cache[k].asof, cache[k].raced, k)'
    <3>1. Clean(cache[k].asof, cache[k].raced, k)
      BY <1>2, <2>4 DEF CInv
    <3>2. u \notin Concerns(k) \ cache[k].raced
      BY <2>2, <3>1 DEF Clean
    <3>3. \A x \in Concerns(k) \ cache[k].raced :
             x \in User /\ announced'[x] = announced[x]
      BY <2>1, <3>2, KeyFacts DEF CInv, TypeOK
    <3> QED
      BY <1>2, <1>6, <3>1, <3>3 DEF Clean
  <2>5. /\ version' \in [User -> Nat] /\ announced' \in [User -> Nat]
        /\ \A x \in User : announced'[x] <= version'[x]
    BY <1>1, <1>2, <2>1 DEF CInv, TypeOK
  <2>6. \A r \in Reader : /\ reader'[r].phase = reader[r].phase
                          /\ reader'[r].key = reader[r].key
                          /\ reader'[r].phase = "set" => FillClean(r)'
    BY <1>2, <2>3
  <2>7. cache' \in [Key -> Entry \cup {None}] /\ reader' \in [Reader -> Fill]
    BY <1>2 DEF CInv, TypeOK
  <2>8. NoChange.phase = "idle"
    BY DEF NoChange
  <2> HIDE DEF u
  <2> QED
    BY <1>2, <2>4, <2>5, <2>6, <2>7, <2>8, NoChangeType, WriterInv
<1> QED
  BY <1>7, <1>8

LEMMA TickInv == ASSUME CInv, Tick PROVE CInv'
<1>1. ASSUME NEW k \in Key
      PROVE  /\ cache'[k] \in Entry \cup {None}
             /\ cache'[k] # None => /\ cache[k] # None
                                    /\ cache'[k].asof = cache[k].asof
                                    /\ cache'[k].raced = cache[k].raced
  <2>1. CASE cache[k] = None \/ cache[k].left = 1
    BY <2>1 DEF Tick
  <2>2. CASE cache[k] # None /\ cache[k].left # 1
    <3>1. cache[k] \in Entry
      BY <2>2 DEF CInv, TypeOK
    <3>2. cache'[k] = [cache[k] EXCEPT !.left = cache[k].left - 1]
      BY <2>2 DEF Tick
    <3>3. cache[k].left - 1 \in Nat \ {0}
      BY <2>2, <3>1 DEF Entry
    <3> QED
      BY <2>2, <3>1, <3>2, <3>3 DEF Entry
  <2> QED
    BY <2>1, <2>2
<1>2. TypeOK'
  BY <1>1 DEF Tick, CInv, TypeOK
<1>3. \A w \in Writer, k \in Key, u \in User : Behind(w, u, k)' <=> Behind(w, u, k)
  BY DEF Tick, Behind, Pending
<1>4. ASSUME NEW k \in Key, cache'[k] # None PROVE Clean(cache[k].asof, cache[k].raced, k)'
  <2>1. Clean(cache[k].asof, cache[k].raced, k)
    BY <1>1, <1>4 DEF CInv
  <2> QED
    BY <1>1, <1>3, <1>4, <2>1, KeyFacts DEF Clean, Tick
<1>5. \A r \in Reader : reader[r].phase = "set" => FillClean(r)'
  BY DEF Tick, CInv, FillClean, Pending
<1> QED
  BY <1>2, <1>4, <1>5 DEF CInv, Tick

LEMMA StutterInv == ASSUME CInv, UNCHANGED vars PROVE CInv'
<1>1. UNCHANGED <<version, cache, reader, writer, announced>>
  BY DEF vars
<1>2. \A w \in Writer, k \in Key, u \in User : Behind(w, u, k)' <=> Behind(w, u, k)
  BY <1>1 DEF Behind, Pending
<1>3. ASSUME NEW k \in Key, cache[k] # None PROVE Clean(cache[k].asof, cache[k].raced, k)'
  BY <1>1, <1>2, <1>3, KeyFacts DEF CInv, Clean
<1>4. \A r \in Reader : reader[r].phase = "set" => FillClean(r)'
  BY <1>1 DEF CInv, FillClean, Pending
<1> QED
  BY <1>1, <1>3, <1>4 DEF CInv, TypeOK

LEMMA NextInv == CInv /\ [Next]_vars => CInv'
<1> SUFFICES ASSUME CInv, [Next]_vars PROVE CInv'
  OBVIOUS
<1>1. ASSUME NEW r \in Reader, NEW k \in Key, Miss(r, k) PROVE CInv'
  BY <1>1, StartInv DEF Miss
<1>2. ASSUME NEW r \in Reader, NEW k \in Key, UpdateLeaderboard(r, k) PROVE CInv'
  BY <1>2, StartInv DEF UpdateLeaderboard
<1>3. ASSUME NEW r \in Reader, FillStep(r) \/ LoseFill(r) PROVE CInv'
  BY <1>3, QueryInv, StoreInv, LoseFillInv DEF FillStep
<1>4. ASSUME NEW w \in Writer, NEW u \in User, NEW e \in BOOLEAN, Write(w, u, e)
      PROVE  CInv'
  BY <1>4, WriteInv
<1>5. ASSUME NEW w \in Writer, WriteStep(w) PROVE CInv'
  BY <1>5, DeleteStatsInv, ScanInv, DeleteFoundInv, CommitInv DEF WriteStep
<1>6. ASSUME NEW w \in Writer, HandlerFails(w) \/ Rollback(w) PROVE CInv'
  BY <1>6, HandlerFailsInv, RollbackInv
<1>7. CASE Tick
  BY <1>7, TickInv
<1>8. CASE UNCHANGED vars
  BY <1>8, StutterInv
<1> QED
  BY <1>1, <1>2, <1>3, <1>4, <1>5, <1>6, <1>7, <1>8, Zenon DEF Next

(* Whatever readers, writers and failures meet, an unraced value is not      *)
(* older than the last announced change.                                    *)
THEOREM CacheInvariance == Spec => []CInv
<1>1. Init => CInv
  BY InitInv
<1>2. CInv /\ [Next]_vars => CInv'
  BY NextInv
<1> QED
  BY <1>1, <1>2, PTL DEF Spec

(* The invalidation misses nothing but what was read while it was under way. *)
THEOREM CacheStaleOnlyByRace == Spec => []StaleOnlyByRace
<1>1. CInv => StaleOnlyByRace
  <2> SUFFICES ASSUME CInv, NEW k \in Key, cache[k] # None, NEW u \in Concerns(k),
                      cache[k].asof[u] < announced[u], u \notin cache[k].raced
               PROVE  FALSE
    BY DEF StaleOnlyByRace
  <2>1. cache[k].asof[u] >= announced[u]
    BY DEF CInv, Clean
  <2>2. u \in User
    BY KeyFacts
  <2>3. cache[k].asof[u] \in Nat /\ announced[u] \in Nat
    BY <2>2 DEF CInv, TypeOK, Entry
  <2> QED
    BY <2>1, <2>3
<1> QED
  BY <1>1, CacheInvariance, PTL
=============================================================================
