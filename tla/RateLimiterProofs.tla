-------------------------- MODULE RateLimiterProofs -------------------------
(***************************************************************************)
(* Proofs about RateLimiter: how often a client is let in, and what may    *)
(* turn it away, for any limits, window and table size.                    *)
(***************************************************************************)
EXTENDS RateLimiter, FiniteSetTheorems, TLAPS

Rows(r) == [Keys -> Entry(r) \cup {None}]

\* A request is counted under the address of its client.
LEMMA CountedAsClient ==
    ASSUME NEW r \in Requests
    PROVE  client_ip(r) = r.real /\ key(r.real) \in Keys
<1> USE RequestsAssumption
<1>1. key(r.real) \in Keys
  BY DEF Keys
<1>2. CASE r.proxied
  <2>1. /\ header_lines(r) # <<>> /\ header_lines(r)[1] = Append(r.claimed, r.real)
        /\ ClientIpHeader /\ r.real # None
    BY <1>2 DEF header_lines
  <2>2. r.claimed \in Seq(Addresses \cup {None}) /\ r.real \in Addresses \cup {None}
    OBVIOUS
  <2>3. rightmost(header_lines(r)[1]) = r.real
    BY <2>1, <2>2 DEF rightmost
  <2> QED
    BY <2>1, <2>3, <1>1 DEF client_ip
<1>3. CASE ~r.proxied
  BY <1>1, <1>3 DEF client_ip, header_lines, peer
<1> QED
  BY <1>2, <1>3

\* An entry that is not live belongs to a window that is over.
LEMMA AgeOfEntries ==
    ASSUME NEW e, e.start \in Int, NEW now \in Int, NEW at \in Int, now <= at
    PROVE  /\ ~live(e, now) => e.start + WINDOW <= at
           /\ live(e, now) => e.start > now - WINDOW
BY TimesAssumption DEF live, age

\* Sweeping drops entries whose window is over, and nothing else.
LEMMA SweepDropsTheDead ==
    ASSUME NEW r \in Routes, NEW map \in Rows(r), NEW now \in Int, NEW at \in Int, now <= at
    PROVE  /\ sweep(map, now) \in Rows(r)
           /\ \A k \in Keys : \/ sweep(map, now)[k] = map[k]
                              \/ /\ sweep(map, now)[k] = None /\ map[k] # None
                                 /\ map[k].start + WINDOW <= at
           /\ full(sweep(map, now)) =>
                \A k \in tracked(sweep(map, now)) :
                    /\ sweep(map, now)[k] = map[k] /\ map[k] # None
                    /\ map[k].start > now - WINDOW
<1>1. \A k \in Keys : map[k] # None => map[k].start \in Int
  BY LimitsAssumption DEF Rows, Entry
<1>2. CASE ~full(map)
  BY <1>2 DEF sweep
<1>3. CASE full(map)
  <2>1. sweep(map, now) = [k \in Keys |-> IF map[k] # None /\ live(map[k], now) THEN map[k] ELSE None]
    BY <1>3 DEF sweep
  <2>2. sweep(map, now) \in Rows(r)
    BY <2>1 DEF Rows
  <2>3. \A k \in Keys : map[k] # None => /\ ~live(map[k], now) => map[k].start + WINDOW <= at
                                         /\ live(map[k], now) => map[k].start > now - WINDOW
    BY <1>1, AgeOfEntries
  <2>4. \A k \in tracked(sweep(map, now)) :
            sweep(map, now)[k] = map[k] /\ map[k] # None /\ live(map[k], now) /\ k \in Keys
    BY <2>1 DEF tracked
  <2> QED
    BY <2>1, <2>2, <2>3, <2>4
<1> QED
  BY <1>2, <1>3

\* The entry a request is counted in: the one it finds, or a new one if there
\* is none whose window lasts.
begun(e, e0, now, at) ==
    \/ e # None /\ e0 = e /\ e.start > now - WINDOW
    \/ e0 = [start |-> now, count |-> 0] /\ (e = None \/ e.start + WINDOW <= at)

LEMMA EntryIsCurrent ==
    ASSUME NEW r \in Routes, NEW map \in Rows(r), NEW k \in Keys,
           NEW now \in Int, NEW at \in Int, now <= at
    PROVE  /\ entry(map, k, now) \in Entry(r)
           /\ begun(map[k], entry(map, k, now), now, at)
<1>1. map[k] = None \/ (map[k] \in Entry(r) /\ map[k].start \in Int)
  <2>1. map[k] = None \/ map[k] \in Entry(r)
    BY DEF Rows
  <2> QED
    BY <2>1 DEF Entry
<1>2. [start |-> now, count |-> 0] \in Entry(r)
  BY LimitsAssumption DEF Entry
<1>3. CASE map[k] = None \/ ~live(map[k], now)
  <2>1. map[k] # None => map[k].start + WINDOW <= at
    BY <1>1, <1>3, AgeOfEntries
  <2> QED
    BY <1>2, <1>3, <2>1 DEF entry, begun
<1>4. CASE ~(map[k] = None \/ ~live(map[k], now))
  <2>1. map[k].start > now - WINDOW
    BY <1>1, <1>4, AgeOfEntries
  <2> QED
    BY <1>1, <1>4, <2>1 DEF entry, begun
<1> QED
  BY <1>3, <1>4

-----------------------------------------------------------------------------
\* What a table row may lose, to a sweep.
forgets(e, e2, at) == e2 = e \/ (e2 = None /\ e # None /\ e.start + WINDOW <= at)

\* One call of check_at, as the invariant sees it: which entry it counts in,
\* and that every other entry of the route is kept or its window is over.
CheckEffect(t) ==
    LET r == thread[t].req.route
        k == key(thread[t].req.real)
        now == thread[t].now
        past == admitted[r][k]
    IN  /\ r \in Routes /\ k \in Keys /\ now \in Int /\ now <= clock /\ clock <= now + MaxStall
        /\ \E row \in Rows(r) :
              /\ table' = [table EXCEPT ![r] = row]
              /\ \A j \in Keys \ {k} : forgets(table[r][j], row[j], clock)
              /\ \/ forgets(table[r][k], row[k], clock) /\ UNCHANGED admitted
                 \/ \E e0 \in Entry(r) : /\ begun(table[r][k], e0, now, clock)
                                         /\ row[k] = e0 /\ UNCHANGED admitted
                 \/ \E e0 \in Entry(r) :
                       /\ begun(table[r][k], e0, now, clock) /\ e0.count < limit[r]
                       /\ row[k] = [e0 EXCEPT !.count = e0.count + 1]
                       /\ admitted' = [admitted EXCEPT ![r][k] =
                                Append(past, [at |-> clock, start |-> e0.start])]
        /\ asked' = [asked EXCEPT ![r][k] = clock]
        /\ UNCHANGED clock

\* After the sweep an entry is as before or gone, and what is begun in it is
\* begun in the row as it was.
LEMMA BegunAfterSweep ==
    ASSUME NEW e, NEW e1, NEW e0, NEW now, NEW at,
           forgets(e, e1, at), begun(e1, e0, now, at)
    PROVE  begun(e, e0, now, at)
BY DEF forgets, begun

\* Below the limit an entry may count one more.
LEMMA EntryCountsOneMore ==
    ASSUME NEW r, limit[r] \in Nat, NEW e \in Entry(r), e.count < limit[r]
    PROVE  [e EXCEPT !.count = e.count + 1] \in Entry(r)
<1>1. e.count \in Nat /\ e.count + 1 \in 0 .. limit[r]
  BY DEF Entry
<1> QED
  BY <1>1 DEF Entry

LEMMA CheckHasEffect ==
    ASSUME TypeOK, NEW t \in Threads, Check(t)
    PROVE  CheckEffect(t)
<1> DEFINE q == thread[t].req
           r == q.route
           k == key(q.real)
           now == thread[t].now
           map == sweep(table[r], now)
           e == entry(map, k, now)
           past == admitted[r][k]
<1>1. /\ q \in Requests /\ now \in Int /\ clock \in Int
      /\ now <= clock /\ clock <= now + MaxStall
  BY DEF TypeOK, Check
<1>2. r \in Routes /\ k \in Keys /\ key(client_ip(q)) = k
  BY <1>1, CountedAsClient, RequestsAssumption
<1>3. table[r] \in Rows(r)
  BY <1>2 DEF TypeOK, Rows
<1>4. /\ map \in Rows(r)
      /\ \A j \in Keys : forgets(table[r][j], map[j], clock)
  BY <1>1, <1>2, <1>3, SweepDropsTheDead DEF forgets
<1>5. e \in Entry(r) /\ begun(map[k], e, now, clock)
  BY <1>1, <1>2, <1>4, EntryIsCurrent
<1>6. begun(table[r][k], e, now, clock)
  BY <1>2, <1>4, <1>5, BegunAfterSweep
<1>7. asked' = [asked EXCEPT ![r][k] = clock] /\ UNCHANGED clock
  BY DEF Check, note
<1> HIDE DEF map, e
<1>11. e.count \in Nat /\ limit[r] \in Nat
  BY <1>2, <1>5, LimitsAssumption DEF Entry
<1>8. CASE full(map) /\ table' = [table EXCEPT ![r] = map] /\ UNCHANGED admitted
  BY <1>1, <1>2, <1>4, <1>7, <1>8 DEF CheckEffect
<1>9. CASE table' = [table EXCEPT ![r] = [map EXCEPT ![k] = e]] /\ UNCHANGED admitted
  <2> DEFINE row == [map EXCEPT ![k] = e]
  <2>1. row \in Rows(r) /\ row[k] = e /\ \A j \in Keys \ {k} : row[j] = map[j]
    BY <1>2, <1>4, <1>5 DEF Rows
  <2> HIDE DEF row
  <2>2. table' = [table EXCEPT ![r] = row]
    BY <1>9 DEF row
  <2> QED
    BY <1>1, <1>2, <1>4, <1>5, <1>6, <1>7, <1>9, <2>1, <2>2 DEF CheckEffect
<1>10. CASE /\ ~(e.count >= limit[r])
            /\ table' = [table EXCEPT ![r] = [map EXCEPT ![k] = [e EXCEPT !.count = e.count + 1]]]
            /\ admitted' = [admitted EXCEPT ![r][k] = Append(past, [at |-> clock, start |-> e.start])]
  <2>8. ~(e.count >= limit[r])
    BY <1>10, Zenon
  <2>5. e.count < limit[r]
    BY <1>11, <2>8
  <2> DEFINE counted == [e EXCEPT !.count = e.count + 1]
             row == [map EXCEPT ![k] = counted]
  <2>1. counted \in Entry(r)
    BY <1>5, <1>11, <2>5, EntryCountsOneMore
  <2> HIDE DEF counted
  <2>2. row \in Rows(r) /\ row[k] = counted /\ \A j \in Keys \ {k} : row[j] = map[j]
    BY <1>2, <1>4, <2>1 DEF Rows
  <2> HIDE DEF row
  <2>3. table' = [table EXCEPT ![r] = row]
    BY <1>10 DEF row, counted
  <2>4. row[k] = [e EXCEPT !.count = e.count + 1]
    BY <2>2 DEF counted
  <2>6. \A j \in Keys \ {k} : forgets(table[r][j], row[j], clock)
    BY <1>4, <2>2
  <2>7. \E e0 \in Entry(r) :
            /\ begun(table[r][k], e0, now, clock) /\ e0.count < limit[r]
            /\ row[k] = [e0 EXCEPT !.count = e0.count + 1]
            /\ admitted' = [admitted EXCEPT ![r][k] =
                                Append(past, [at |-> clock, start |-> e0.start])]
    BY <1>5, <1>6, <1>10, <2>4, <2>5
  <2> QED
    BY <1>1, <1>2, <1>7, <2>2, <2>3, <2>6, <2>7 DEF CheckEffect
<1>12. \/ full(map) /\ table' = [table EXCEPT ![r] = map] /\ UNCHANGED admitted
       \/ table' = [table EXCEPT ![r] = [map EXCEPT ![k] = e]] /\ UNCHANGED admitted
       \/ /\ ~(e.count >= limit[r])
          /\ table' = [table EXCEPT ![r] = [map EXCEPT ![k] = [e EXCEPT !.count = e.count + 1]]]
          /\ admitted' = [admitted EXCEPT ![r][k] = Append(past, [at |-> clock, start |-> e.start])]
  <2> DEFINE k1 == key(client_ip(q))
             e1 == entry(map, k1, now)
  <2>1. e = e1
    BY <1>2 DEF e
  <2>2. \/ full(map) /\ table' = [table EXCEPT ![r] = map] /\ UNCHANGED admitted
        \/ table' = [table EXCEPT ![r] = [map EXCEPT ![k1] = e1]] /\ UNCHANGED admitted
        \/ /\ ~(e1.count >= limit[r])
           /\ table' = [table EXCEPT ![r] = [map EXCEPT ![k1] = [e1 EXCEPT !.count = e1.count + 1]]]
           /\ admitted' = [admitted EXCEPT ![r][k] = Append(past, [at |-> clock, start |-> e1.start])]
    BY DEF Check, note, exhausted, map
  <2> HIDE DEF e1, k1
  <2>3. k1 = k
    BY <1>2 DEF k1
  <2> QED
    BY <2>1, <2>2, <2>3
<1> QED
  BY <1>8, <1>9, <1>10, <1>12, Zenon

-----------------------------------------------------------------------------
\* The types are kept by every step.
LEMMA TypeInit == Init => TypeOK
<1> SUFFICES ASSUME Init PROVE TypeOK
  OBVIOUS
<1>1. <<>> \in Seq([at : Int, start : Int])
  OBVIOUS
<1> QED
  BY <1>1 DEF Init, TypeOK, Answered

LEMMA TypeNext == TypeOK /\ [Next]_vars => TypeOK'
<1> SUFFICES ASSUME TypeOK, [Next]_vars PROVE TypeOK'
  OBVIOUS
<1> USE TimesAssumption
<1>1. ASSUME NEW t \in Threads, Check(t) PROVE TypeOK'
  <2> DEFINE r == thread[t].req.route
             k == key(thread[t].req.real)
  <2>1. CheckEffect(t)
    BY <1>1, CheckHasEffect
  <2>2. r \in Routes /\ k \in Keys /\ clock' = clock
    BY <2>1 DEF CheckEffect
  <2>3. DOMAIN table' = Routes /\ \A q \in Routes : table'[q] \in [Keys -> Entry(q) \cup {None}]
    BY <2>1 DEF CheckEffect, TypeOK, Rows
  <2>4. admitted' \in [Routes -> [Keys -> Seq([at : Int, start : Int])]]
    <3>1. CASE UNCHANGED admitted
      BY <3>1 DEF TypeOK
    <3>2. ASSUME NEW e0 \in Entry(r),
                 admitted' = [admitted EXCEPT ![r][k] =
                    Append(admitted[r][k], [at |-> clock, start |-> e0.start])]
          PROVE  admitted' \in [Routes -> [Keys -> Seq([at : Int, start : Int])]]
      <4>1. [at |-> clock, start |-> e0.start] \in [at : Int, start : Int]
        BY DEF TypeOK, Entry
      <4>2. admitted[r][k] \in Seq([at : Int, start : Int])
        BY <2>2 DEF TypeOK
      <4>3. Append(admitted[r][k], [at |-> clock, start |-> e0.start]) \in Seq([at : Int, start : Int])
        BY <4>1, <4>2
      <4> QED
        BY <3>2, <2>2, <4>3 DEF TypeOK
    <3> QED
      BY <2>1, <3>1, <3>2 DEF CheckEffect
  <2>5. asked' \in [Routes -> [Keys -> Int \cup {None}]]
    <3>1. asked' = [asked EXCEPT ![r][k] = clock]
      BY <2>1 DEF CheckEffect
    <3>2. clock \in Int /\ asked \in [Routes -> [Keys -> Int \cup {None}]]
      BY DEF TypeOK
    <3> QED
      BY <3>1, <3>2, <2>2
  <2>6. /\ thread' \in [Threads -> [pc : {"idle", "lock", "limited", "admitted"},
                                    req : Requests \cup {None}, now : Int]]
        /\ \A u \in Threads : thread'[u].pc = "lock" => thread'[u] = thread[u]
    <3>1. \/ thread' = [thread EXCEPT ![t] = Answered("limited")]
          \/ thread' = [thread EXCEPT ![t] = Answered("admitted")]
      BY <1>1 DEF Check
    <3> DEFINE States == [pc : {"idle", "lock", "limited", "admitted"},
                          req : Requests \cup {None}, now : Int]
    <3>2. \A pc \in {"limited", "admitted"} : Answered(pc) \in States /\ Answered(pc).pc # "lock"
      BY DEF Answered
    <3>3. thread \in [Threads -> States]
      BY DEF TypeOK
    <3> HIDE DEF States
    <3>4. thread' \in [Threads -> States]
      BY <3>1, <3>2, <3>3
    <3>5. \A u \in Threads : thread'[u].pc = "lock" => thread'[u] = thread[u]
      BY <3>1, <3>2, <3>3
    <3> QED
      BY <3>4, <3>5 DEF States
  <2> QED
    BY <2>2, <2>3, <2>4, <2>5, <2>6 DEF TypeOK
<1>2. ASSUME NEW t \in Threads, NEW q \in Requests, Arrive(t, q) PROVE TypeOK'
  BY <1>2 DEF Arrive, TypeOK
<1>3. CASE Tick
  BY <1>3 DEF Tick, TypeOK
<1>4. CASE UNCHANGED vars
  BY <1>4 DEF vars, TypeOK
<1> QED
  BY <1>1, <1>2, <1>3, <1>4 DEF Next

\* The types of the limiters' state: counts never exceed the limit, and a
\* thread at the mutex has waited at most MaxStall.
THEOREM TypeCorrect == Spec => []TypeOK
BY TypeInit, TypeNext, PTL DEF Spec

-----------------------------------------------------------------------------
Past == Seq([at : Int, start : Int])

LEMMA ElementsOf ==
    ASSUME NEW S, NEW s \in Seq(S)
    PROVE  /\ Len(s) \in Nat /\ DOMAIN s = 1 .. Len(s)
           /\ \A i \in DOMAIN s : s[i] \in S
OBVIOUS

LEMMA PastElements ==
    ASSUME NEW past \in Past
    PROVE  /\ Len(past) \in Nat /\ DOMAIN past = 1 .. Len(past)
           /\ \A i \in DOMAIN past : past[i].at \in Int /\ past[i].start \in Int
<1>1. /\ Len(past) \in Nat /\ DOMAIN past = 1 .. Len(past)
      /\ \A i \in DOMAIN past : past[i] \in [at : Int, start : Int]
  BY ElementsOf DEF Past
<1> QED
  BY <1>1

\* What an entry tells stays told as time passes.
LEMMA ToldLater ==
    ASSUME NEW e, NEW past \in Past, NEW ask, NEW n \in Nat, NEW at \in Int, NEW at2 \in Int,
           e # None => e.start \in Int,
           tells(e, past, ask, n, at), at <= at2
    PROVE  tells(e, past, ask, n, at2)
<1>1. \A i \in DOMAIN past : past[i].at \in Int /\ past[i].start \in Int
  BY PastElements
<1>2. \A i \in DOMAIN past : over(past[i], at) => over(past[i], at2)
  BY <1>1, TimesAssumption DEF over
<1>3. e # None => counts(e, past, at2)
  BY <1>2 DEF tells, counts
<1> QED
  BY <1>1, <1>2, <1>3 DEF tells

\* A swept entry had told that all its admissions are over.
LEMMA ToldWhenSwept ==
    ASSUME NEW e, NEW past \in Past, NEW ask, NEW n \in Nat, NEW at \in Int, NEW e2,
           e # None => e.start \in Int,
           tells(e, past, ask, n, at), forgets(e, e2, at)
    PROVE  tells(e2, past, ask, n, at)
<1>1. CASE e2 = e
  BY <1>1
<1>2. CASE e2 = None /\ e # None /\ e.start + WINDOW <= at
  BY <1>2, TimesAssumption DEF tells, counts, over
<1> QED
  BY <1>1, <1>2 DEF forgets

\* Whoever is looked up now was looked up after the entry started.
LEMMA ToldWhenAsked ==
    ASSUME NEW e, NEW past \in Past, NEW ask, NEW n \in Nat, NEW at \in Int,
           tells(e, past, ask, n, at)
    PROVE  tells(e, past, at, n, at)
BY KeysAssumption DEF tells, counts

\* Beginning an entry: whatever it does not count is over.
LEMMA ToldWhenBegun ==
    ASSUME NEW e, NEW past \in Past, NEW ask, NEW n \in Nat, NEW at \in Int, NEW now \in Int,
           NEW e0 \in [start : Int, count : Nat],
           e # None => e.start \in Int,
           now <= at, at <= now + MaxStall,
           tells(e, past, ask, n, at), begun(e, e0, now, at)
    PROVE  tells(e0, past, at, n, at)
<1>1. \A i \in DOMAIN past : past[i].at \in Int /\ past[i].start \in Int
  BY PastElements
<1>2. CASE e # None /\ e0 = e
  BY <1>2, ToldWhenAsked
<1>3. CASE e0 = [start |-> now, count |-> 0] /\ (e = None \/ e.start + WINDOW <= at)
  <2>1. \A i \in DOMAIN past : over(past[i], at)
    BY <1>3, <1>1, TimesAssumption DEF tells, counts, over
  <2>2. \A i \in DOMAIN past : past[i].at <= now + MaxStall
    BY <1>1, TimesAssumption DEF tells
  <2>3. counts(e0, past, at)
    BY <1>1, <1>3, <2>1, <2>2 DEF counts, Past
  <2> QED
    BY <1>3, <2>3, KeysAssumption DEF tells
<1> QED
  BY <1>2, <1>3 DEF begun

\* Counting one more: the admission a limit ago is not counted by the entry,
\* so it is over.
LEMMA ToldWhenAdmitted ==
    ASSUME NEW past \in Past, NEW ask, NEW n \in Nat, NEW at \in Int,
           NEW e \in [start : Int, count : Nat], e.count < n,
           tells(e, past, ask, n, at)
    PROVE  tells([e EXCEPT !.count = e.count + 1],
                 Append(past, [at |-> at, start |-> e.start]), at, n, at)
<1> DEFINE x == [at |-> at, start |-> e.start]
           past2 == Append(past, x)
           e2 == [e EXCEPT !.count = e.count + 1]
<1>1. \A i \in DOMAIN past : past[i].at \in Int /\ past[i].start \in Int
  BY PastElements
<1>2. /\ Len(past) \in Nat /\ DOMAIN past = 1 .. Len(past)
      /\ Len(past2) = Len(past) + 1 /\ DOMAIN past2 = 1 .. Len(past) + 1
      /\ past2[Len(past) + 1] = x
      /\ \A i \in DOMAIN past : past2[i] = past[i]
  BY DEF Past
<1>3. /\ e2.start = e.start /\ e2.count = e.count + 1
      /\ e2 \in [start : Int, count : Nat] /\ x.at = at /\ x.start = e.start /\ e.start \in Int
  OBVIOUS
<1> HIDE DEF past2, e2, x
<1>4. e # None /\ e2 # None /\ at # None
  BY <1>3, KeysAssumption
<1>5. counts(e, past, at)
  BY <1>4 DEF tells
<1>6. counts(e2, past2, at)
  BY <1>1, <1>2, <1>3, <1>5 DEF counts
<1>7. apart(past2, n)
  <2> SUFFICES ASSUME NEW i \in DOMAIN past2, NEW j \in DOMAIN past2, j = i + n
               PROVE  /\ past2[j].start >= past2[i].at - MaxStall
                      /\ past2[j].at >= past2[i].start + WINDOW
    BY DEF apart
  <2>1. CASE j \in DOMAIN past
    BY <1>2, <2>1 DEF tells, apart
  <2>2. CASE j = Len(past) + 1
    <3>1. i \in DOMAIN past /\ ~(i > Len(past) - e.count)
      BY <1>2, <2>2
    <3>2. over(past[i], at) /\ past[i].at <= e.start + MaxStall
      BY <3>1, <1>5 DEF counts
    <3>3. past2[i] = past[i] /\ past2[j] = x /\ i \in DOMAIN past
      BY <1>2, <2>2, <3>1
    <3> QED
      BY <1>1, <1>3, <3>2, <3>3, TimesAssumption DEF over
  <2> QED
    BY <1>2, <2>1, <2>2
<1>8. \A i \in DOMAIN past2 : past2[i].at <= at
  BY <1>2, <1>3 DEF tells
<1>9. at >= e2.start
  BY <1>3, <1>5 DEF counts
<1> QED
  BY <1>4, <1>6, <1>7, <1>8, <1>9 DEF tells, e2, past2, x

-----------------------------------------------------------------------------
LEMMA RowTypes ==
    ASSUME TypeOK, NEW r \in Routes, NEW k \in Keys
    PROVE  /\ limit[r] \in Nat /\ clock \in Int
           /\ admitted[r][k] \in Past
           /\ table[r][k] # None => table[r][k].start \in Int
           /\ Entry(r) \subseteq [start : Int, count : Nat]
<1>1. limit[r] \in Nat /\ clock \in Int /\ admitted[r][k] \in Past
  BY LimitsAssumption DEF TypeOK, Past
<1>2. table[r][k] \in Entry(r) \cup {None}
  BY DEF TypeOK
<1> QED
  BY <1>1, <1>2 DEF Entry

LEMMA KeptElsewhere ==
    ASSUME NEW A, NEW B, NEW S, NEW f \in [A -> [B -> S]], NEW a, NEW b, NEW x,
           NEW c \in A, NEW d \in B, ~(c = a /\ d = b)
    PROVE  [f EXCEPT ![a][b] = x][c][d] = f[c][d]
OBVIOUS

LEMMA InvInit == Init => LimiterInv
<1> SUFFICES ASSUME Init, NEW r \in Routes, NEW k \in Keys
             PROVE  tells(table[r][k], admitted[r][k], asked[r][k], limit[r], clock)
  BY DEF LimiterInv
<1>1. table[r][k] = None /\ admitted[r][k] = <<>>
  BY DEF Init
<1> QED
  BY <1>1 DEF tells, apart

LEMMA InvNext == TypeOK /\ LimiterInv /\ [Next]_vars => LimiterInv'
<1> SUFFICES ASSUME TypeOK, LimiterInv, [Next]_vars PROVE LimiterInv'
  OBVIOUS
<1>1. ASSUME NEW t \in Threads, Check(t) PROVE LimiterInv'
  <2> DEFINE r == thread[t].req.route
             k == key(thread[t].req.real)
             now == thread[t].now
  <2>1. CheckEffect(t)
    BY <1>1, CheckHasEffect
  <2>2. /\ r \in Routes /\ k \in Keys /\ now \in Int
        /\ now <= clock /\ clock <= now + MaxStall
        /\ clock' = clock /\ asked' = [asked EXCEPT ![r][k] = clock]
    BY <2>1 DEF CheckEffect
  <2>3. PICK row \in Rows(r) :
          /\ table' = [table EXCEPT ![r] = row]
          /\ \A j \in Keys \ {k} : forgets(table[r][j], row[j], clock)
          /\ \/ forgets(table[r][k], row[k], clock) /\ UNCHANGED admitted
             \/ \E e0 \in Entry(r) : /\ begun(table[r][k], e0, now, clock)
                                     /\ row[k] = e0 /\ UNCHANGED admitted
             \/ \E e0 \in Entry(r) :
                   /\ begun(table[r][k], e0, now, clock) /\ e0.count < limit[r]
                   /\ row[k] = [e0 EXCEPT !.count = e0.count + 1]
                   /\ admitted' = [admitted EXCEPT ![r][k] =
                            Append(admitted[r][k], [at |-> clock, start |-> e0.start])]
    BY <2>1 DEF CheckEffect
  <2> SUFFICES ASSUME NEW q \in Routes, NEW j \in Keys
               PROVE  tells(table'[q][j], admitted'[q][j], asked'[q][j], limit[q], clock)
    BY <2>2 DEF LimiterInv
  <2> DEFINE e == table[q][j]
             past == admitted[q][j]
             ask == asked[q][j]
  <2>4. /\ limit[q] \in Nat /\ clock \in Int /\ past \in Past
        /\ e # None => e.start \in Int
        /\ tells(e, past, ask, limit[q], clock)
        /\ Entry(q) \subseteq [start : Int, count : Nat]
    BY RowTypes DEF LimiterInv
  <2>5. table'[q] = (IF q = r THEN row ELSE table[q])
    BY <2>2, <2>3 DEF TypeOK
  <2>6. asked'[q][j] = (IF q = r /\ j = k THEN clock ELSE ask)
    BY <2>2 DEF TypeOK
  <2>7. \/ UNCHANGED admitted
        \/ \E x : admitted' = [admitted EXCEPT ![r][k] = x]
    BY <2>3
  <2>8. ~(q = r /\ j = k) => admitted'[q][j] = past
    <3>1. admitted \in [Routes -> [Keys -> Past]]
      BY DEF TypeOK, Past
    <3>2. CASE UNCHANGED admitted
      BY <3>2
    <3>3. ASSUME NEW x, admitted' = [admitted EXCEPT ![r][k] = x], ~(q = r /\ j = k)
          PROVE  admitted'[q][j] = past
      BY <3>1, <3>3, KeptElsewhere
    <3> QED
      BY <2>7, <3>2, <3>3
  <2> HIDE DEF e, past, ask
  <2>9. CASE q # r
    BY <2>4, <2>5, <2>6, <2>8, <2>9 DEF e
  <2>10. CASE q = r /\ j # k
    <3>1. forgets(e, row[j], clock)
      BY <2>3, <2>10 DEF e
    <3> QED
      BY <2>4, <2>5, <2>6, <2>8, <2>10, <3>1, ToldWhenSwept
  <2>11. CASE q = r /\ j = k
    <3>1. table'[q][j] = row[j] /\ asked'[q][j] = clock
      BY <2>5, <2>6, <2>11
    <3>2. CASE forgets(table[r][k], row[k], clock) /\ UNCHANGED admitted
      <4>1. tells(row[j], past, ask, limit[q], clock)
        BY <2>4, <2>11, <3>2, ToldWhenSwept DEF e
      <4>2. tells(row[j], past, clock, limit[q], clock)
        BY <2>4, <4>1, ToldWhenAsked
      <4> QED
        BY <3>1, <3>2, <4>2 DEF past
    <3>3. ASSUME NEW e0 \in Entry(r), begun(table[r][k], e0, now, clock),
                 row[k] = e0, UNCHANGED admitted
          PROVE  tells(table'[q][j], admitted'[q][j], asked'[q][j], limit[q], clock)
      <4>1. begun(e, e0, now, clock) /\ e0 \in [start : Int, count : Nat]
        BY <2>4, <2>11, <3>3 DEF e
      <4>2. tells(e0, past, clock, limit[q], clock)
        BY <2>2, <2>4, <4>1, ToldWhenBegun
      <4> QED
        BY <2>11, <3>1, <3>3, <4>2 DEF past
    <3>4. ASSUME NEW e0 \in Entry(r), begun(table[r][k], e0, now, clock), e0.count < limit[r],
                 row[k] = [e0 EXCEPT !.count = e0.count + 1],
                 admitted' = [admitted EXCEPT ![r][k] =
                            Append(admitted[r][k], [at |-> clock, start |-> e0.start])]
          PROVE  tells(table'[q][j], admitted'[q][j], asked'[q][j], limit[q], clock)
      <4>1. begun(e, e0, now, clock) /\ e0 \in [start : Int, count : Nat]
        BY <2>4, <2>11, <3>4 DEF e
      <4>2. tells(e0, past, clock, limit[q], clock)
        BY <2>2, <2>4, <4>1, ToldWhenBegun
      <4>3. tells([e0 EXCEPT !.count = e0.count + 1],
                  Append(past, [at |-> clock, start |-> e0.start]), clock, limit[q], clock)
        BY <2>4, <2>11, <3>4, <4>1, <4>2, ToldWhenAdmitted
      <4>4. admitted'[q][j] = Append(past, [at |-> clock, start |-> e0.start])
        BY <2>2, <2>11, <3>4 DEF TypeOK, past
      <4> QED
        BY <2>11, <3>1, <3>4, <4>3, <4>4
    <3> QED
      BY <2>3, <3>2, <3>3, <3>4
  <2> QED
    BY <2>9, <2>10, <2>11
<1>2. ASSUME NEW t \in Threads, NEW q \in Requests, Arrive(t, q) PROVE LimiterInv'
  BY <1>2 DEF Arrive, LimiterInv
<1>3. CASE Tick
  <2> SUFFICES ASSUME NEW r \in Routes, NEW k \in Keys
               PROVE  tells(table'[r][k], admitted'[r][k], asked'[r][k], limit[r], clock')
    BY DEF LimiterInv
  <2>1. UNCHANGED <<table, admitted, asked>> /\ clock' = clock + 1
    BY <1>3 DEF Tick
  <2>2. tells(table[r][k], admitted[r][k], asked[r][k], limit[r], clock)
    BY DEF LimiterInv
  <2>3. clock' \in Int /\ clock <= clock'
    BY <2>1, RowTypes
  <2>4. tells(table[r][k], admitted[r][k], asked[r][k], limit[r], clock')
    BY <2>2, <2>3, RowTypes, ToldLater
  <2> QED
    BY <2>1, <2>4
<1>4. CASE UNCHANGED vars
  BY <1>4 DEF vars, LimiterInv
<1> QED
  BY <1>1, <1>2, <1>3, <1>4 DEF Next

\* What every entry tells of its client's admissions, as an invariant.
THEOREM LimiterInvariant == Spec => [](TypeOK /\ LimiterInv)
<1>1. Init => TypeOK /\ LimiterInv
  BY TypeInit, InvInit
<1>2. TypeOK /\ LimiterInv /\ [Next]_vars => (TypeOK /\ LimiterInv)'
  BY TypeNext, InvNext
<1> QED
  BY <1>1, <1>2, PTL DEF Spec

\* ratelimit.rs: types and counts together, as the run checks them.
THEOREM TablesInvariant == Spec => []TablesInv
<1> QED
  BY TypeCorrect, LimiterInvariant, PTL DEF TablesInv

\* ratelimit.rs: a client is let in at most twice its limit within a window's
\* length, less the longest wait for the mutex.
THEOREM TwiceTheLimit == Spec => []AtMostTwiceTheLimit
<1>1. TypeOK /\ LimiterInv => AtMostTwiceTheLimit
  <2> SUFFICES ASSUME TypeOK, LimiterInv, NEW r \in Routes, NEW k \in Keys,
                      NEW i \in DOMAIN admitted[r][k], NEW j \in DOMAIN admitted[r][k],
                      j = i + 2 * limit[r]
               PROVE  admitted[r][k][j].at >= admitted[r][k][i].at + WINDOW - MaxStall
    BY DEF AtMostTwiceTheLimit
  <2> DEFINE past == admitted[r][k]
             m == i + limit[r]
  <2>1. past \in Past /\ limit[r] \in Nat /\ apart(past, limit[r])
    BY RowTypes DEF LimiterInv, tells
  <2> HIDE DEF past
  <2>2. i \in DOMAIN past /\ j \in DOMAIN past
    BY DEF past
  <2>5. DOMAIN past = 1 .. Len(past) /\ Len(past) \in Nat
    BY <2>1, PastElements
  <2>6. m \in DOMAIN past /\ j = m + limit[r]
    BY <2>1, <2>2, <2>5
  <2>3. past[m].start >= past[i].at - MaxStall /\ past[j].at >= past[m].start + WINDOW
    BY <2>1, <2>2, <2>6 DEF apart
  <2>4. past[m].start \in Int /\ past[i].at \in Int /\ past[j].at \in Int
    BY <2>1, <2>2, <2>6, PastElements
  <2> QED
    BY <2>3, <2>4, TimesAssumption DEF past
<1> QED
  BY <1>1, LimiterInvariant, PTL

-----------------------------------------------------------------------------
\* A full table holds as many clients heard of within the window.
LEMMA CrowdedWhenFull ==
    ASSUME TypeOK, LimiterInv, NEW r \in Routes, NEW now \in Int,
           now <= clock, clock <= now + MaxStall, full(sweep(table[r], now))
    PROVE  Cardinality(crowd(r)) >= MAX_TRACKED
<1> DEFINE map == sweep(table[r], now)
<1>1. table[r] \in Rows(r) /\ clock \in Int
  BY DEF TypeOK, Rows
<1>2. \A k \in tracked(map) : table[r][k] # None /\ table[r][k].start > now - WINDOW
  BY <1>1, SweepDropsTheDead
<1>3. \A k \in tracked(map) : k \in crowd(r)
  <2> SUFFICES ASSUME NEW k \in tracked(map) PROVE k \in crowd(r)
    OBVIOUS
  <2>1. k \in Keys
    BY DEF tracked
  <2>2. asked[r][k] # None /\ asked[r][k] >= table[r][k].start
    BY <1>2, <2>1 DEF LimiterInv, tells
  <2>3. asked[r][k] \in Int /\ table[r][k].start \in Int
    BY <1>2, <2>1, <2>2, RowTypes DEF TypeOK
  <2> QED
    BY <1>1, <1>2, <2>1, <2>2, <2>3, TimesAssumption DEF crowd, recent
<1>4. IsFiniteSet(crowd(r))
  BY KeysAssumption, FS_Subset DEF crowd
<1>5. tracked(map) \subseteq crowd(r)
  BY <1>3
<1>6. Cardinality(tracked(map)) <= Cardinality(crowd(r))
  BY <1>4, <1>5, FS_Subset
<1>7. Cardinality(tracked(map)) \in Nat /\ Cardinality(crowd(r)) \in Nat
  BY <1>4, <1>5, FS_Subset, FS_CardinalityType
<1>8. Cardinality(tracked(map)) >= MAX_TRACKED
  BY DEF full
<1> QED
  BY <1>6, <1>7, <1>8, LimitsAssumption

\* The last c of n places.
LEMMA LastPlaces ==
    ASSUME NEW n \in Nat, NEW c \in Nat, c <= n
    PROVE  /\ IsFiniteSet((n - c + 1) .. n)
           /\ Cardinality((n - c + 1) .. n) = c
<1>1. n - c + 1 \in Int /\ n \in Int
  OBVIOUS
<1>2. /\ IsFiniteSet((n - c + 1) .. n)
      /\ Cardinality((n - c + 1) .. n) = IF n - c + 1 > n THEN 0 ELSE n - (n - c + 1) + 1
  BY <1>1, FS_Interval
<1> QED
  BY <1>2

\* An entry that is used up has as many admissions within the window.
LEMMA SpentWhenExhausted ==
    ASSUME TypeOK, LimiterInv, NEW r \in Routes, NEW k \in Keys, NEW now \in Int,
           now <= clock, clock <= now + MaxStall,
           NEW e \in Entry(r), begun(table[r][k], e, now, clock), exhausted(e, r)
    PROVE  Cardinality(spent(r, k)) >= limit[r]
<1> DEFINE past == admitted[r][k]
           last == (Len(past) - e.count + 1) .. Len(past)
<1>1. /\ limit[r] \in Nat /\ clock \in Int /\ past \in Past
      /\ e.start \in Int /\ e.count \in Nat /\ e.count >= limit[r]
  BY RowTypes, LimitsAssumption DEF Entry, exhausted
<1>2. /\ Len(past) \in Nat /\ DOMAIN past = 1 .. Len(past)
      /\ \A i \in DOMAIN past : past[i].at \in Int
  BY <1>1, PastElements
<1>3. IsFiniteSet(spent(r, k)) /\ Cardinality(spent(r, k)) \in Nat
  <2>1. IsFiniteSet(DOMAIN past)
    BY <1>2, FS_Interval
  <2> QED
    BY <2>1, FS_Subset, FS_CardinalityType DEF spent
<1>4. CASE limit[r] = 0
  BY <1>3, <1>4
<1>5. CASE limit[r] # 0
  <2>1. table[r][k] # None /\ table[r][k] = e /\ e.start > now - WINDOW
    BY <1>1, <1>5 DEF begun
  <2>2. counts(e, past, clock)
    BY <2>1 DEF LimiterInv, tells
  <2>3. \A i \in last : i \in DOMAIN past /\ past[i].at >= e.start
    BY <1>1, <1>2, <2>2 DEF counts
  <2>4. last \subseteq spent(r, k)
    <3>1. SUFFICES ASSUME NEW i \in last PROVE i \in spent(r, k)
      OBVIOUS
    <3>2. i \in DOMAIN past /\ past[i].at >= e.start
      BY <2>3
    <3>3. past[i].at \in Int /\ WINDOW \in Int /\ MaxStall \in Int
      BY <1>2, <3>2, TimesAssumption
    <3> HIDE DEF last, past
    <3>4. past[i].at > clock - WINDOW - MaxStall
      BY <1>1, <2>1, <3>2, <3>3
    <3> QED
      BY <3>2, <3>4 DEF spent, recent, past
  <2>5. Cardinality(last) = e.count /\ IsFiniteSet(last)
    <3>1. e.count <= Len(past)
      BY <2>2 DEF counts
    <3> QED
      BY <1>1, <1>2, <3>1, LastPlaces
  <2>6. Cardinality(last) <= Cardinality(spent(r, k))
    BY <1>3, <2>4, FS_Subset
  <2> QED
    BY <1>1, <1>3, <2>5, <2>6
<1> QED
  BY <1>4, <1>5

\* ratelimit.rs: nobody is turned away but for using up the limit or because
\* MAX_TRACKED clients were heard of within the window.
THEOREM TurnedAwayOnlyForCause == Spec => TurnedAwayForCause
<1> DEFINE Cause(t) ==
        LET r == thread[t].req.route
        IN  \/ Cardinality(spent(r, key(thread[t].req.real))) >= limit[r]
            \/ Cardinality(crowd(r)) >= MAX_TRACKED
<1>1. ASSUME TypeOK, LimiterInv, [Next]_vars, NEW t \in Threads,
             thread[t].pc = "lock", thread'[t].pc = "limited"
      PROVE  Cause(t)
  <2> DEFINE q == thread[t].req
             r == q.route
             k == key(q.real)
             now == thread[t].now
             map == sweep(table[r], now)
             e == entry(map, k, now)
  <2>1. /\ q \in Requests /\ now \in Int /\ clock \in Int
        /\ now <= clock /\ clock <= now + MaxStall
    BY <1>1 DEF TypeOK
  <2>2. r \in Routes /\ k \in Keys /\ key(client_ip(q)) = k
    BY <2>1, CountedAsClient, RequestsAssumption
  <2>3. Check(t)
    <3>1. ASSUME NEW u \in Threads, Check(u), u # t PROVE FALSE
      BY <1>1, <3>1 DEF Check, TypeOK
    <3>2. ASSUME NEW u \in Threads, NEW x \in Requests, Arrive(u, x) PROVE FALSE
      BY <1>1, <3>2 DEF Arrive, TypeOK
    <3>3. ~Tick /\ ~UNCHANGED vars
      BY <1>1 DEF Tick, vars
    <3> QED
      BY <1>1, <3>1, <3>2, <3>3 DEF Next
  <2>4. full(map) \/ exhausted(e, r)
    <3> DEFINE e1 == entry(map, key(client_ip(q)), now)
    <3>1. e1 = e
      BY <2>2
    <3>2. full(map) \/ exhausted(e1, r) \/ thread' = [thread EXCEPT ![t] = Answered("admitted")]
      BY <2>3 DEF Check
    <3>3. thread' # [thread EXCEPT ![t] = Answered("admitted")]
      BY <1>1 DEF Answered, TypeOK
    <3> QED
      BY <3>1, <3>2, <3>3
  <2>5. map \in Rows(r) /\ forgets(table[r][k], map[k], clock)
    <3>1. table[r] \in Rows(r)
      BY <1>1, <2>2 DEF TypeOK, Rows
    <3> QED
      BY <2>1, <2>2, <3>1, SweepDropsTheDead DEF forgets
  <2>6. e \in Entry(r) /\ begun(map[k], e, now, clock)
    BY <2>1, <2>2, <2>5, EntryIsCurrent
  <2>7. begun(table[r][k], e, now, clock)
    BY <2>5, <2>6, BegunAfterSweep
  <2>8. CASE full(map)
    BY <1>1, <2>1, <2>2, <2>8, CrowdedWhenFull
  <2>9. CASE exhausted(e, r)
    BY <1>1, <2>1, <2>2, <2>6, <2>7, <2>9, SpentWhenExhausted
  <2> QED
    BY <2>4, <2>8, <2>9
<1>2. TypeOK /\ LimiterInv /\ [Next]_vars =>
        [\A t \in Threads : thread[t].pc = "lock" /\ thread'[t].pc = "limited" => Cause(t)]_vars
  BY <1>1
<1> QED
  BY <1>2, LimiterInvariant, PTL DEF Spec, TurnedAwayForCause

=============================================================================
