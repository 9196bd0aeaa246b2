----------------------------- MODULE RateLimiter ----------------------------
(***************************************************************************)
(* The issuer service's per-client fixed-window limiter                    *)
(* (crates/issuer-service/src/ratelimit.rs) and the middleware that asks   *)
(* it (http.rs: client_ip, limited).  Each route has a limiter of its own, *)
(* a map behind a mutex.  `check` reads the clock BEFORE it takes the      *)
(* mutex, so a request may be counted under an instant that has passed,    *)
(* and two may be counted in the opposite order of their instants.         *)
(*                                                                         *)
(*   address   [family, prefix, host]                                      *)
(*   request   [route, real, claimed, proxied]: the address of the client, *)
(*             the header entries it wrote itself, and whether it comes    *)
(*             by way of the reverse proxy, which is there only if the     *)
(*             service is told to read its header.  The service believes   *)
(*             that header whoever wrote it, so whoever reaches the port   *)
(*             of such a service directly is assumed to write none.        *)
(***************************************************************************)
EXTENDS Integers, Sequences, FiniteSets

CONSTANTS
    None,
    Threads,            \* worker threads of the runtime
    Routes,             \* the limited routes
    limit,              \* config.rate_limits, per route
    Addresses,          \* addresses of clients
    Proxy,              \* the address of the reverse proxy
    ClientIpHeader,     \* whether config.client_ip_header is set
    Requests,
    WINDOW, MAX_TRACKED,
    MaxStall,           \* longest wait for the mutex
    MaxClock,           \* bound on the clock
    MaxRequests         \* bound on the requests of a behaviour

ASSUME LimitsAssumption == limit \in [Routes -> Nat] /\ MAX_TRACKED \in Nat
ASSUME TimesAssumption ==
    /\ WINDOW \in Nat /\ MaxStall \in Nat /\ MaxClock \in Nat
    /\ MaxStall < WINDOW
ASSUME RequestsAssumption ==
    \A r \in Requests :
        /\ r.route \in Routes /\ r.real \in Addresses \ {None}
        /\ r.proxied \in BOOLEAN /\ r.claimed \in Seq(Addresses \cup {None})
        /\ r.proxied => ClientIpHeader
        /\ ~r.proxied /\ ClientIpHeader => r.claimed = <<>>

\* IPv6 clients are keyed by their /64.
key(ip) == IF ip.family = "v4" THEN ip ELSE [ip EXCEPT !.host = 0]
Keys == {key(a) : a \in Addresses \cup {Proxy}}

ASSUME KeysAssumption == IsFiniteSet(Keys) /\ None \notin [start : Int, count : Nat] \cup Int

VARIABLES
    clock,      \* Instant::now
    table,      \* per route and key, [start, count] or None
    thread,     \* per thread: [pc, req, now]; pc is "idle", "lock" or the answer,
                \* and only a thread at "lock" has a request
    admitted,   \* history: per route and client, when it was let in and in
                \* which window it was counted
    asked,      \* history: per route and client, when it was last looked up
    served      \* requests so far

vars == <<clock, table, thread, admitted, asked, served>>

Answered(pc) == [pc |-> pc, req |-> None, now |-> 0]

Init ==
    /\ clock = 0
    /\ table = [r \in Routes |-> [k \in Keys |-> None]]
    /\ thread = [t \in Threads |-> Answered("idle")]
    /\ admitted = [r \in Routes |-> [k \in Keys |-> <<>>]]
    /\ asked = [r \in Routes |-> [k \in Keys |-> None]]
    /\ served = 0

-----------------------------------------------------------------------------
\* The header's lines as they arrive.  The proxy makes one line of what the
\* client sent and appends the address it saw.
header_lines(r) ==
    IF r.proxied THEN <<Append(r.claimed, r.real)>>
    ELSE IF r.claimed = <<>> THEN <<>> ELSE <<r.claimed>>
peer(r) == IF r.proxied THEN Proxy ELSE r.real

rightmost(line) == line[Len(line)]

\* The rightmost entry of the first line if it parses (None does not), else
\* the peer.
client_ip(r) ==
    IF ClientIpHeader /\ header_lines(r) # <<>> /\ rightmost(header_lines(r)[1]) # None
      THEN rightmost(header_lines(r)[1]) ELSE peer(r)

\* duration_since saturates at zero.
age(e, now) == IF now > e.start THEN now - e.start ELSE 0
live(e, now) == age(e, now) < WINDOW

tracked(map) == {k \in Keys : map[k] # None}
full(map) == Cardinality(tracked(map)) >= MAX_TRACKED

\* Mutant: a full table is not swept.
sweep_Never(map, now) == map

\* Mutant: the comparison of the sweep is the wrong way round.
sweep_Live(map, now) ==
    IF full(map)
      THEN [k \in Keys |-> IF map[k] # None /\ ~live(map[k], now) THEN map[k] ELSE None]
      ELSE map

\* Only a full table is swept, of the entries whose window has ended.
sweep(map, now) ==
    IF full(map)
      THEN [k \in Keys |-> IF map[k] # None /\ live(map[k], now) THEN map[k] ELSE None]
      ELSE map

\* The entry of k, new or started over if its window has ended.
entry(map, k, now) ==
    IF map[k] = None \/ ~live(map[k], now) THEN [start |-> now, count |-> 0] ELSE map[k]

\* Mutant: one too many.
exhausted_OffByOne(e, r) == e.count > limit[r]

exhausted(e, r) == e.count >= limit[r]

\* Middleware: the limiter of the route is asked, at the instant read now.
Arrive(t, r) ==
    /\ thread[t].pc # "lock"
    /\ served < MaxRequests
    /\ served' = served + 1
    /\ thread' = [thread EXCEPT ![t] = [pc |-> "lock", req |-> r, now |-> clock]]
    /\ UNCHANGED <<clock, table, admitted, asked>>

\* The histories belong to the client, whatever key it was counted under.
note(h, t, x) == [h EXCEPT ![thread[t].req.route][key(thread[t].req.real)] = x]

\* check_at, under the mutex.  A full table that stays full when swept turns
\* everybody away, known or not.
Check(t) ==
    LET r == thread[t].req.route
        k == key(client_ip(thread[t].req))
        now == thread[t].now
        map == sweep(table[r], now)
        e == entry(map, k, now)
        counted == [e EXCEPT !.count = e.count + 1]
        past == admitted[r][key(thread[t].req.real)]
    IN  /\ thread[t].pc = "lock"
        /\ asked' = note(asked, t, clock)
        /\ \/ /\ full(map)
              /\ table' = [table EXCEPT ![r] = map]
              /\ thread' = [thread EXCEPT ![t] = Answered("limited")]
              /\ UNCHANGED admitted
           \/ /\ ~full(map) /\ exhausted(e, r)
              /\ table' = [table EXCEPT ![r] = [map EXCEPT ![k] = e]]
              /\ thread' = [thread EXCEPT ![t] = Answered("limited")]
              /\ UNCHANGED admitted
           \/ /\ ~full(map) /\ ~exhausted(e, r)
              /\ table' = [table EXCEPT ![r] = [map EXCEPT ![k] = counted]]
              /\ thread' = [thread EXCEPT ![t] = Answered("admitted")]
              /\ admitted' = note(admitted, t, Append(past, [at |-> clock, start |-> e.start]))
        /\ UNCHANGED <<clock, served>>

\* Time passes, but nobody waits longer than MaxStall for the mutex.
Tick ==
    /\ clock < MaxClock
    /\ \A t \in Threads : thread[t].pc = "lock" => clock < thread[t].now + MaxStall
    /\ clock' = clock + 1
    /\ UNCHANGED <<table, thread, admitted, asked, served>>

Next ==
    \/ \E t \in Threads : Check(t) \/ \E r \in Requests : Arrive(t, r)
    \/ Tick

Spec == Init /\ [][Next]_vars

-----------------------------------------------------------------------------
Entry(r) == [start : Int, count : 0 .. limit[r]]

TypeOK ==
    /\ clock \in Nat
    /\ DOMAIN table = Routes /\ \A r \in Routes : table[r] \in [Keys -> Entry(r) \cup {None}]
    /\ thread \in [Threads -> [pc : {"idle", "lock", "limited", "admitted"},
                               req : Requests \cup {None}, now : Int]]
    /\ admitted \in [Routes -> [Keys -> Seq([at : Int, start : Int])]]
    /\ asked \in [Routes -> [Keys -> Int \cup {None}]]
    /\ \A t \in Threads : thread[t].pc = "lock" =>
          /\ thread[t].req \in Requests
          /\ thread[t].now <= clock /\ clock <= thread[t].now + MaxStall

\* "Per-IP fixed-window rate limiter": however windows start and end, entries
\* are swept and instants arrive out of order, a client is let in at most twice
\* its limit within a window's length, less what waiting for the mutex shifts.
AtMostTwiceTheLimit ==
    \A r \in Routes, k \in Keys : \A i, j \in DOMAIN admitted[r][k] :
        j = i + 2 * limit[r] =>
            admitted[r][k][j].at >= admitted[r][k][i].at + WINDOW - MaxStall

(***************************************************************************)
(* Why it holds, as an inductive invariant.                                *)
(***************************************************************************)

\* An admission whose window is over at an instant.
over(x, at) == x.start + WINDOW <= at

\* An entry counts the last admissions of its client; every one before them
\* belongs to a window that is over, and precedes the start of the entry but
\* for a wait for the mutex.
counts(e, past, at) ==
    /\ e.count <= Len(past) /\ e.start <= at
    /\ \A i \in DOMAIN past :
          IF i > Len(past) - e.count
            THEN past[i].start = e.start /\ past[i].at >= e.start
            ELSE over(past[i], at) /\ past[i].at <= e.start + MaxStall

\* Admissions a limit apart are not of one window.
apart(past, n) ==
    \A i, j \in DOMAIN past : j = i + n =>
        /\ past[j].start >= past[i].at - MaxStall
        /\ past[j].at >= past[i].start + WINDOW

tells(e, past, ask, n, at) ==
    /\ apart(past, n)
    /\ \A i \in DOMAIN past : past[i].at <= at
    /\ e = None => \A i \in DOMAIN past : over(past[i], at)
    /\ e # None => counts(e, past, at) /\ ask # None /\ ask >= e.start

LimiterInv ==
    \A r \in Routes, k \in Keys :
        tells(table[r][k], admitted[r][k], asked[r][k], limit[r], clock)

\* ratelimit.rs: the tables are well typed, and count what they must.
TablesInv == TypeOK /\ LimiterInv

\* "Table still full of live entries: fail closed", but no sooner: a client is
\* turned away only if it was let in up to its limit a window ago or later, or
\* if MAX_TRACKED clients of the same route were heard of since then.
recent(at) == at > clock - WINDOW - MaxStall
spent(r, k) == {i \in DOMAIN admitted[r][k] : recent(admitted[r][k][i].at)}
crowd(r) == {k \in Keys : asked[r][k] # None /\ recent(asked[r][k])}

TurnedAwayForCause ==
    [][\A t \in Threads : thread[t].pc = "lock" /\ thread'[t].pc = "limited" =>
          LET r == thread[t].req.route
          IN  \/ Cardinality(spent(r, key(thread[t].req.real))) >= limit[r]
              \/ Cardinality(crowd(r)) >= MAX_TRACKED]_vars

=============================================================================
