---------------------- MODULE EnrollmentServiceProofs -----------------------
(***************************************************************************)
(* Enrollment keeps its tables consistent for any number of handlers,      *)
(* challenges and bodies.  Every step has one of seven effects (StepKinds);*)
(* each part of the inductive invariant TablesInv is shown for the effects *)
(* that can disturb it.                                                    *)
(***************************************************************************)
EXTENDS EnrollmentService, FiniteSetTheorems, TLAPS

USE TimesAssumption, RequestsAssumption, NoneAssumption

-----------------------------------------------------------------------------
\* What a step of handler h does to the handlers: only h moves on, with the
\* same body and the same user id.
Moved(h, pc, response) ==
    handler' = [handler EXCEPT ![h] =
        [pc |-> pc, req |-> Req(h), user_id |-> Locals(h).user_id, response |-> response]]

\* The challenge of h is consumed; h goes on only if it was verified.
ConsumeStep(h) ==
    /\ At(h, "consume") /\ consumable(Req(h).challenge_id) /\ consume(Req(h).challenge_id)
    /\ \E pc \in Pcs, a \in Responses \cup {None} :
          /\ Moved(h, pc, a)
          /\ \/ pc = "insert_user" /\ verify_enrollment(Req(h), Req(h).challenge_id) = "ok"
             \/ /\ pc \in {"audit_reject", "replied"}
                /\ a \in Responses \ {"Enrolled", "AlreadyEnrolled"}
    /\ UNCHANGED <<clock, created, users, devices, audit, rejections, served>>

\* The transaction of h becomes visible.
CommitStep(h) ==
    /\ At(h, "commit") /\ committed(h)
    /\ \E a \in Responses \ {"AlreadyEnrolled"} : Moved(h, "replied", a)
    /\ UNCHANGED <<clock, challenges, created, attempts, rejections, served>>

\* h moves on and no table but the rejections changes.
HandlerStep(h) ==
    /\ ~Free(h)
    /\ \E pc \in Pcs \ {"idle"}, a \in Responses \cup {None} :
          /\ Moved(h, pc, a)
          /\ pc \in {"insert_user", "insert_device", "audit", "commit"} => Enrolling(h)
          /\ pc \in {"audit", "commit"} =>
                HoldsKey(h) \/ (~taken(device_of(h)) /\ ~contended(device_of(h)))
          /\ pc \in {"audit_reject", "replied"} => a \in Responses /\
                \/ a \notin {"Enrolled", "AlreadyEnrolled"}
                \/ a = "AlreadyEnrolled" /\ taken(device_of(h))
                \/ a = Locals(h).response /\ At(h, "audit_reject")
    /\ rejections' \subseteq Responses
    /\ UNCHANGED <<clock, challenges, created, attempts, users, devices, audit, served>>

ServiceStep ==
    \/ \E h \in Handlers, r \in Requests : Receive(h, r)
    \/ \E h \in Handlers : ConsumeStep(h) \/ CommitStep(h) \/ HandlerStep(h)
    \/ \E c \in Challenges : CreateChallenge(c)
    \/ Purge
    \/ Tick

-----------------------------------------------------------------------------
LEMMA HandlerTyped ==
    ASSUME TypeOK, NEW h \in Handlers
    PROVE  /\ Locals(h) \in HandlerStates /\ Locals(h).pc \in Pcs
           /\ Locals(h).response \in Responses \cup {None}
           /\ Locals(h).user_id \in Nat
           /\ At(h, "audit_reject") => Locals(h).response \in Responses
           /\ ~Free(h) => Req(h) \in Requests /\ Req(h).challenge_id \in Challenges
    BY DEF TypeOK, HandlerStates, Locals, Req, Free, At

\* The three ways a handler moves on.
LEMMA HandlerMoves ==
    ASSUME TypeOK, NEW h \in Handlers, NEW pc, NEW a
    PROVE  /\ Goto(h, pc) => Moved(h, pc, Locals(h).response)
           /\ Reply(h, a) => Moved(h, "replied", a)
           /\ Reject(h, a) => Moved(h, "audit_reject", a)
<1>1. Locals(h) \in HandlerStates
    BY HandlerTyped
<1>2. [Locals(h) EXCEPT !.pc = pc] =
        [pc |-> pc, req |-> Req(h), user_id |-> Locals(h).user_id, response |-> Locals(h).response]
    BY <1>1 DEF HandlerStates, Req
<1>3. ASSUME NEW q
      PROVE  [[Locals(h) EXCEPT !.pc = q] EXCEPT !.response = a] =
                [pc |-> q, req |-> Req(h), user_id |-> Locals(h).user_id, response |-> a]
    <2> DEFINE s == [pc |-> q, req |-> Req(h), user_id |-> Locals(h).user_id,
                     response |-> Locals(h).response]
    <2>1. [Locals(h) EXCEPT !.pc = q] = s
        BY <1>1 DEF HandlerStates, Req
    <2>2. [s EXCEPT !.response = a] =
            [pc |-> q, req |-> Req(h), user_id |-> Locals(h).user_id, response |-> a]
        OBVIOUS
    <2>3. QED  BY <2>1, <2>2
<1>4. Goto(h, pc) => handler' = [handler EXCEPT ![h] = [Locals(h) EXCEPT !.pc = pc]]
    BY DEF Goto, Locals
<1>5. Reply(h, a) => handler' =
        [handler EXCEPT ![h] = [[Locals(h) EXCEPT !.pc = "replied"] EXCEPT !.response = a]]
    BY DEF Reply, Locals, TypeOK
<1>6. Reject(h, a) => handler' =
        [handler EXCEPT ![h] = [[Locals(h) EXCEPT !.pc = "audit_reject"] EXCEPT !.response = a]]
    BY DEF Reject, Locals, TypeOK
<1>7. QED  BY <1>2, <1>3, <1>4, <1>5, <1>6 DEF Moved

\* Every step of the specification has one of the effects above.
LEMMA StepKinds ==
    ASSUME TypeOK, [Next]_vars
    PROVE  ServiceStep \/ UNCHANGED vars
<1>0. rejections \subseteq Responses
    BY DEF TypeOK
<1>1. ASSUME NEW h \in Handlers, ConsumeAndVerify(h) PROVE ServiceStep
    <2> DEFINE c == Req(h).challenge_id
               v == verify_enrollment(Req(h), c)
    <2>1. At(h, "consume") /\ ~Free(h)
          /\ UNCHANGED <<clock, created, users, devices, audit, rejections, served>>
        BY <1>1 DEF ConsumeAndVerify, At, Free
    <2>2. CASE /\ ~consumable(c) /\ Reject(h, "InvalidChallenge")
               /\ UNCHANGED <<challenges, attempts>>
        <3>1. Moved(h, "audit_reject", "InvalidChallenge")
            BY <2>2, HandlerMoves
        <3>2. "audit_reject" \in Pcs \ {"idle"} /\ "InvalidChallenge" \in Responses
            BY DEF Pcs, Responses
        <3>3. HandlerStep(h)
            BY <1>0, <2>1, <2>2, <3>1, <3>2 DEF HandlerStep
        <3>4. QED  BY <3>3 DEF ServiceStep
    <2>3. CASE /\ consumable(c) /\ consume(c)
               /\ IF v = "ok" THEN Goto(h, "insert_user") ELSE Reject(h, v)
        <3>1. CASE v = "ok"
            BY <2>1, <2>3, <3>1, HandlerMoves, HandlerTyped DEF ServiceStep, ConsumeStep, Pcs
        <3>2. CASE v # "ok"
            <4>1. v \in {"pop_rejected", "attestation_rejected"}
                BY <3>2 DEF verify_enrollment
            <4>2. Moved(h, "audit_reject", v)
                BY <2>3, <3>2, HandlerMoves
            <4> HIDE DEF v
            <4>3. v \in Responses \ {"Enrolled", "AlreadyEnrolled"}
                BY <4>1 DEF Responses
            <4>4. QED  BY <2>1, <2>3, <4>2, <4>3 DEF ServiceStep, ConsumeStep, Pcs
        <3>3. QED  BY <3>1, <3>2
    <2>4. QED  BY <1>1, <2>2, <2>3 DEF ConsumeAndVerify
<1>2. ASSUME NEW h \in Handlers, InsertUser(h) \/ Audit(h) PROVE ServiceStep
    <2>1. /\ ~Free(h) /\ Enrolling(h) /\ UNCHANGED <<clock, tables, created, served>>
          /\ \/ Goto(h, "insert_device")
             \/ Goto(h, "commit") /\ HoldsKey(h)
        BY <1>2 DEF InsertUser, Audit, At, Free, Enrolling, HoldsKey
    <2>2. PICK pc \in {"insert_device", "commit"} :
              Moved(h, pc, Locals(h).response) /\ (pc = "commit" => HoldsKey(h))
        BY <2>1, HandlerMoves
    <2>3. Locals(h).response \in Responses \cup {None} /\ pc \in Pcs \ {"idle"}
          /\ pc \notin {"audit_reject", "replied"}
        BY HandlerTyped DEF Pcs
    <2>4. HandlerStep(h)
        BY <1>0, <2>1, <2>2, <2>3 DEF HandlerStep, tables
    <2>5. QED  BY <2>4 DEF ServiceStep
<1>3. ASSUME NEW h \in Handlers, InsertDevice(h) PROVE ServiceStep
    <2>1. /\ ~Free(h) /\ Enrolling(h) /\ UNCHANGED <<clock, tables, created, served>>
          /\ \/ taken(device_of(h)) /\ Reject(h, "AlreadyEnrolled")
             \/ ~taken(device_of(h)) /\ ~contended(device_of(h)) /\ Goto(h, "audit")
        BY <1>3 DEF InsertDevice, At, Free, Enrolling
    <2>2. CASE taken(device_of(h)) /\ Reject(h, "AlreadyEnrolled")
        <3>1. Moved(h, "audit_reject", "AlreadyEnrolled")
            BY <2>2, HandlerMoves
        <3>2. "audit_reject" \in Pcs \ {"idle"} /\ "AlreadyEnrolled" \in Responses
            BY DEF Pcs, Responses
        <3>3. HandlerStep(h)
            BY <1>0, <2>1, <2>2, <3>1, <3>2 DEF HandlerStep, tables
        <3>4. QED  BY <3>3 DEF ServiceStep
    <2>3. CASE ~taken(device_of(h)) /\ ~contended(device_of(h)) /\ Goto(h, "audit")
        <3>1. Moved(h, "audit", Locals(h).response)
            BY <2>3, HandlerMoves
        <3>2. "audit" \in Pcs \ {"idle"} /\ Locals(h).response \in Responses \cup {None}
            BY HandlerTyped DEF Pcs
        <3>3. HandlerStep(h)
            BY <1>0, <2>1, <2>3, <3>1, <3>2 DEF HandlerStep, tables
        <3>4. QED  BY <3>3 DEF ServiceStep
    <2>4. QED  BY <2>1, <2>2, <2>3
<1>4. ASSUME NEW h \in Handlers, Commit(h) PROVE ServiceStep
    BY <1>4, HandlerMoves DEF Commit, ServiceStep, CommitStep, Responses
<1>5. ASSUME NEW h \in Handlers, AuditReject(h) PROVE ServiceStep
    <2>1. ~Free(h) /\ Goto(h, "replied")
        BY <1>5 DEF AuditReject, At, Free
    <2>2. HandlerStep(h)
        <3>1. PICK x \in Responses : x = Locals(h).response /\ At(h, "audit_reject")
            BY <1>5, HandlerTyped DEF AuditReject
        <3>2. Moved(h, "replied", x)
            BY <2>1, <3>1, HandlerMoves
        <3>3. rejections' \subseteq Responses
            BY <1>0, <1>5, <3>1 DEF AuditReject
        <3>4. "replied" \in Pcs \ {"idle"}
            BY DEF Pcs
        <3>5. QED  BY <1>5, <2>1, <3>1, <3>2, <3>3, <3>4 DEF AuditReject, HandlerStep
    <2>3. QED  BY <2>2 DEF ServiceStep
<1>6. ASSUME NEW h \in Handlers, Lose(h) PROVE ServiceStep
    <2>1. ~Free(h) /\ Moved(h, "replied", "Internal") /\ UNCHANGED <<clock, created, served>>
        BY <1>6, HandlerMoves DEF Lose
    <2>2. "Internal" \in Responses /\ "replied" \in Pcs \ {"idle"}
        BY DEF Responses, Pcs
    <2>3. CASE UNCHANGED tables
        BY <1>0, <2>1, <2>2, <2>3 DEF ServiceStep, HandlerStep, tables
    <2>4. CASE /\ At(h, "consume") /\ consumable(Req(h).challenge_id)
               /\ consume(Req(h).challenge_id)
               /\ UNCHANGED <<users, devices, audit, rejections>>
        BY <2>1, <2>2, <2>4 DEF ServiceStep, ConsumeStep
    <2>5. CASE /\ At(h, "commit") /\ committed(h)
               /\ UNCHANGED <<challenges, attempts, rejections>>
        BY <2>1, <2>2, <2>5 DEF ServiceStep, CommitStep
    <2>6. CASE /\ At(h, "audit_reject")
               /\ rejections' = rejections \cup {Locals(h).response}
               /\ UNCHANGED <<challenges, attempts, users, devices, audit>>
        <3>1. rejections' \subseteq Responses
            BY <1>0, <2>6, HandlerTyped
        <3>2. QED  BY <2>1, <2>2, <2>6, <3>1 DEF ServiceStep, HandlerStep
    <2>7. QED  BY <1>6, <2>3, <2>4, <2>5, <2>6 DEF Lose
<1>7. QED
    BY <1>1, <1>2, <1>3, <1>4, <1>5, <1>6 DEF Next, Step, ServiceStep

-----------------------------------------------------------------------------
\* What the handlers are after such a move.
LEMMA AfterMove ==
    ASSUME TypeOK, NEW h \in Handlers, NEW pc \in Pcs, NEW a \in Responses \cup {None},
           Moved(h, pc, a)
    PROVE  /\ handler' \in [Handlers -> HandlerStates]
           /\ Locals(h)'.pc = pc /\ Locals(h)'.response = a
           /\ \A g \in Handlers : /\ Req(g)' = Req(g)
                                  /\ Locals(g)'.user_id = Locals(g).user_id
                                  /\ device_of(g)' = device_of(g)
           /\ \A g \in Handlers \ {h} : Locals(g)' = Locals(g)
<1>1. Locals(h) \in HandlerStates /\ handler \in [Handlers -> HandlerStates]
    BY HandlerTyped DEF TypeOK
<1> DEFINE s == [pc |-> pc, req |-> Req(h), user_id |-> Locals(h).user_id, response |-> a]
<1>2. s \in HandlerStates /\ s.pc = pc /\ s.response = a /\ s.req = Req(h)
      /\ s.user_id = Locals(h).user_id
    BY <1>1 DEF HandlerStates, Req
<1>3. handler' = [handler EXCEPT ![h] = s]
    BY DEF Moved
<1> HIDE DEF s
<1>4. handler' \in [Handlers -> HandlerStates] /\ handler'[h] = s
      /\ \A g \in Handlers \ {h} : handler'[g] = handler[g]
    BY <1>1, <1>2, <1>3
<1>5. \A g \in Handlers : Req(g)' = Req(g) /\ Locals(g)'.user_id = Locals(g).user_id
    BY <1>2, <1>4 DEF Req, Locals
<1>6. \A g \in Handlers : device_of(g)' = device_of(g)
    BY <1>5 DEF device_of
<1>7. QED  BY <1>2, <1>4, <1>5, <1>6 DEF Locals

\* What they are after a new request.
LEMMA AfterReceive ==
    ASSUME TypeOK, NEW h \in Handlers, NEW r \in Requests, Receive(h, r)
    PROVE  /\ handler' \in [Handlers -> HandlerStates]
           /\ Req(h)' = r /\ Locals(h)'.pc \in {"consume", "replied"}
           /\ Locals(h)'.user_id = served + 1
           /\ Locals(h)'.response \in {None, "BadRequest"}
           /\ \A g \in Handlers \ {h} : Locals(g)' = Locals(g) /\ device_of(g)' = device_of(g)
           /\ Free(h) /\ served \in Nat /\ served' = served + 1
           /\ UNCHANGED <<clock, tables, created>>
<1> DEFINE s == [pc |-> IF r.well_formed THEN "consume" ELSE "replied", req |-> r,
                 user_id |-> served + 1,
                 response |-> IF r.well_formed THEN None ELSE "BadRequest"]
<1>1. served \in Nat /\ handler \in [Handlers -> HandlerStates]
    BY DEF TypeOK
<1>2. s \in HandlerStates /\ s.pc \in {"consume", "replied"} /\ s.req = r
      /\ s.user_id = served + 1 /\ s.response \in {None, "BadRequest"}
    BY <1>1 DEF HandlerStates, Pcs, Responses
<1>3. handler' = [handler EXCEPT ![h] = s] /\ Free(h) /\ served' = served + 1
      /\ UNCHANGED <<clock, tables, created>>
    BY DEF Receive
<1> HIDE DEF s
<1>4. handler' \in [Handlers -> HandlerStates] /\ handler'[h] = s
      /\ \A g \in Handlers \ {h} : handler'[g] = handler[g]
    BY <1>1, <1>2, <1>3
<1>5. \A g \in Handlers \ {h} : Locals(g)' = Locals(g) /\ device_of(g)' = device_of(g)
    BY <1>4 DEF Locals, Req, device_of
<1>6. QED  BY <1>1, <1>2, <1>3, <1>4, <1>5 DEF Req, Locals

\* What the history of a challenge is after its consumption.
LEMMA AfterConsume ==
    ASSUME TypeOK, RowsTellHistory, NEW c \in Challenges, consumable(c), consume(c)
    PROVE  /\ challenges' \in [Challenges -> ChallengeRows \cup {None}]
           /\ attempts' \in [Challenges -> Nat]
           /\ challenges[c] # None /\ challenges[c] \in ChallengeRows /\ ~challenges[c].consumed
           /\ challenges'[c].consumed = TRUE /\ challenges'[c] \in ChallengeRows
           /\ challenges'[c].expires_at = challenges[c].expires_at
           /\ attempts[c] = 0 /\ attempts'[c] = 1
           /\ \A e \in Challenges \ {c} :
                 challenges'[e] = challenges[e] /\ attempts'[e] = attempts[e]
<1>1. challenges \in [Challenges -> ChallengeRows \cup {None}] /\ attempts \in [Challenges -> Nat]
    BY DEF TypeOK
<1>2. challenges[c] # None /\ ~challenges[c].consumed /\ challenges[c] \in ChallengeRows
    BY <1>1 DEF consumable
<1>3. attempts[c] = 0
    BY <1>2 DEF RowsTellHistory
<1> DEFINE row == [challenges[c] EXCEPT !.consumed = TRUE]
<1>4. row \in ChallengeRows /\ row.consumed = TRUE /\ row.expires_at = challenges[c].expires_at
    BY <1>2 DEF ChallengeRows
<1>5. challenges' = [challenges EXCEPT ![c] = row] /\ attempts' = [attempts EXCEPT ![c] = 1]
    BY <1>1, <1>3 DEF consume
<1> HIDE DEF row
<1>6. challenges' \in [Challenges -> ChallengeRows \cup {None}] /\ challenges'[c] = row
      /\ \A e \in Challenges \ {c} : challenges'[e] = challenges[e]
    BY <1>1, <1>4, <1>5
<1>7. attempts' \in [Challenges -> Nat] /\ attempts'[c] = 1
      /\ \A e \in Challenges \ {c} : attempts'[e] = attempts[e]
    BY <1>1, <1>5
<1>8. QED  BY <1>2, <1>3, <1>4, <1>6, <1>7

-----------------------------------------------------------------------------
\* What is not the handlers' stays well typed when only they move.
HandlersTyped ==
    /\ handler \in [Handlers -> HandlerStates]
    /\ \A h \in Handlers :
          /\ ~At(h, "idle") => Req(h) \in Requests
          /\ At(h, "audit_reject") => Locals(h).response \in Responses
TablesTyped ==
    /\ challenges \in [Challenges -> ChallengeRows \cup {None}]
    /\ created \in [Challenges -> Int \cup {None}]
    /\ attempts \in [Challenges -> Nat]
    /\ served \in Nat /\ users \subseteq 1 .. served /\ audit \in Seq(1 .. served)
    /\ \A d \in devices : d.challenge \in Challenges
    /\ rejections \subseteq Responses

LEMMA TypeParts == TypeOK <=> clock \in 0 .. MaxClock /\ HandlersTyped /\ TablesTyped
    BY DEF TypeOK, HandlersTyped, TablesTyped

LEMMA MoveTyped ==
    ASSUME TypeOK, NEW h \in Handlers, ~Free(h), NEW pc \in Pcs, NEW a \in Responses \cup {None},
           Moved(h, pc, a), pc = "audit_reject" => a \in Responses
    PROVE  HandlersTyped'
<1>1. \A g \in Handlers : Req(g)' = Req(g)
    BY AfterMove
<1>2. \A g \in Handlers \ {h} : Locals(g)' = Locals(g)
    BY AfterMove
<1>3. handler' \in [Handlers -> HandlerStates] /\ Locals(h)'.pc = pc /\ Locals(h)'.response = a
    BY AfterMove
<1>4. Req(h) \in Requests
    BY HandlerTyped
<1>5. HandlersTyped
    BY TypeParts
<1>6. QED  BY <1>1, <1>2, <1>3, <1>4, <1>5 DEF HandlersTyped, At

\* A sequence over a set is one over a larger set.
LEMMA SeqGrows ==
    ASSUME NEW S, NEW T, S \subseteq T, NEW q \in Seq(S)
    PROVE  q \in Seq(T)
<1>1. Len(q) \in Nat /\ q \in [1 .. Len(q) -> T]
    OBVIOUS
<1>2. QED  BY <1>1

LEMMA TypeStep ==
    ASSUME TypeOK, RowsTellHistory, UserIdsAreFresh, ServiceStep
    PROVE  TypeOK'
<1>0. clock \in 0 .. MaxClock /\ HandlersTyped /\ TablesTyped
    BY TypeParts
<1>1. ASSUME NEW h \in Handlers, NEW r \in Requests, Receive(h, r) PROVE TypeOK'
    <2>1. HandlersTyped'
        BY <1>0, <1>1, AfterReceive DEF HandlersTyped, At, Req, Locals
    <2>2. served' \in Nat /\ 1 .. served \subseteq 1 .. served'
        BY <1>1, AfterReceive
    <2>3. audit \in Seq(1 .. served')
        BY <1>0, <2>2, SeqGrows DEF TablesTyped
    <2>4. UNCHANGED <<clock, challenges, created, attempts, users, devices, audit, rejections>>
        BY <1>1, AfterReceive DEF tables
    <2>5. TablesTyped'
        BY <1>0, <2>2, <2>3, <2>4 DEF TablesTyped
    <2>6. QED  BY <1>0, <2>1, <2>4, <2>5 DEF TypeOK, HandlersTyped, TablesTyped
<1>2. ASSUME NEW h \in Handlers, ConsumeStep(h) PROVE TypeOK'
    <2>1. HandlersTyped'
        BY <1>2, MoveTyped DEF ConsumeStep, At, Free
    <2>2. ~Free(h)
        BY <1>2 DEF ConsumeStep, At, Free
    <2>3. challenges' \in [Challenges -> ChallengeRows \cup {None}] /\ attempts' \in [Challenges -> Nat]
        BY <1>2, <2>2, HandlerTyped, AfterConsume DEF ConsumeStep
    <2>4. UNCHANGED <<clock, created, users, devices, audit, rejections, served>>
        BY <1>2 DEF ConsumeStep
    <2>5. TablesTyped'
        BY <1>0, <2>3, <2>4 DEF TablesTyped
    <2>6. QED  BY <1>0, <2>1, <2>4, <2>5 DEF TypeOK, HandlersTyped, TablesTyped
<1>3. ASSUME NEW h \in Handlers, CommitStep(h) PROVE TypeOK'
    <2>1. ~Free(h) /\ ~At(h, "idle") /\ "replied" \in Pcs
        BY <1>3 DEF CommitStep, At, Free, Pcs
    <2>2. HandlersTyped'
        BY <1>3, <2>1, MoveTyped DEF CommitStep
    <2>3. UNCHANGED <<clock, challenges, created, attempts, rejections, served>> /\ committed(h)
        BY <1>3 DEF CommitStep
    <2>4. Locals(h).user_id \in 1 .. served
        BY <2>1 DEF UserIdsAreFresh
    <2>5. users' \subseteq 1 .. served /\ audit' \in Seq(1 .. served)
        <3>1. users \subseteq 1 .. served /\ audit \in Seq(1 .. served)
            BY <1>0 DEF TablesTyped
        <3>2. users' = users \cup {Locals(h).user_id} /\ audit' = Append(audit, Locals(h).user_id)
            BY <2>3 DEF committed
        <3>3. audit' \in Seq(1 .. served)
            <4>1. ASSUME NEW S, NEW q \in Seq(S), NEW e \in S PROVE Append(q, e) \in Seq(S)
                OBVIOUS
            <4>2. QED  BY <2>4, <3>1, <3>2, <4>1
        <3>4. QED  BY <2>4, <3>1, <3>2, <3>3, Zenon
    <2>6. device_of(h).challenge \in Challenges
        BY <2>1, HandlerTyped DEF device_of
    <2>7. \A d \in devices' : d.challenge \in Challenges
        BY <1>0, <2>3, <2>6 DEF TablesTyped, committed
    <2>8. TablesTyped'
        BY <1>0, <2>3, <2>5, <2>7 DEF TablesTyped
    <2>9. QED  BY <1>0, <2>2, <2>3, <2>8 DEF TypeOK, HandlersTyped, TablesTyped
<1>4. ASSUME NEW h \in Handlers, HandlerStep(h) PROVE TypeOK'
    <2>1. HandlersTyped'
        BY <1>4, MoveTyped DEF HandlerStep
    <2>2. UNCHANGED <<clock, challenges, created, attempts, users, devices, audit, served>>
          /\ rejections' \subseteq Responses
        BY <1>4 DEF HandlerStep
    <2>3. TablesTyped'
        BY <1>0, <2>2 DEF TablesTyped
    <2>4. QED  BY <1>0, <2>1, <2>2, <2>3 DEF TypeOK, HandlersTyped, TablesTyped
<1>5. ASSUME NEW c \in Challenges, CreateChallenge(c) PROVE TypeOK'
    <2>1. UNCHANGED <<clock, attempts, users, devices, audit, rejections, handler, served>>
        BY <1>5 DEF CreateChallenge
    <2>2. clock + Ttl \in Int
        BY <1>0
    <2>3. created' \in [Challenges -> Int \cup {None}]
        BY <1>0, <1>5, <2>2 DEF CreateChallenge, TablesTyped
    <2>4. [expires_at |-> clock + Ttl, consumed |-> FALSE] \in ChallengeRows
        BY <2>2 DEF ChallengeRows
    <2>5. challenges' \in [Challenges -> ChallengeRows \cup {None}]
        BY <1>0, <1>5, <2>4 DEF CreateChallenge, TablesTyped
    <2>6. TablesTyped'
        BY <1>0, <2>1, <2>3, <2>5 DEF TablesTyped
    <2>7. HandlersTyped'
        BY <1>0, <2>1 DEF HandlersTyped, At, Req, Locals
    <2>8. QED  BY <1>0, <2>1, <2>6, <2>7 DEF TypeOK, HandlersTyped, TablesTyped
<1>6. ASSUME Purge PROVE TypeOK'
    <2>1. UNCHANGED <<clock, created, attempts, users, devices, audit, rejections, handler, served>>
        BY <1>6 DEF Purge
    <2>2. challenges' \in [Challenges -> ChallengeRows \cup {None}]
        BY <1>0, <1>6 DEF Purge, TablesTyped
    <2>3. TablesTyped'
        BY <1>0, <2>1, <2>2 DEF TablesTyped
    <2>4. HandlersTyped'
        BY <1>0, <2>1 DEF HandlersTyped, At, Req, Locals
    <2>5. QED  BY <1>0, <2>1, <2>3, <2>4 DEF TypeOK, HandlersTyped, TablesTyped
<1>7. ASSUME Tick PROVE TypeOK'
    <2>1. clock' \in 0 .. MaxClock
        BY <1>0, <1>7 DEF Tick
    <2>2. UNCHANGED <<challenges, created, attempts, users, devices, audit, rejections, handler, served>>
        BY <1>7 DEF Tick, tables
    <2>3. TablesTyped'
        BY <1>0, <2>2 DEF TablesTyped
    <2>4. HandlersTyped'
        BY <1>0, <2>2 DEF HandlersTyped, At, Req, Locals
    <2>5. QED  BY <2>1, <2>3, <2>4 DEF TypeOK, HandlersTyped, TablesTyped
<1>8. QED
    BY <1>1, <1>2, <1>3, <1>4, <1>5, <1>6, <1>7 DEF ServiceStep

-----------------------------------------------------------------------------
\* The three kinds of step that leave handlers and tables alone, together.
LEMMA QuietHandlers ==
    ASSUME UNCHANGED handler
    PROVE  \A g \in Handlers : /\ Req(g)' = Req(g) /\ Locals(g)' = Locals(g)
                               /\ device_of(g)' = device_of(g)
    BY DEF Req, Locals, device_of

\* A row tells the history of its challenge: consumption, creation and purge
\* keep row and history in step.
LEMMA RowsStep ==
    ASSUME TypeOK, RowsTellHistory, ServiceStep
    PROVE  RowsTellHistory'
<1>0. /\ challenges \in [Challenges -> ChallengeRows \cup {None}]
      /\ created \in [Challenges -> Int \cup {None}] /\ attempts \in [Challenges -> Nat]
      /\ clock \in Int
    BY DEF TypeOK
<1>1. ASSUME UNCHANGED <<clock, challenges, created, attempts>> PROVE RowsTellHistory'
    BY <1>1 DEF RowsTellHistory
<1>2. ASSUME NEW h \in Handlers, ConsumeStep(h) PROVE RowsTellHistory'
    <2> DEFINE c == Req(h).challenge_id
    <2>1. c \in Challenges /\ consumable(c) /\ consume(c) /\ UNCHANGED <<clock, created>>
        BY <1>2, HandlerTyped DEF ConsumeStep, At, Free
    <2> HIDE DEF c
    <2>2. /\ challenges[c] # None /\ challenges[c] \in ChallengeRows
          /\ challenges'[c].consumed = TRUE /\ challenges'[c] \in ChallengeRows
          /\ challenges'[c].expires_at = challenges[c].expires_at
          /\ attempts[c] = 0 /\ attempts'[c] = 1
        BY <2>1, AfterConsume
    <2>3. \A e \in Challenges \ {c} : challenges'[e] = challenges[e] /\ attempts'[e] = attempts[e]
        BY <2>1, AfterConsume
    <2>4. created[c] # None /\ challenges[c].expires_at = created[c]
        BY <2>1, <2>2 DEF RowsTellHistory
    <2> SUFFICES ASSUME NEW e \in Challenges
                 PROVE /\ attempts'[e] <= 1
                       /\ created'[e] = None => challenges'[e] = None /\ attempts'[e] = 0
                       /\ created'[e] # None /\ challenges'[e] = None => created'[e] < clock'
                       /\ challenges'[e] # None =>
                              /\ challenges'[e].expires_at = created'[e]
                              /\ attempts'[e] = IF challenges'[e].consumed THEN 1 ELSE 0
        BY DEF RowsTellHistory
    <2>5. CASE e = c
        BY <2>1, <2>2, <2>4, <2>5
    <2>6. CASE e # c
        BY <2>1, <2>3, <2>6 DEF RowsTellHistory
    <2>7. QED  BY <2>5, <2>6
<1>3. ASSUME NEW c \in Challenges, CreateChallenge(c) PROVE RowsTellHistory'
    <2>1. /\ created[c] = None /\ UNCHANGED <<clock, attempts>>
          /\ created' = [created EXCEPT ![c] = clock + Ttl]
          /\ challenges' = [challenges EXCEPT ![c] = [expires_at |-> clock + Ttl, consumed |-> FALSE]]
        BY <1>3 DEF CreateChallenge
    <2>2. attempts[c] = 0
        BY <2>1 DEF RowsTellHistory
    <2> DEFINE row == [expires_at |-> clock + Ttl, consumed |-> FALSE]
    <2>3. row.expires_at = clock + Ttl /\ row.consumed = FALSE /\ row \in ChallengeRows
          /\ clock + Ttl \in Int
        BY <1>0 DEF ChallengeRows
    <2>4. created'[c] = clock + Ttl /\ challenges'[c] = row
          /\ \A e \in Challenges \ {c} : created'[e] = created[e] /\ challenges'[e] = challenges[e]
        BY <1>0, <2>1
    <2> HIDE DEF row
    <2>5. created'[c] # None /\ challenges'[c] # None
        BY <2>3, <2>4
    <2> SUFFICES ASSUME NEW e \in Challenges
                 PROVE /\ attempts'[e] <= 1
                       /\ created'[e] = None => challenges'[e] = None /\ attempts'[e] = 0
                       /\ created'[e] # None /\ challenges'[e] = None => created'[e] < clock'
                       /\ challenges'[e] # None =>
                              /\ challenges'[e].expires_at = created'[e]
                              /\ attempts'[e] = IF challenges'[e].consumed THEN 1 ELSE 0
        BY DEF RowsTellHistory
    <2>6. CASE e = c
        BY <2>1, <2>2, <2>3, <2>4, <2>5, <2>6
    <2>7. CASE e # c
        BY <2>1, <2>4, <2>7 DEF RowsTellHistory
    <2>8. QED  BY <2>6, <2>7
<1>4. ASSUME Purge PROVE RowsTellHistory'
    <2> SUFFICES ASSUME NEW e \in Challenges
                 PROVE /\ attempts'[e] <= 1
                       /\ created'[e] = None => challenges'[e] = None /\ attempts'[e] = 0
                       /\ created'[e] # None /\ challenges'[e] = None => created'[e] < clock'
                       /\ challenges'[e] # None =>
                              /\ challenges'[e].expires_at = created'[e]
                              /\ attempts'[e] = IF challenges'[e].consumed THEN 1 ELSE 0
        BY DEF RowsTellHistory
    <2>1. UNCHANGED <<clock, created, attempts>>
          /\ challenges'[e] = IF purgeable(challenges[e]) THEN None ELSE challenges[e]
        BY <1>4 DEF Purge
    <2>2. CASE purgeable(challenges[e])
        <3>1. challenges[e] # None /\ challenges[e].expires_at < clock - PurgeAfter
            BY <2>2 DEF purgeable
        <3>2. challenges[e].expires_at = created[e] /\ created[e] # None
            BY <3>1 DEF RowsTellHistory
        <3>3. created[e] \in Int
            BY <1>0, <3>2
        <3>4. created[e] < clock
            BY <1>0, <3>1, <3>2, <3>3
        <3>5. attempts[e] <= 1
            BY DEF RowsTellHistory
        <3>6. QED  BY <2>1, <2>2, <3>2, <3>4, <3>5
    <2>3. CASE ~purgeable(challenges[e])
        BY <2>1, <2>3 DEF RowsTellHistory
    <2>4. QED  BY <2>2, <2>3
<1>5. ASSUME Tick PROVE RowsTellHistory'
    <2>1. UNCHANGED <<challenges, created, attempts>> /\ clock' = clock + 1
        BY <1>5 DEF Tick, tables
    <2>2. \A e \in Challenges : created[e] # None /\ created[e] < clock => created[e] < clock + 1
        BY <1>0
    <2>3. QED  BY <2>1, <2>2 DEF RowsTellHistory
<1>6. QED
    BY <1>1, <1>2, <1>3, <1>4, <1>5
       DEF ServiceStep, Receive, CommitStep, HandlerStep, tables

\* User ids stay different: a new one is larger than all before it.
LEMMA UserIdsStep ==
    ASSUME TypeOK, UserIdsAreFresh, ServiceStep
    PROVE  UserIdsAreFresh'
<1>1. ASSUME UNCHANGED <<users, handler, served>> PROVE UserIdsAreFresh'
    BY <1>1 DEF UserIdsAreFresh, At, Free, Locals
<1>2. ASSUME NEW h \in Handlers, NEW r \in Requests, Receive(h, r) PROVE UserIdsAreFresh'
    <2>1. /\ Locals(h)'.user_id = served + 1 /\ served \in Nat /\ served' = served + 1
          /\ UNCHANGED users
        BY <1>2, AfterReceive DEF tables
    <2>2. \A g \in Handlers \ {h} : Locals(g)' = Locals(g)
        BY <1>2, AfterReceive
    <2>3. users \subseteq 1 .. served
        BY DEF TypeOK
    <2>4. served + 1 \notin 1 .. served /\ served + 1 \in 1 .. served'
          /\ 1 .. served \subseteq 1 .. served'
        BY <2>1
    <2>5. \A g \in Handlers \ {h} : ~At(g, "idle")' =>
              /\ ~At(g, "idle") /\ (Free(g)' <=> Free(g))
              /\ Locals(g)'.user_id = Locals(g).user_id
              /\ Locals(g).user_id \in 1 .. served
        BY <2>2 DEF UserIdsAreFresh, At, Free
    <2>6. ASSUME NEW g \in Handlers, g # h, ~At(g, "idle")'
          PROVE  /\ Locals(g)'.user_id \in 1 .. served' /\ Locals(g)'.user_id # Locals(h)'.user_id
                 /\ ~Free(g)' => Locals(g)'.user_id \notin users'
        <3>1. Locals(g)'.user_id = Locals(g).user_id /\ Locals(g).user_id \in 1 .. served
              /\ (Free(g)' <=> Free(g)) /\ ~At(g, "idle")
            BY <2>5, <2>6
        <3>2. ~Free(g) => Locals(g).user_id \notin users
            BY <3>1 DEF UserIdsAreFresh
        <3>3. QED  BY <2>1, <2>4, <3>1, <3>2
    <2>7. Locals(h)'.user_id \in 1 .. served' /\ Locals(h)'.user_id \notin users'
        BY <2>1, <2>3, <2>4
    <2>8. \A f, g \in Handlers : ~At(f, "idle")' /\ ~At(g, "idle")'
              /\ Locals(g)'.user_id = Locals(f)'.user_id => f = g
        BY <2>5, <2>6 DEF UserIdsAreFresh
    <2>9. QED  BY <2>6, <2>7, <2>8 DEF UserIdsAreFresh
<1>3. ASSUME NEW h \in Handlers, ~Free(h), UNCHANGED <<users, served>>,
             NEW pc \in Pcs, NEW a \in Responses \cup {None}, Moved(h, pc, a)
      PROVE  UserIdsAreFresh'
    <2>1. \A g \in Handlers : Locals(g)'.user_id = Locals(g).user_id
        BY <1>3, AfterMove
    <2>2. \A g \in Handlers \ {h} : Locals(g)' = Locals(g)
        BY <1>3, AfterMove
    <2>3. QED  BY <1>3, <2>1, <2>2 DEF UserIdsAreFresh, At, Free
<1>4. ASSUME NEW h \in Handlers, CommitStep(h) PROVE UserIdsAreFresh'
    <2>1. At(h, "commit") /\ ~Free(h) /\ ~At(h, "idle") /\ UNCHANGED served
          /\ users' = users \cup {Locals(h).user_id}
        BY <1>4 DEF CommitStep, At, Free, committed
    <2>2. PICK a \in Responses : Moved(h, "replied", a)
        BY <1>4 DEF CommitStep
    <2>3. "replied" \in Pcs
        BY DEF Pcs
    <2>4. \A g \in Handlers : Locals(g)'.user_id = Locals(g).user_id
        BY <2>2, <2>3, AfterMove
    <2>5. \A g \in Handlers \ {h} : Locals(g)' = Locals(g)
        BY <2>2, <2>3, AfterMove
    <2>6. Locals(h)'.pc = "replied"
        BY <2>2, <2>3, AfterMove
    <2>7. QED  BY <2>1, <2>4, <2>5, <2>6 DEF UserIdsAreFresh, At, Free
<1>5. ASSUME NEW h \in Handlers, ConsumeStep(h) \/ HandlerStep(h) PROVE UserIdsAreFresh'
    <2>1. ~Free(h) /\ UNCHANGED <<users, served>>
        BY <1>5 DEF ConsumeStep, HandlerStep, At, Free
    <2>2. QED  BY <1>3, <1>5, <2>1 DEF ConsumeStep, HandlerStep
<1>6. QED
    BY <1>1, <1>2, <1>4, <1>5 DEF ServiceStep, CreateChallenge, Purge, Tick, tables

-----------------------------------------------------------------------------
\* The challenge of an enrollment under way is nobody else's: a consumption
\* finds no earlier one, and a commit takes the challenge out of play.
LEMMA PendingChallengeStep ==
    ASSUME TypeOK, RowsTellHistory, PendingOwnsChallenge, DeviceProvedItsChallenge, ServiceStep
    PROVE  PendingOwnsChallenge'
<1> DEFINE ch(g) == Req(g).challenge_id
<1>1. ASSUME UNCHANGED <<attempts, devices>>,
             \A g \in Handlers : Enrolling(g)' => Enrolling(g) /\ Req(g)' = Req(g)
      PROVE  PendingOwnsChallenge'
    BY <1>1 DEF PendingOwnsChallenge
<1>2. ASSUME NEW h \in Handlers, NEW r \in Requests, Receive(h, r) PROVE PendingOwnsChallenge'
    <2>1. UNCHANGED <<attempts, devices>> /\ Locals(h)'.pc \in {"consume", "replied"}
        BY <1>2, AfterReceive DEF tables
    <2>2. \A g \in Handlers \ {h} : Locals(g)' = Locals(g)
        BY <1>2, AfterReceive
    <2>3. QED  BY <1>1, <2>1, <2>2 DEF Enrolling, Req
<1>3. ASSUME NEW h \in Handlers, ConsumeStep(h) PROVE PendingOwnsChallenge'
    <2>1. ch(h) \in Challenges /\ consumable(ch(h)) /\ consume(ch(h)) /\ UNCHANGED devices
        BY <1>3, HandlerTyped DEF ConsumeStep, At, Free
    <2>2. PICK pc \in Pcs, a \in Responses \cup {None} :
              /\ Moved(h, pc, a)
              /\ \/ pc = "insert_user" /\ verify_enrollment(Req(h), ch(h)) = "ok"
                 \/ pc \in {"audit_reject", "replied"}
        BY <1>3 DEF ConsumeStep
    <2>3. attempts[ch(h)] = 0 /\ attempts'[ch(h)] = 1
          /\ \A e \in Challenges \ {ch(h)} : attempts'[e] = attempts[e]
        BY <2>1, AfterConsume
    <2>4. /\ Locals(h)'.pc = pc /\ \A g \in Handlers : Req(g)' = Req(g)
          /\ \A g \in Handlers \ {h} : Locals(g)' = Locals(g)
        BY <2>2, AfterMove
    <2>5. \A d \in devices : d.challenge # ch(h)
        BY <2>3 DEF DeviceProvedItsChallenge
    <2>6. ASSUME NEW g \in Handlers, g # h, Enrolling(g)'
          PROVE  Enrolling(g) /\ ch(g) \in Challenges \ {ch(h)} /\ attempts'[ch(g)] = 1
        <3>1. Enrolling(g)
            BY <2>4, <2>6 DEF Enrolling
        <3>2. attempts[ch(g)] = 1 /\ ch(g) \in Challenges
            BY <3>1, HandlerTyped DEF PendingOwnsChallenge, Enrolling, Free
        <3>3. QED  BY <2>3, <3>1, <3>2
    <2>7. Enrolling(h)' => verify_enrollment(Req(h), ch(h)) = "ok"
        BY <2>2, <2>4 DEF Enrolling
    <2> HIDE DEF ch
    <2>8. \A g \in Handlers : Enrolling(g)' =>
              /\ attempts'[ch(g)] = 1 /\ verify_enrollment(Req(g), ch(g)) = "ok"
              /\ \A d \in devices : d.challenge # ch(g)
              /\ \A f \in Handlers : Enrolling(f)' /\ ch(f) = ch(g) => f = g
        BY <2>3, <2>5, <2>6, <2>7 DEF PendingOwnsChallenge, ch
    <2>9. QED  BY <2>1, <2>4, <2>8 DEF PendingOwnsChallenge, verify_enrollment, pop_verified, attestation_verified, ch
<1>4. ASSUME NEW h \in Handlers, CommitStep(h) PROVE PendingOwnsChallenge'
    <2>1. Enrolling(h) /\ devices' = devices \cup {device_of(h)} /\ UNCHANGED attempts
        BY <1>4 DEF CommitStep, At, Enrolling, committed
    <2>2. PICK a \in Responses : Moved(h, "replied", a)
        BY <1>4 DEF CommitStep
    <2>3. "replied" \in Pcs
        BY DEF Pcs
    <2>4. Locals(h)'.pc = "replied" /\ \A g \in Handlers : Req(g)' = Req(g)
        BY <2>2, <2>3, AfterMove
    <2>5. \A g \in Handlers \ {h} : Locals(g)' = Locals(g)
        BY <2>2, <2>3, AfterMove
    <2>6. device_of(h).challenge = ch(h)
        BY DEF device_of
    <2>7. \A g \in Handlers : Enrolling(g)' => Enrolling(g) /\ g # h
        BY <2>4, <2>5 DEF Enrolling
    <2>8. QED  BY <2>1, <2>4, <2>6, <2>7 DEF PendingOwnsChallenge
<1>5. ASSUME NEW h \in Handlers, HandlerStep(h) PROVE PendingOwnsChallenge'
    <2>1. PICK pc \in Pcs, a \in Responses \cup {None} :
              Moved(h, pc, a)
              /\ (pc \in {"insert_user", "insert_device", "audit", "commit"} => Enrolling(h))
        BY <1>5 DEF HandlerStep
    <2>2. Locals(h)'.pc = pc /\ \A g \in Handlers : Req(g)' = Req(g)
        BY <2>1, AfterMove
    <2>3. \A g \in Handlers \ {h} : Locals(g)' = Locals(g)
        BY <2>1, AfterMove
    <2>4. UNCHANGED <<attempts, devices>>
        BY <1>5 DEF HandlerStep
    <2>5. \A g \in Handlers : Enrolling(g)' => Enrolling(g)
        BY <2>1, <2>2, <2>3 DEF Enrolling
    <2>6. QED  BY <1>1, <2>2, <2>4, <2>5
<1>6. ASSUME UNCHANGED <<attempts, devices, handler>> PROVE PendingOwnsChallenge'
    BY <1>1, <1>6 DEF Enrolling, Req, Locals
<1>7. QED
    BY <1>2, <1>3, <1>4, <1>5, <1>6 DEF ServiceStep, CreateChallenge, Purge, Tick, tables

\* The unique constraints, across transactions: a row is inserted only when no
\* committed and no pending row has its keys.
LEMMA PendingKeysStep ==
    ASSUME TypeOK, PendingOwnsKeys, ServiceStep
    PROVE  PendingOwnsKeys'
<1>1. ASSUME UNCHANGED devices,
             \A g \in Handlers : HoldsKey(g)' => HoldsKey(g) /\ device_of(g)' = device_of(g)
      PROVE  PendingOwnsKeys'
    BY <1>1 DEF PendingOwnsKeys, taken
<1>2. ASSUME NEW h \in Handlers, NEW r \in Requests, Receive(h, r) PROVE PendingOwnsKeys'
    <2>1. UNCHANGED devices /\ Locals(h)'.pc \in {"consume", "replied"}
        BY <1>2, AfterReceive DEF tables
    <2>2. \A g \in Handlers \ {h} : Locals(g)' = Locals(g) /\ device_of(g)' = device_of(g)
        BY <1>2, AfterReceive
    <2>3. QED  BY <1>1, <2>1, <2>2 DEF HoldsKey
<1>3. ASSUME NEW h \in Handlers, CommitStep(h) PROVE PendingOwnsKeys'
    <2>1. HoldsKey(h) /\ devices' = devices \cup {device_of(h)}
        BY <1>3 DEF CommitStep, At, HoldsKey, committed
    <2>2. PICK a \in Responses : Moved(h, "replied", a)
        BY <1>3 DEF CommitStep
    <2>3. "replied" \in Pcs
        BY DEF Pcs
    <2>4. Locals(h)'.pc = "replied" /\ \A g \in Handlers : device_of(g)' = device_of(g)
        BY <2>2, <2>3, AfterMove
    <2>5. \A g \in Handlers \ {h} : Locals(g)' = Locals(g)
        BY <2>2, <2>3, AfterMove
    <2>6. \A g \in Handlers : HoldsKey(g)' => HoldsKey(g) /\ g # h
        BY <2>4, <2>5 DEF HoldsKey
    <2>7. ASSUME NEW g \in Handlers, HoldsKey(g)' PROVE ~taken(device_of(g))'
        <3>1. HoldsKey(g) /\ g # h /\ ~same_key(device_of(h), device_of(g)) /\ ~taken(device_of(g))
            BY <2>1, <2>6, <2>7 DEF PendingOwnsKeys
        <3>2. \A d \in devices' : ~same_key(d, device_of(g))
            BY <2>1, <3>1 DEF taken
        <3>3. QED  BY <2>4, <3>2 DEF taken
    <2>8. QED  BY <2>4, <2>6, <2>7 DEF PendingOwnsKeys
<1>4. ASSUME NEW h \in Handlers, ConsumeStep(h) \/ HandlerStep(h) PROVE PendingOwnsKeys'
    <2>1. PICK pc \in Pcs, a \in Responses \cup {None} :
              /\ Moved(h, pc, a)
              /\ pc \in {"audit", "commit"} =>
                    HoldsKey(h) \/ (~taken(device_of(h)) /\ ~contended(device_of(h)))
        BY <1>4 DEF ConsumeStep, HandlerStep
    <2>2. Locals(h)'.pc = pc /\ \A g \in Handlers : device_of(g)' = device_of(g)
        BY <2>1, AfterMove
    <2>3. \A g \in Handlers \ {h} : Locals(g)' = Locals(g)
        BY <2>1, AfterMove
    <2>4. UNCHANGED devices
        BY <1>4 DEF ConsumeStep, HandlerStep
    <2>5. \A g \in Handlers \ {h} : HoldsKey(g)' => HoldsKey(g)
        BY <2>3 DEF HoldsKey
    <2>6. HoldsKey(h)' => HoldsKey(h) \/ (~taken(device_of(h)) /\ ~contended(device_of(h)))
        BY <2>1, <2>2 DEF HoldsKey
    <2>7. CASE ~HoldsKey(h)' \/ HoldsKey(h)
        BY <1>1, <2>2, <2>4, <2>5, <2>7
    <2>8. CASE HoldsKey(h)' /\ ~taken(device_of(h)) /\ ~contended(device_of(h))
        <3>1. \A g \in Handlers : HoldsKey(g)' => ~taken(device_of(g))
            BY <2>5, <2>8 DEF PendingOwnsKeys
        <3>2. \A g \in Handlers \ {h} : HoldsKey(g)' =>
                  ~same_key(device_of(g), device_of(h)) /\ ~same_key(device_of(h), device_of(g))
            BY <2>5, <2>8 DEF contended, same_key
        <3>3. \A f, g \in Handlers : HoldsKey(f)' /\ HoldsKey(g)'
                  /\ same_key(device_of(g), device_of(f)) => g = f
            BY <2>5, <3>2 DEF PendingOwnsKeys
        <3>4. QED  BY <2>2, <2>4, <3>1, <3>3 DEF PendingOwnsKeys, taken
    <2>9. QED  BY <2>6, <2>7, <2>8
<1>5. ASSUME UNCHANGED <<devices, handler>> PROVE PendingOwnsKeys'
    BY <1>1, <1>5, QuietHandlers DEF HoldsKey
<1>6. QED
    BY <1>2, <1>3, <1>4, <1>5 DEF ServiceStep, CreateChallenge, Purge, Tick, tables

-----------------------------------------------------------------------------
\* Only a commit changes users, devices and the device_enrolled events.
LEMMA OnlyCommits ==
    ASSUME ServiceStep
    PROVE  \/ UNCHANGED <<users, devices, audit>>
           \/ \E h \in Handlers : CommitStep(h)
    BY DEF ServiceStep, Receive, ConsumeStep, HandlerStep, CreateChallenge, Purge, Tick, tables

LEMMA KeysStep ==
    ASSUME TypeOK, PendingOwnsChallenge, PendingOwnsKeys, KeysEnrolledOnce, ServiceStep
    PROVE  KeysEnrolledOnce'
<1>1. ASSUME NEW h \in Handlers, CommitStep(h) PROVE KeysEnrolledOnce'
    <2>1. Enrolling(h) /\ HoldsKey(h) /\ devices' = devices \cup {device_of(h)}
        BY <1>1 DEF CommitStep, At, Enrolling, HoldsKey, committed
    <2>2. \A d \in devices : ~same_key(d, device_of(h)) /\ d.challenge # device_of(h).challenge
        BY <2>1 DEF PendingOwnsChallenge, PendingOwnsKeys, taken, device_of
    <2>3. QED  BY <2>1, <2>2 DEF KeysEnrolledOnce, same_key
<1>2. QED  BY <1>1, OnlyCommits DEF KeysEnrolledOnce

\* A commit adds one user, one device of that user and one event of it.
LEMMA TogetherStep ==
    ASSUME TypeOK, UserIdsAreFresh, UserDeviceAuditTogether, ServiceStep
    PROVE  UserDeviceAuditTogether'
<1>1. ASSUME NEW h \in Handlers, CommitStep(h) PROVE UserDeviceAuditTogether'
    <2> DEFINE u == Locals(h).user_id
    <2>1. /\ users' = users \cup {u} /\ devices' = devices \cup {device_of(h)}
          /\ audit' = Append(audit, u)
        BY <1>1 DEF CommitStep, committed
    <2>2. u \in 1 .. served /\ u \notin users
        BY <1>1 DEF CommitStep, At, Free, UserIdsAreFresh
    <2>3. users \subseteq 1 .. served /\ audit \in Seq(1 .. served) /\ served \in Nat
        BY DEF TypeOK
    <2>4. device_of(h).user_id = u
        BY DEF device_of
    <2> HIDE DEF u
    <2>5. users' = {d.user_id : d \in devices'}
        BY <2>1, <2>4 DEF UserDeviceAuditTogether
    <2>6. /\ Len(audit') = Len(audit) + 1 /\ audit'[Len(audit) + 1] = u /\ Len(audit) \in Nat
          /\ \A i \in 1 .. Len(audit) : audit'[i] = audit[i]
        BY <2>1, <2>2, <2>3
    <2>7. 1 .. Len(audit') = (1 .. Len(audit)) \cup {Len(audit) + 1}
        BY <2>6
    <2>8. users' = {audit'[i] : i \in 1 .. Len(audit')}
        <3>1. users = {audit[i] : i \in 1 .. Len(audit)}
            BY DEF UserDeviceAuditTogether
        <3> DEFINE n == Len(audit)
        <3>2. \A i \in 1 .. n : audit'[i] \in users'
            BY <2>1, <2>6, <3>1
        <3>3. \A x \in users : \E i \in 1 .. n : audit'[i] = x
            BY <2>6, <3>1
        <3>4. \A i \in 1 .. Len(audit') : audit'[i] \in users'
            BY <2>1, <2>6, <2>7, <3>2
        <3>5. \A x \in users' : \E i \in 1 .. Len(audit') : audit'[i] = x
            BY <2>1, <2>6, <2>7, <3>3
        <3>6. QED  BY <3>4, <3>5
    <2>9. IsFiniteSet(users) /\ Cardinality(users') = Cardinality(users) + 1
        <3>1. IsFiniteSet(1 .. served)
            BY <2>3, FS_Interval
        <3>2. IsFiniteSet(users)
            BY <2>3, <3>1, FS_Subset
        <3>3. QED  BY <2>1, <2>2, <3>2, FS_AddElement
    <2>10. Len(audit') = Cardinality(users')
        BY <2>6, <2>9 DEF UserDeviceAuditTogether
    <2>11. QED  BY <2>5, <2>8, <2>10 DEF UserDeviceAuditTogether
<1>2. QED  BY <1>1, OnlyCommits DEF UserDeviceAuditTogether

\* A device keeps its proofs, and its challenge is never consumed again.
LEMMA ProvedStep ==
    ASSUME TypeOK, RowsTellHistory, PendingOwnsChallenge, DeviceProvedItsChallenge, ServiceStep
    PROVE  DeviceProvedItsChallenge'
<1> DEFINE Proved(d) ==
        \E r \in Requests :
            /\ r.challenge_id = d.challenge
            /\ r.pop.signed /\ r.pop.challenge = d.challenge /\ r.pop.key_id = d.key_id
            /\ r.attestation.chain_ok /\ r.attestation.challenge = d.challenge
            /\ r.attestation.key_id = d.key_id /\ r.attestation.thumbprint = d.jwk_thumbprint
<1>1. DeviceProvedItsChallenge = \A d \in devices : attempts[d.challenge] = 1 /\ Proved(d)
    BY DEF DeviceProvedItsChallenge
<1>2. DeviceProvedItsChallenge' = \A d \in devices' : attempts'[d.challenge] = 1 /\ Proved(d)
    BY DEF DeviceProvedItsChallenge
<1>3. ASSUME NEW h \in Handlers, CommitStep(h) PROVE DeviceProvedItsChallenge'
    <2>1. /\ ~Free(h) /\ Enrolling(h) /\ UNCHANGED attempts
          /\ devices' = devices \cup {device_of(h)}
        BY <1>3 DEF CommitStep, At, Enrolling, Free, committed
    <2>2. Req(h) \in Requests /\ attempts[Req(h).challenge_id] = 1
          /\ verify_enrollment(Req(h), Req(h).challenge_id) = "ok"
        BY <2>1, HandlerTyped DEF PendingOwnsChallenge
    <2>3. pop_verified(Req(h), Req(h).challenge_id)
          /\ attestation_verified(Req(h), Req(h).challenge_id)
        BY <2>2 DEF verify_enrollment
    <2>4. attempts[device_of(h).challenge] = 1 /\ Proved(device_of(h))
        BY <2>2, <2>3 DEF device_of, pop_verified, attestation_verified
    <2> HIDE DEF Proved
    <2>5. QED  BY <1>1, <1>2, <2>1, <2>4
<1>4. ASSUME NEW h \in Handlers, ConsumeStep(h) PROVE DeviceProvedItsChallenge'
    <2>1. /\ Req(h).challenge_id \in Challenges /\ consumable(Req(h).challenge_id)
          /\ consume(Req(h).challenge_id) /\ UNCHANGED devices
        BY <1>4, HandlerTyped DEF ConsumeStep, At, Free
    <2>2. attempts[Req(h).challenge_id] = 0
          /\ \A e \in Challenges \ {Req(h).challenge_id} : attempts'[e] = attempts[e]
        BY <2>1, AfterConsume
    <2>3. \A d \in devices : d.challenge \in Challenges
        BY DEF TypeOK
    <2> HIDE DEF Proved
    <2>4. \A d \in devices : attempts[d.challenge] = 1 /\ Proved(d)
        BY <1>1
    <2>5. \A d \in devices : d.challenge # Req(h).challenge_id
        BY <2>2, <2>4
    <2>6. \A d \in devices : attempts'[d.challenge] = 1
        BY <2>2, <2>3, <2>4, <2>5
    <2>7. QED  BY <1>2, <2>1, <2>4, <2>6
<1>5. ASSUME UNCHANGED <<attempts, devices>> PROVE DeviceProvedItsChallenge'
    BY <1>5 DEF DeviceProvedItsChallenge
<1>6. QED
    BY <1>3, <1>4, <1>5
       DEF ServiceStep, Receive, HandlerStep, CreateChallenge, Purge, Tick, tables

\* An answer that was right stays right, because devices are never removed.
LEMMA AnswerStep ==
    ASSUME TypeOK, UserIdsAreFresh, UserDeviceAuditTogether, AnswerMatchesTable, ServiceStep
    PROVE  AnswerMatchesTable'
<1> DEFINE Answered(h) == At(h, "audit_reject") \/ At(h, "replied")
           Right(h) == /\ Locals(h).response = "Enrolled" => device_of(h) \in devices
                       /\ Locals(h).response = "AlreadyEnrolled" =>
                             \E d \in devices : same_key(d, device_of(h))
                                                /\ d.user_id # Locals(h).user_id
<1>0. devices \subseteq devices'
    BY OnlyCommits DEF CommitStep, committed
<1>1. ASSUME NEW g \in Handlers, Locals(g)' = Locals(g), device_of(g)' = device_of(g), Answered(g)'
      PROVE  Right(g)'
    <2>1. Right(g)
        BY <1>1 DEF AnswerMatchesTable, At
    <2>2. QED  BY <1>0, <1>1, <2>1
<1>2. ASSUME NEW h \in Handlers, NEW r \in Requests, Receive(h, r) PROVE AnswerMatchesTable'
    <2>1. Locals(h)'.response \notin {"Enrolled", "AlreadyEnrolled"}
        <3>1. Locals(h)'.response \in {None, "BadRequest"}
            BY <1>2, AfterReceive
        <3>2. None \notin {"Enrolled", "AlreadyEnrolled"}
            BY DEF Responses
        <3>3. QED  BY <3>1, <3>2
    <2>2. \A g \in Handlers \ {h} : Locals(g)' = Locals(g) /\ device_of(g)' = device_of(g)
        BY <1>2, AfterReceive
    <2>3. Right(h)'
        BY <2>1
    <2>4. QED  BY <1>1, <2>2, <2>3 DEF AnswerMatchesTable
<1>3. ASSUME NEW h \in Handlers, NEW pc \in Pcs, NEW a \in Responses \cup {None}, Moved(h, pc, a),
             Answered(h)' => Right(h)'
      PROVE  AnswerMatchesTable'
    <2>1. \A g \in Handlers \ {h} : Locals(g)' = Locals(g) /\ device_of(g)' = device_of(g)
        BY <1>3, AfterMove
    <2>2. QED  BY <1>1, <1>3, <2>1 DEF AnswerMatchesTable
<1>4. ASSUME NEW h \in Handlers, ConsumeStep(h) PROVE AnswerMatchesTable'
    <2>1. PICK pc \in Pcs, a \in Responses \cup {None} :
              /\ Moved(h, pc, a)
              /\ pc = "insert_user" \/ a \in Responses \ {"Enrolled", "AlreadyEnrolled"}
        BY <1>4 DEF ConsumeStep
    <2>2. Locals(h)'.pc = pc /\ Locals(h)'.response = a
        BY <2>1, AfterMove
    <2>3. Answered(h)' => Right(h)'
        BY <2>1, <2>2 DEF At
    <2>4. QED  BY <1>3, <2>1, <2>3
<1>5. ASSUME NEW h \in Handlers, CommitStep(h) PROVE AnswerMatchesTable'
    <2>1. PICK a \in Responses \ {"AlreadyEnrolled"} : Moved(h, "replied", a)
        BY <1>5 DEF CommitStep
    <2>2. "replied" \in Pcs
        BY DEF Pcs
    <2>3. Locals(h)'.response = a /\ device_of(h)' = device_of(h)
        BY <2>1, <2>2, AfterMove
    <2>4. device_of(h) \in devices'
        BY <1>5 DEF CommitStep, committed
    <2>5. Right(h)'
        BY <2>1, <2>3, <2>4
    <2>6. QED  BY <1>3, <2>1, <2>2, <2>5
<1>6. ASSUME NEW h \in Handlers, HandlerStep(h) PROVE AnswerMatchesTable'
    <2>1. PICK pc \in Pcs, a \in Responses \cup {None} :
              /\ Moved(h, pc, a)
              /\ pc \in {"audit_reject", "replied"} =>
                    \/ a \notin {"Enrolled", "AlreadyEnrolled"}
                    \/ a = "AlreadyEnrolled" /\ taken(device_of(h))
                    \/ a = Locals(h).response /\ At(h, "audit_reject")
        BY <1>6 DEF HandlerStep
    <2>2. /\ Locals(h)'.pc = pc /\ Locals(h)'.response = a /\ device_of(h)' = device_of(h)
          /\ Locals(h)'.user_id = Locals(h).user_id
        BY <2>1, AfterMove
    <2>3. UNCHANGED devices /\ ~Free(h)
        BY <1>6 DEF HandlerStep
    <2>4. Locals(h).user_id \notin users
        BY <2>3 DEF UserIdsAreFresh, Free, At
    <2>5. \A d \in devices : d.user_id # Locals(h).user_id
        BY <2>4 DEF UserDeviceAuditTogether
    <2>6. CASE a \notin {"Enrolled", "AlreadyEnrolled"} \/ pc \notin {"audit_reject", "replied"}
        BY <1>3, <2>1, <2>2, <2>6 DEF At
    <2>7. CASE a = "AlreadyEnrolled" /\ taken(device_of(h))
        <3>1. Right(h)'
            BY <2>2, <2>3, <2>5, <2>7 DEF taken
        <3>2. QED  BY <1>3, <2>1, <3>1
    <2>8. CASE a = Locals(h).response /\ At(h, "audit_reject")
        <3>1. Right(h)
            BY <2>8 DEF AnswerMatchesTable
        <3>2. Right(h)'
            BY <2>2, <2>3, <2>8, <3>1
        <3>3. QED  BY <1>3, <2>1, <3>2
    <2>9. QED  BY <2>1, <2>6, <2>7, <2>8
<1>7. ASSUME UNCHANGED <<devices, handler>> PROVE AnswerMatchesTable'
    BY <1>7 DEF AnswerMatchesTable, At, Locals, device_of, Req
<1>8. QED
    BY <1>2, <1>4, <1>5, <1>6, <1>7 DEF ServiceStep, CreateChallenge, Purge, Tick, tables

-----------------------------------------------------------------------------
\* The parts of the inductive invariant, together.
EnrollmentInv == TablesInv /\ DeviceProvedItsChallenge /\ AnswerMatchesTable

LEMMA InitInv == Init => EnrollmentInv
<1> SUFFICES ASSUME Init PROVE EnrollmentInv
    OBVIOUS
<1>0. /\ clock = 0 /\ users = {} /\ devices = {} /\ audit = <<>> /\ rejections = {} /\ served = 0
      /\ challenges = [c \in Challenges |-> None] /\ created = [c \in Challenges |-> None]
      /\ attempts = [c \in Challenges |-> 0] /\ handler = [h \in Handlers |-> Idle]
    BY DEF Init
<1>1. Idle \in HandlerStates /\ Idle.pc = "idle"
    BY DEF Idle, HandlerStates, Pcs, Responses
<1>2. \A h \in Handlers : At(h, "idle") /\ ~Enrolling(h) /\ ~HoldsKey(h) /\ Locals(h).pc = "idle"
    BY <1>0, <1>1 DEF At, Locals, Enrolling, HoldsKey
<1>3. HandlersTyped
    BY <1>0, <1>1, <1>2 DEF HandlersTyped, At
<1>4. TablesTyped
    BY <1>0 DEF TablesTyped
<1>5. TypeOK
    BY <1>0, <1>3, <1>4, TypeParts
<1>6. KeysEnrolledOnce /\ DeviceProvedItsChallenge
    BY <1>0 DEF KeysEnrolledOnce, DeviceProvedItsChallenge
<1>7. UserDeviceAuditTogether
    BY <1>0, FS_EmptySet DEF UserDeviceAuditTogether
<1>8. RowsTellHistory
    BY <1>0 DEF RowsTellHistory
<1>9. PendingOwnsChallenge /\ PendingOwnsKeys /\ UserIdsAreFresh
    BY <1>2 DEF PendingOwnsChallenge, PendingOwnsKeys, UserIdsAreFresh
<1>10. AnswerMatchesTable
    BY <1>2 DEF AnswerMatchesTable, At
<1>11. QED
    BY <1>5, <1>6, <1>7, <1>8, <1>9, <1>10 DEF EnrollmentInv, TablesInv

LEMMA NextInv == EnrollmentInv /\ [Next]_vars => EnrollmentInv'
<1> SUFFICES ASSUME EnrollmentInv, [Next]_vars PROVE EnrollmentInv'
    OBVIOUS
<1> USE DEF EnrollmentInv, TablesInv
<1>1. CASE ServiceStep
    BY <1>1, TypeStep, RowsStep, UserIdsStep, PendingChallengeStep, PendingKeysStep,
       KeysStep, TogetherStep, ProvedStep, AnswerStep
<1>2. CASE UNCHANGED vars
    <2>1. UNCHANGED <<clock, challenges, created, attempts, users, devices, audit, rejections,
                      handler, served>>
        BY <1>2 DEF vars
    <2>2. TypeOK'
        BY <2>1 DEF TypeOK, At, Req, Locals
    <2>3. KeysEnrolledOnce' /\ UserDeviceAuditTogether'
        BY <2>1 DEF KeysEnrolledOnce, UserDeviceAuditTogether
    <2>4. RowsTellHistory' /\ UserIdsAreFresh'
        BY <2>1 DEF RowsTellHistory, UserIdsAreFresh, At, Free, Locals
    <2>5. PendingOwnsChallenge' /\ PendingOwnsKeys'
        BY <2>1, QuietHandlers DEF PendingOwnsChallenge, PendingOwnsKeys, Enrolling, HoldsKey, taken
    <2>6. DeviceProvedItsChallenge' /\ AnswerMatchesTable'
        BY <2>1, QuietHandlers DEF DeviceProvedItsChallenge, AnswerMatchesTable, At
    <2>7. QED  BY <2>2, <2>3, <2>4, <2>5, <2>6
<1>3. QED  BY <1>1, <1>2, StepKinds

\* However many handlers race, are lost half way or wait for each other's keys:
\* no key and no challenge has two devices, and user, device and event of an
\* enrollment exist together.
THEOREM TablesStayConsistent == Spec => []TablesInv
<1>1. EnrollmentInv => TablesInv
    BY DEF EnrollmentInv
<1>2. QED  BY <1>1, InitInv, NextInv, PTL DEF Spec

\* A device was enrolled with a proof of possession and an attestation made for
\* the challenge that was consumed for it, once.
THEOREM DevicesAreProved == Spec => []DeviceProvedItsChallenge
<1>1. EnrollmentInv => DeviceProvedItsChallenge
    BY DEF EnrollmentInv
<1>2. QED  BY <1>1, InitInv, NextInv, PTL DEF Spec

\* No answer is ahead of the tables.
THEOREM AnswersAreTrue == Spec => []AnswerMatchesTable
<1>1. EnrollmentInv => AnswerMatchesTable
    BY DEF EnrollmentInv
<1>2. QED  BY <1>1, InitInv, NextInv, PTL DEF Spec

\* From its creation to its expiry a challenge is good for one attempt: the
\* purge, a lost handler or a second body neither revive it nor take it away.
THEOREM ChallengesAreGoodOnce == Spec => []ChallengeIsGoodOnce
<1>1. EnrollmentInv => ChallengeIsGoodOnce
    <2> SUFFICES ASSUME EnrollmentInv, NEW c \in Challenges
                 PROVE  /\ attempts[c] <= 1
                        /\ consumable(c) <=> /\ created[c] # None /\ attempts[c] = 0
                                             /\ created[c] > clock
        BY DEF ChallengeIsGoodOnce, OneAttemptPerChallenge, LiveChallengeIsUsable
    <2>1. /\ attempts[c] <= 1
          /\ created[c] = None => challenges[c] = None /\ attempts[c] = 0
          /\ created[c] # None /\ challenges[c] = None => created[c] < clock
          /\ challenges[c] # None =>
                /\ challenges[c].expires_at = created[c]
                /\ attempts[c] = IF challenges[c].consumed THEN 1 ELSE 0
        BY DEF EnrollmentInv, TablesInv, RowsTellHistory
    <2>2. created[c] \in Int \cup {None} /\ attempts[c] \in Nat /\ clock \in Int
          /\ challenges[c] \in ChallengeRows \cup {None}
        BY DEF EnrollmentInv, TablesInv, TypeOK
    <2>3. CASE created[c] = None
        BY <2>1, <2>2, <2>3 DEF consumable
    <2>4. CASE created[c] # None /\ challenges[c] = None
        BY <2>1, <2>2, <2>4 DEF consumable
    <2>5. CASE created[c] # None /\ challenges[c] # None
        BY <2>1, <2>2, <2>5 DEF consumable, ChallengeRows
    <2>6. QED  BY <2>3, <2>4, <2>5
<1>2. QED  BY <1>1, InitInv, NextInv, PTL DEF Spec
=============================================================================
