-------------------------- MODULE EnrollmentService -------------------------
(***************************************************************************)
(* Enrollment at the Issuer Service (crates/issuer-service/src/service.rs  *)
(* create_challenge, enroll, purge_expired_challenges): a challenge is     *)
(* consumed in a transaction of its own, then user and device are inserted *)
(* in another.  One action per statement; a handler may be lost at any     *)
(* await, and the statement in flight may have been executed.              *)
(*                                                                         *)
(* A request carries what its signatures are bound to:                     *)
(*   pop          [signed, purpose_ok, jwk_thumbprint, challenge, key_id]  *)
(*   attestation  [chain_ok, challenge, thumbprint, key_id, policy_ok]     *)
(* next to the challenge_id, key_id and thumbprint (of principal_jwk) it   *)
(* names itself.  A challenge is named by its id and stands for its bytes. *)
(***************************************************************************)
EXTENDS Integers, Sequences, FiniteSets

CONSTANTS
    None,
    Handlers,       \* concurrent requests
    Challenges,     \* challenge ids
    Requests,       \* enrollment bodies
    Ttl,            \* cfg.challenge_ttl
    PurgeAfter,     \* the hour an expired challenge is kept
    MaxClock,       \* bound on the clock
    MaxRequests     \* bound on the requests of a behaviour

ASSUME TimesAssumption == Ttl \in Nat /\ PurgeAfter \in Nat /\ MaxClock \in Nat
ASSUME RequestsAssumption ==
    \A r \in Requests : r.challenge_id \in Challenges /\ r.pop.challenge \in Challenges

\* A row of enrollment_challenges: expires_at, and whether consumed_at is set.
ChallengeRows == [expires_at : Int, consumed : BOOLEAN]

\* What POST /enroll answers.
Responses == {"BadRequest", "InvalidChallenge", "pop_rejected", "attestation_rejected",
              "AlreadyEnrolled", "Enrolled", "Internal"}
ASSUME NoneAssumption ==
    None \notin Requests /\ None \notin Int /\ None \notin Responses /\ None \notin ChallengeRows

VARIABLES
    clock,          \* Postgres now()
    challenges,     \* enrollment_challenges: id -> [expires_at, consumed] or None
    created,        \* history: the expiry each id was handed out with, or None;
                    \* an id is never drawn twice
    attempts,       \* history: how often each challenge was consumed
    users,          \* users: user ids
    devices,        \* devices: [user_id, jwk_thumbprint, key_id, challenge]
    audit,          \* device_enrolled events, in commit order: user ids
    rejections,     \* reasons of the enrollment_rejected events
    handler,        \* per handler: [pc, req, user_id, response]
    served          \* requests received so far

tables == <<challenges, attempts, users, devices, audit, rejections>>
vars == <<clock, challenges, created, attempts, users, devices, audit, rejections,
          handler, served>>

Idle == [pc |-> "idle", req |-> None, user_id |-> 0, response |-> None]

Init ==
    /\ clock = 0
    /\ challenges = [c \in Challenges |-> None]
    /\ created = [c \in Challenges |-> None]
    /\ attempts = [c \in Challenges |-> 0]
    /\ users = {} /\ devices = {} /\ audit = <<>> /\ rejections = {}
    /\ handler = [h \in Handlers |-> Idle]
    /\ served = 0

-----------------------------------------------------------------------------
Locals(h) == handler[h]
Req(h) == Locals(h).req
At(h, pc) == Locals(h).pc = pc
Free(h) == Locals(h).pc \in {"idle", "replied"}
Goto(h, pc) == handler' = [handler EXCEPT ![h].pc = pc]
Reply(h, response) ==
    handler' = [handler EXCEPT ![h].pc = "replied", ![h].response = response]

\* Go and audit a rejection, then answer with it.
Reject(h, response) ==
    handler' = [handler EXCEPT ![h].pc = "audit_reject", ![h].response = response]

\* create_challenge: random id and bytes, committed at once.  Whether the
\* client ever hears of it makes no difference to the table.
CreateChallenge(c) ==
    /\ created[c] = None
    /\ created' = [created EXCEPT ![c] = clock + Ttl]
    /\ challenges' = [challenges EXCEPT ![c] = [expires_at |-> clock + Ttl, consumed |-> FALSE]]
    /\ UNCHANGED <<clock, attempts, users, devices, audit, rejections, handler, served>>

\* Mutant: the sign of the retention is wrong.
purgeable_Early(row) == row # None /\ row.expires_at < clock + PurgeAfter

\* where expires_at < now() - interval '1 hour'
purgeable(row) == row # None /\ row.expires_at < clock - PurgeAfter

\* purge_expired_challenges, on its timer; a failed pass is retried later.
Purge ==
    /\ \E c \in Challenges : purgeable(challenges[c])
    /\ challenges' = [c \in Challenges |->
                        IF purgeable(challenges[c]) THEN None ELSE challenges[c]]
    /\ UNCHANGED <<clock, created, attempts, users, devices, audit, rejections, handler, served>>

\* parse_enroll_request.  Nobody can sign challenge bytes before they exist.
Receive(h, r) ==
    /\ Free(h)
    /\ served < MaxRequests
    /\ created[r.pop.challenge] # None
    /\ served' = served + 1
    /\ handler' = [handler EXCEPT ![h] =
            [pc |-> IF r.well_formed THEN "consume" ELSE "replied", req |-> r,
             user_id |-> served + 1,
             response |-> IF r.well_formed THEN None ELSE "BadRequest"]]
    /\ UNCHANGED <<clock, tables, created>>

\* verify_enrollment_at, in its order; no I/O.
pop_verified(r, challenge) ==
    /\ r.pop.signed /\ r.pop.purpose_ok
    /\ r.pop.jwk_thumbprint = r.thumbprint
    /\ r.pop.challenge = challenge
    /\ r.pop.key_id = r.key_id

\* Mutant: the attestation's clientDataHash is not compared.
attestation_verified_AnyData(r, challenge) ==
    /\ r.attestation.chain_ok
    /\ r.attestation.key_id = r.key_id
    /\ r.attestation.policy_ok

\* verify_attestation_with_root, as far as enrollment relies on it.
attestation_verified(r, challenge) ==
    /\ r.attestation.chain_ok
    /\ r.attestation.challenge = challenge /\ r.attestation.thumbprint = r.thumbprint
    /\ r.attestation.key_id = r.key_id
    /\ r.attestation.policy_ok
verify_enrollment(r, challenge) ==
    IF ~pop_verified(r, challenge) THEN "pop_rejected"
    ELSE IF ~attestation_verified(r, challenge) THEN "attestation_rejected"
    ELSE "ok"

\* where consumed_at is null and expires_at > now()
consumable(c) ==
    challenges[c] # None /\ ~challenges[c].consumed /\ challenges[c].expires_at > clock

consume(c) ==
    /\ challenges' = [challenges EXCEPT ![c].consumed = TRUE]
    /\ attempts' = [attempts EXCEPT ![c] = @ + 1]

\* Consume first, atomically and unconditionally; then verify.
ConsumeAndVerify(h) ==
    LET r == Req(h)
        c == r.challenge_id
        verdict == verify_enrollment(r, c)
    IN  /\ At(h, "consume")
        /\ \/ /\ ~consumable(c)
              /\ Reject(h, "InvalidChallenge")
              /\ UNCHANGED <<challenges, attempts>>
           \/ /\ consumable(c)
              /\ consume(c)
              /\ IF verdict = "ok" THEN Goto(h, "insert_user") ELSE Reject(h, verdict)
        /\ UNCHANGED <<clock, created, users, devices, audit, rejections, served>>

\* begin; insert into users: the id is fresh, nothing can conflict.
InsertUser(h) ==
    /\ At(h, "insert_user")
    /\ Goto(h, "insert_device")
    /\ UNCHANGED <<clock, tables, created, served>>

\* The unique constraints on jwk_thumbprint and app_attest_key_id.
same_key(a, b) == a.jwk_thumbprint = b.jwk_thumbprint \/ a.key_id = b.key_id
device_of(h) ==
    [user_id |-> Locals(h).user_id, jwk_thumbprint |-> Req(h).thumbprint,
     key_id |-> Req(h).key_id, challenge |-> Req(h).challenge_id]

\* A transaction whose device row is inserted and not committed yet.
HoldsKey(h) == Locals(h).pc \in {"audit", "commit"}
taken(dev) == \E d \in devices : same_key(d, dev)

contended(dev) == \E g \in Handlers : HoldsKey(g) /\ same_key(device_of(g), dev)

\* Mutant: an uncommitted row of another transaction is already a violation.
InsertDevice_NoWait(h) ==
    /\ At(h, "insert_device")
    /\ \/ /\ taken(device_of(h)) \/ contended(device_of(h))
          /\ Reject(h, "AlreadyEnrolled")
       \/ /\ ~taken(device_of(h)) /\ ~contended(device_of(h))
          /\ Goto(h, "audit")
    /\ UNCHANGED <<clock, tables, created, served>>

\* Mutant: there is no unique constraint, the insert checks and goes ahead.
InsertDevice_NoConstraint(h) ==
    /\ At(h, "insert_device")
    /\ IF taken(device_of(h)) THEN Reject(h, "AlreadyEnrolled") ELSE Goto(h, "audit")
    /\ UNCHANGED <<clock, tables, created, served>>

\* insert into devices.  A row with the same key that another transaction has
\* inserted makes the insert wait for that transaction to end.  A violation
\* drops the transaction, and the user row with it.
InsertDevice(h) ==
    /\ At(h, "insert_device")
    /\ \/ /\ taken(device_of(h))
          /\ Reject(h, "AlreadyEnrolled")
       \/ /\ ~taken(device_of(h)) /\ ~contended(device_of(h))
          /\ Goto(h, "audit")
    /\ UNCHANGED <<clock, tables, created, served>>

\* Mutant: the event is written on a connection of its own and waits for the
\* row its own transaction holds.
Audit_OtherConnection(h) ==
    /\ At(h, "audit")
    /\ ~contended(device_of(h))
    /\ Goto(h, "commit")
    /\ UNCHANGED <<clock, tables, created, served>>

\* The device_enrolled event, in the same transaction.
Audit(h) ==
    /\ At(h, "audit")
    /\ Goto(h, "commit")
    /\ UNCHANGED <<clock, tables, created, served>>

\* User, device and event become visible together.
committed(h) ==
    /\ users' = users \cup {Locals(h).user_id}
    /\ devices' = devices \cup {device_of(h)}
    /\ audit' = Append(audit, Locals(h).user_id)

Commit(h) ==
    /\ At(h, "commit")
    /\ committed(h)
    /\ Reply(h, "Enrolled")
    /\ UNCHANGED <<clock, challenges, created, attempts, rejections, served>>

\* audit_reject is best effort; the rejection stands either way.
AuditReject(h) ==
    /\ At(h, "audit_reject")
    /\ \/ rejections' = rejections \cup {Locals(h).response}
       \/ UNCHANGED rejections
    /\ Goto(h, "replied")
    /\ UNCHANGED <<clock, challenges, created, attempts, users, devices, audit, served>>

\* The handler is lost at an await.
Lose(h) ==
    /\ ~Free(h)
    /\ \/ UNCHANGED tables
       \/ /\ At(h, "consume") /\ consumable(Req(h).challenge_id)
          /\ consume(Req(h).challenge_id)
          /\ UNCHANGED <<users, devices, audit, rejections>>
       \/ /\ At(h, "commit") /\ committed(h)
          /\ UNCHANGED <<challenges, attempts, rejections>>
       \/ /\ At(h, "audit_reject")
          /\ rejections' = rejections \cup {Locals(h).response}
          /\ UNCHANGED <<challenges, attempts, users, devices, audit>>
    /\ Reply(h, "Internal")
    /\ UNCHANGED <<clock, created, served>>

Tick ==
    /\ clock < MaxClock
    /\ clock' = clock + 1
    /\ UNCHANGED <<tables, created, handler, served>>

Step(h) ==
    \/ ConsumeAndVerify(h) \/ InsertUser(h) \/ InsertDevice(h)
    \/ Audit(h) \/ Commit(h) \/ AuditReject(h)

Next ==
    \/ \E h \in Handlers : Step(h) \/ Lose(h) \/ \E r \in Requests : Receive(h, r)
    \/ \E c \in Challenges : CreateChallenge(c)
    \/ Purge
    \/ Tick

\* The runtime polls every handler, and Postgres answers it.
Fairness == \A h \in Handlers : WF_vars(Step(h))

Spec == Init /\ [][Next]_vars /\ Fairness

-----------------------------------------------------------------------------
Pcs == {"idle", "consume", "insert_user", "insert_device", "audit", "commit",
        "audit_reject", "replied"}

HandlerStates ==
    [pc : Pcs, req : Requests \cup {None}, user_id : Nat, response : Responses \cup {None}]

TypeOK ==
    /\ clock \in 0 .. MaxClock
    /\ challenges \in [Challenges -> ChallengeRows \cup {None}]
    /\ created \in [Challenges -> Int \cup {None}]
    /\ attempts \in [Challenges -> Nat]
    /\ handler \in [Handlers -> HandlerStates]
    /\ \A h \in Handlers :
          /\ ~At(h, "idle") => Req(h) \in Requests
          /\ At(h, "audit_reject") => Locals(h).response \in Responses
    /\ served \in Nat /\ users \subseteq 1 .. served /\ audit \in Seq(1 .. served)
    /\ \A d \in devices : d.challenge \in Challenges
    /\ rejections \subseteq Responses

\* "A challenge is good for exactly one attempt, successful or not": however
\* handlers race for it, are lost half way, or come back after the purge has
\* deleted its row.
OneAttemptPerChallenge == \A c \in Challenges : attempts[c] <= 1

\* No key is enrolled twice and no challenge yields two devices, although the
\* second transaction cannot see the first one's rows.
KeysEnrolledOnce ==
    \A a, b \in devices : same_key(a, b) \/ a.challenge = b.challenge => a = b

\* User, device and audit event exist together or not at all, whenever a
\* handler is lost.
UserDeviceAuditTogether ==
    /\ users = {d.user_id : d \in devices}
    /\ users = {audit[i] : i \in 1 .. Len(audit)}
    /\ Len(audit) = Cardinality(users)

\* A row tells what happened to its challenge since it was handed out, and a
\* row that is gone was purged after its expiry.
RowsTellHistory ==
    \A c \in Challenges :
        /\ attempts[c] <= 1
        /\ created[c] = None => challenges[c] = None /\ attempts[c] = 0
        /\ created[c] # None /\ challenges[c] = None => created[c] < clock
        /\ challenges[c] # None =>
              /\ challenges[c].expires_at = created[c]
              /\ attempts[c] = IF challenges[c].consumed THEN 1 ELSE 0

\* An enrollment between the two transactions owns its challenge: it alone was
\* verified against it, and no device has it.
Enrolling(h) == Locals(h).pc \in {"insert_user", "insert_device", "audit", "commit"}
PendingOwnsChallenge ==
    \A h \in Handlers : Enrolling(h) =>
        /\ attempts[Req(h).challenge_id] = 1
        /\ verify_enrollment(Req(h), Req(h).challenge_id) = "ok"
        /\ \A d \in devices : d.challenge # Req(h).challenge_id
        /\ \A g \in Handlers : Enrolling(g) /\ Req(g).challenge_id = Req(h).challenge_id => g = h

\* An inserted device row that is not committed yet has keys of its own.
PendingOwnsKeys ==
    \A h \in Handlers : HoldsKey(h) =>
        /\ ~taken(device_of(h))
        /\ \A g \in Handlers : HoldsKey(g) /\ same_key(device_of(g), device_of(h)) => g = h

\* User ids are drawn once, and a handler at work is not among the users yet.
UserIdsAreFresh ==
    \A h \in Handlers : ~At(h, "idle") =>
        /\ Locals(h).user_id \in 1 .. served
        /\ ~Free(h) => Locals(h).user_id \notin users
        /\ \A g \in Handlers : ~At(g, "idle") /\ Locals(g).user_id = Locals(h).user_id => g = h

\* service.rs: what the tables hold is well typed, unique and complete, and
\* what the transactions in flight will add keeps it so.
TablesInv ==
    /\ TypeOK
    /\ KeysEnrolledOnce /\ UserDeviceAuditTogether
    /\ RowsTellHistory /\ PendingOwnsChallenge /\ PendingOwnsKeys /\ UserIdsAreFresh

\* A device in the table was proved, by a proof of possession and by an
\* attestation, to belong to the challenge that was consumed for it.
DeviceProvedItsChallenge ==
    \A d \in devices : attempts[d.challenge] = 1 /\
        \E r \in Requests :
            /\ r.challenge_id = d.challenge
            /\ r.pop.signed /\ r.pop.challenge = d.challenge /\ r.pop.key_id = d.key_id
            /\ r.attestation.chain_ok /\ r.attestation.challenge = d.challenge
            /\ r.attestation.key_id = d.key_id /\ r.attestation.thumbprint = d.jwk_thumbprint

\* An answer is never ahead of the database: "enrolled" has its device, and
\* "already enrolled" has another device, committed, with the same key.
AnswerMatchesTable ==
    \A h \in Handlers : At(h, "audit_reject") \/ At(h, "replied") =>
        /\ Locals(h).response = "Enrolled" => device_of(h) \in devices
        /\ Locals(h).response = "AlreadyEnrolled" =>
              \E d \in devices : same_key(d, device_of(h)) /\ d.user_id # Locals(h).user_id

\* A challenge that was handed out, not tried and has not expired can be used,
\* and no other: neither the purge nor a lost handler takes one away or brings
\* one back.
LiveChallengeIsUsable ==
    \A c \in Challenges :
        consumable(c) <=> created[c] # None /\ attempts[c] = 0 /\ created[c] > clock

\* service.rs: from its creation to its expiry a challenge is good for one
\* attempt, no more and no less.
ChallengeIsGoodOnce == OneAttemptPerChallenge /\ LiveChallengeIsUsable

\* Every request is answered; waiting for another transaction's key ends.
EveryRequestAnswered == \A h \in Handlers : ~Free(h) ~> At(h, "replied")
=============================================================================
