--------------------------- MODULE VerifierService --------------------------
(***************************************************************************)
(* The v0 Verifier service (crates/verifier-service): concurrent handlers  *)
(* of POST /verify over one Postgres database.  The decision itself is     *)
(* aap-core's and does no I/O; everything it needs is fetched, await by    *)
(* await, BEFORE it runs: the principal's key, the status of each          *)
(* delegation, and the nonce, which is recorded before a single signature  *)
(* was checked.  One action per await point, so that revocations, other    *)
(* handlers and the pruning task interleave there.                         *)
(*                                                                         *)
(* At any await a handler may be lost: the database call fails (the code   *)
(* answers 500), the client hangs up and axum drops the future, or the     *)
(* process dies.  The statement in flight has then been executed or not.   *)
(***************************************************************************)
EXTENDS CoreVerifier

CONSTANTS
    Handlers,       \* concurrent requests
    Requests,       \* [authorized, chain, msg]
    Pairable,       \* delegations the pairing flow asks about and may store
    Revocable,      \* delegations that may be revoked
    KnownAtStart,   \* delegation ids stored before the behaviour begins
    Margin,         \* main.rs: the 60 seconds added to the nonce retention
    MaxStall,       \* longest time between a nonce's insert and the decision
    MaxRequests     \* bound on the requests of a behaviour

ASSUME MarginAssumption == Margin \in Nat /\ MaxStall \in Nat /\ MaxStall <= Margin
ASSUME RequestsAssumption ==
    /\ \A r \in Requests : r.msg.issued_at \in Int /\ Len(r.chain) \in Nat
    /\ None \notin Requests
ASSUME NoneAssumption == None \notin Instants

VARIABLES
    clock,      \* Utc::now and Postgres now()
    known,      \* aap_delegations: ids with a row
    revoked,    \* aap_delegations: ids whose revoked_at is set
    nonces,     \* aap_nonces: (agent_id, nonce) -> seen_at, or None
    receipts,   \* aap_receipts, the rows in the order they were inserted
    handler,    \* per handler, where it is and its locals
    granted,    \* history: how often each message was accepted
    served      \* requests received so far

tables == <<known, revoked, nonces, receipts>>
vars == <<clock, known, revoked, nonces, receipts, handler, granted, served>>

Messages == {r.msg : r \in Requests}
nonce_of(msg) == <<msg.agent_id, msg.nonce>>
Pairs == {nonce_of(m) : m \in Messages}
DelegationIds == KnownAtStart \cup {link.delegation_id : link \in Pairable}
                    \cup UNION {{r.chain[i].delegation_id : i \in 1 .. Len(r.chain)} : r \in Requests}

\* main.rs: what the pruning task is started with.
Retention == MaxAge + MaxSkew + Margin

Idle == [pc |-> "idle", req |-> None, next_link |-> 1, status |-> {},
         already_seen |-> TRUE, inserted_at |-> None, now |-> None,
         outcome |-> "none", revoked_at_start |-> {}]

Init ==
    /\ clock \in Instants /\ \A t \in Instants : clock <= t
    /\ known = KnownAtStart
    /\ revoked = {}
    /\ nonces = [pair \in Pairs |-> None]
    /\ receipts = <<>>
    /\ handler = [h \in Handlers |-> Idle]
    /\ granted = [m \in Messages |-> 0]
    /\ served = 0

-----------------------------------------------------------------------------
Locals(h) == handler[h]
Busy(h) == Locals(h).pc \in {"registry", "status", "nonce", "decide", "persist"}

Goto(h, pc) == handler' = [handler EXCEPT ![h].pc = pc]

\* The handler answers; its locals are gone.
Reply(h, outcome) ==
    handler' = [handler EXCEPT ![h] =
        [Idle EXCEPT !.pc = "replied", !.req = Locals(h).req, !.outcome = outcome,
                     !.revoked_at_start = Locals(h).revoked_at_start]]

\* POST /verify arrives: the secret is checked before the body is parsed, an
\* empty chain is refused, and the unverified payloads are peeked at.
Receive(h, r) ==
    /\ ~Busy(h)
    /\ served < MaxRequests
    /\ served' = served + 1
    /\ handler' = [handler EXCEPT ![h] =
            [Idle EXCEPT !.req = r, !.revoked_at_start = revoked,
                         !.pc = IF r.authorized /\ r.chain # <<>> THEN "registry" ELSE "replied",
                         !.outcome = IF ~r.authorized THEN "401"
                                     ELSE IF r.chain = <<>> THEN "400" ELSE "none"]]
    /\ UNCHANGED <<clock, tables, granted>>

\* registry_with_principal_key: the key of the last link that parses.  If the
\* root itself does not parse the decision fails on it before any key is used,
\* so the registry the decision sees is Registry at the root's principal.
FetchKey(h) ==
    /\ Locals(h).pc = "registry"
    /\ Goto(h, "status")
    /\ UNCHANGED <<clock, tables, granted, served>>

\* Mutant: an id without a row counts as not revoked.
row_revoked_FailOpen(d) == d \in revoked

\* A delegation without a row is treated as revoked.
row_revoked(d) == d \notin known \/ d \in revoked

\* status_for_chain: one query per id, an await after each.  The ids are the
\* unverified ones of the links that parse.
FetchStatus(h) ==
    LET chain == Locals(h).req.chain
        k == Locals(h).next_link
    IN  /\ Locals(h).pc = "status"
        /\ IF k > Len(chain)
             THEN Goto(h, "nonce")
             ELSE handler' = [handler EXCEPT
                    ![h].next_link = k + 1,
                    ![h].status = IF chain[k].parses /\ row_revoked(chain[k].delegation_id)
                                    THEN @ \cup {chain[k].delegation_id} ELSE @]
        /\ UNCHANGED <<clock, tables, granted, served>>

\* insert into aap_nonces ... on conflict do nothing: seen_at defaults to now().
insert_nonce(pair) ==
    nonces' = IF nonces[pair] = None THEN [nonces EXCEPT ![pair] = clock] ELSE nonces

\* Mutant: the check and the insert are two statements, and the insert is left
\* to the handler that accepts.
PrecheckNonce_ReadOnly(h) ==
    LET msg == Locals(h).req.msg IN
    /\ Locals(h).pc = "nonce"
    /\ handler' = [handler EXCEPT ![h].pc = "decide",
                     ![h].already_seen = ~msg.parses \/ nonces[nonce_of(msg)] # None]
    /\ UNCHANGED <<clock, tables, granted, served>>

\* precheck_nonce: atomic check-and-record, before any signature is verified.
\* A message that does not parse gets PrecomputedNonceStore::rejects_everything.
PrecheckNonce(h) ==
    LET msg == Locals(h).req.msg
        fresh == msg.parses /\ nonces[nonce_of(msg)] = None
    IN  /\ Locals(h).pc = "nonce"
        /\ IF msg.parses THEN insert_nonce(nonce_of(msg)) ELSE UNCHANGED nonces
        /\ handler' = [handler EXCEPT
                ![h].pc = "decide",
                ![h].already_seen = ~fresh,
                ![h].inserted_at = IF fresh THEN clock ELSE None]
        /\ UNCHANGED <<clock, known, revoked, receipts, granted, served>>

\* verifier.verify on the prefetched answers, at Utc::now; no await inside.
Decide(h) ==
    LET l == Locals(h)
        outcome == verify_inner(l.req.chain, l.req.msg, clock, l.status, l.already_seen)
    IN  /\ l.pc = "decide"
        /\ handler' = [handler EXCEPT ![h].pc = "persist", ![h].now = clock,
                                      ![h].outcome = outcome]
        /\ granted' = IF outcome = "ok" THEN [granted EXCEPT ![l.req.msg] = @ + 1]
                                        ELSE granted
        /\ UNCHANGED <<clock, tables, served>>

receipt_of(l) == issue_receipt(l.req.chain, l.req.msg, l.outcome, l.now)

\* Mutant: the response does not wait for the receipt.
Persist_ReplyFirst(h) ==
    /\ Locals(h).pc = "persist"
    /\ Reply(h, Locals(h).outcome)
    /\ UNCHANGED <<clock, tables, granted, served>>

\* persist_receipt inserts a row under a fresh receipt_id; then the response.
Persist(h) ==
    /\ Locals(h).pc = "persist"
    /\ receipts' = Append(receipts, receipt_of(Locals(h)))
    /\ Reply(h, Locals(h).outcome)
    /\ UNCHANGED <<clock, known, revoked, nonces, granted, served>>

\* The handler is lost at an await: 500, client gone, or process gone.  Its
\* statement in flight may have been executed all the same.
Lose(h) ==
    /\ Locals(h).pc \in {"registry", "status", "nonce", "persist"}
    /\ \/ UNCHANGED <<nonces, receipts>>
       \/ /\ Locals(h).pc = "nonce" /\ Locals(h).req.msg.parses
          /\ insert_nonce(nonce_of(Locals(h).req.msg))
          /\ UNCHANGED receipts
       \/ /\ Locals(h).pc = "persist"
          /\ receipts' = Append(receipts, receipt_of(Locals(h)))
          /\ UNCHANGED nonces
    /\ Reply(h, "500")
    /\ UNCHANGED <<clock, known, revoked, granted, served>>

-----------------------------------------------------------------------------
\* Mutant: the retention is the bare freshness window, without the margin.
prunable_NoMargin(seen_at) == seen_at < clock - (MaxAge + MaxSkew)

\* delete from aap_nonces where seen_at < now() - retention
prunable(seen_at) == seen_at < clock - Retention

\* prune_nonces.  The task wakes once a minute and a failed pass is retried on
\* the next tick; a pass may happen at any moment.
Prune ==
    /\ \E pair \in Pairs : nonces[pair] # None /\ prunable(nonces[pair])
    /\ nonces' = [pair \in Pairs |->
                    IF nonces[pair] # None /\ prunable(nonces[pair])
                      THEN None ELSE nonces[pair]]
    /\ UNCHANGED <<clock, known, revoked, receipts, handler, granted, served>>

\* verify_delegation_signature: is this delegation signed by its principal's
\* registered key, and inside its validity period?
delegation_signature_valid(link, now) ==
    /\ verify_signature(link, Registry[link.principal_id])
    /\ link.valid_from <= now /\ now <= link.valid_until

\* The pairing flow of the surrounding system stores a delegation the service
\* has just called valid.
Pair(link) ==
    /\ link.delegation_id \notin known
    /\ delegation_signature_valid(link, clock)
    /\ known' = known \cup {link.delegation_id}
    /\ UNCHANGED <<clock, revoked, nonces, receipts, handler, granted, served>>

\* The surrounding system sets revoked_at.
Revoke(d) ==
    /\ d \in known \ revoked
    /\ revoked' = revoked \cup {d}
    /\ UNCHANGED <<clock, known, nonces, receipts, handler, granted, served>>

\* Time passes, but a handler that has recorded a nonce gets to its decision
\* within MaxStall: there is no await between the two but the insert's answer.
Tick ==
    /\ clock + 1 \in Instants
    /\ \A h \in Handlers :
          Locals(h).pc = "decide" /\ Locals(h).inserted_at # None =>
              clock < Locals(h).inserted_at + MaxStall
    /\ clock' = clock + 1
    /\ UNCHANGED <<tables, handler, granted, served>>

Step(h) == FetchKey(h) \/ FetchStatus(h) \/ PrecheckNonce(h) \/ Decide(h) \/ Persist(h)

Next ==
    \/ \E h \in Handlers : Step(h) \/ Lose(h) \/ \E r \in Requests : Receive(h, r)
    \/ Prune
    \/ \E link \in Pairable : Pair(link)
    \/ \E d \in Revocable : Revoke(d)
    \/ Tick

Spec == Init /\ [][Next]_vars

-----------------------------------------------------------------------------
HandlerStates ==
    [pc : {"idle", "registry", "status", "nonce", "decide", "persist", "replied"},
     req : Requests \cup {None}, next_link : Nat \ {0}, status : SUBSET DelegationIds,
     already_seen : BOOLEAN, inserted_at : Instants \cup {None},
     now : Instants \cup {None}, outcome : Outcomes \cup {"none", "401", "400", "500"},
     revoked_at_start : SUBSET DelegationIds]

Receipts == {issue_receipt(r.chain, r.msg, outcome, now) :
                r \in Requests, outcome \in Outcomes \cup {"none", "401", "400", "500"},
                now \in Instants \cup {None}}

TypeOK ==
    /\ clock \in Instants
    /\ known \subseteq DelegationIds
    /\ revoked \subseteq known
    /\ nonces \in [Pairs -> Instants \cup {None}]
    /\ receipts \in Seq(Receipts)
    /\ handler \in [Handlers -> HandlerStates]
    /\ granted \in [Messages -> Nat]
    /\ served \in Nat
    /\ \A h \in Handlers : Busy(h) => Locals(h).req \in Requests

\* What the freshness checks of the decision accept at an instant.
fresh_at(msg, now) == msg.issued_at <= now + MaxSkew /\ msg.issued_at >= now - MaxAge

\* No message is accepted twice, although handlers race and the pruning task
\* forgets nonces, as long as no handler stalls longer than the margin.
NoReplay == \A m \in Messages : granted[m] <= 1

(***************************************************************************)
(* Why NoReplay holds, as an inductive invariant.                          *)
(***************************************************************************)

\* A granted message is too old to be granted again, or the row of its nonce
\* is young enough to outlive the message's freshness.
GrantedIsRemembered ==
    \A m \in Messages : granted[m] # 0 =>
        \/ clock > m.issued_at + MaxAge
        \/ /\ nonces[nonce_of(m)] # None
           /\ m.issued_at <= nonces[nonce_of(m)] + Margin + MaxSkew

\* A handler about to decide on a nonce it found unused.
HoldsNonce(h) == Locals(h).pc = "decide" /\ ~Locals(h).already_seen

\* Such a handler's row is still there, not older than the stall allows, and
\* its message has not been granted before unless it is stale by now.
HeldNonceIsRecorded ==
    \A h \in Handlers : HoldsNonce(h) =>
        LET l == Locals(h) IN
        /\ l.inserted_at \in Instants
        /\ clock <= l.inserted_at + MaxStall
        /\ nonces[nonce_of(l.req.msg)] = l.inserted_at
        /\ granted[l.req.msg] = 0 \/ clock > l.req.msg.issued_at + MaxAge

\* No two handlers hold the same nonce.
NonceHeldOnce ==
    \A g, h \in Handlers :
        g # h /\ HoldsNonce(g) /\ HoldsNonce(h) =>
            nonce_of(Locals(g).req.msg) # nonce_of(Locals(h).req.msg)

ReplayInv == NoReplay /\ GrantedIsRemembered /\ HeldNonceIsRecorded /\ NonceHeldOnce

\* The status a handler collects, one await per row, never misses what was
\* revoked when its request came in, nor an id that still has no row.
StatusIsNotStale ==
    \A h \in Handlers : Locals(h).pc \in {"registry", "status", "nonce", "decide"} =>
        LET l == Locals(h)
            chain == l.req.chain
        IN  /\ l.revoked_at_start \subseteq revoked
            /\ l.pc \in {"nonce", "decide"} => l.next_link > Len(chain)
            /\ \A i \in 1 .. Len(chain) : i < l.next_link /\ chain[i].parses =>
                  \/ chain[i].delegation_id \in l.status
                  \/ chain[i].delegation_id \in known \ l.revoked_at_start

\* A handler about to store the receipt of an acceptance.
HoldsReceipt(h) == Locals(h).pc = "persist" /\ Locals(h).outcome = "ok"

\* Every accepting receipt, stored or about to be, is of a grant of its own.
ReceiptsMatchGrants ==
    /\ \A n \in DOMAIN receipts : receipts[n].outcome = "ok" =>
          /\ receipts[n].request_digest \in Messages
          /\ granted[receipts[n].request_digest] # 0
    /\ \A h \in Handlers : HoldsReceipt(h) =>
          /\ granted[Locals(h).req.msg] # 0
          /\ \A n \in DOMAIN receipts : receipts[n].outcome = "ok" =>
                receipts[n].request_digest # Locals(h).req.msg
          /\ \A g \in Handlers :
                HoldsReceipt(g) /\ Locals(g).req.msg = Locals(h).req.msg => g = h

\* db.rs, main.rs: the state is well typed, no message is granted twice, every
\* nonce that could still be used is in the table, and what handlers have read
\* or are about to store agrees with the tables.
ServiceInv == TypeOK /\ ReplayInv /\ StatusIsNotStale /\ ReceiptsMatchGrants

\* The replay guarantee as an abstract specification: each message is granted
\* at most once, in one step, at an instant at which it is fresh.
Guard == INSTANCE ReplayGuard WITH Fresh <- fresh_at
ImplementsReplayGuard == Guard!Spec

Accepting(h) == Locals(h).pc \in {"persist", "replied"} /\ Locals(h).outcome = "ok"

\* Acceptance rests on rows read one await at a time: still, every delegation
\* of an accepted chain has a row, and none was revoked when the request came
\* in, whatever was paired or revoked while the handler was reading.
AcceptedOnCurrentStatus ==
    \A h \in Handlers : Accepting(h) =>
        LET chain == Locals(h).req.chain IN
        \A i \in 1 .. Len(chain) :
            /\ chain[i].delegation_id \in known
            /\ chain[i].delegation_id \notin Locals(h).revoked_at_start

\* A client that is told "accepted" can find the accepted receipt, naming the
\* whole chain, in the table; no handler is lost in between unnoticed.
AcceptedAnswerHasReceipt ==
    \A h \in Handlers : Locals(h).pc = "replied" /\ Locals(h).outcome = "ok" =>
        LET r == Locals(h).req IN
        \E n \in DOMAIN receipts :
            /\ receipts[n].outcome = "ok"
            /\ receipts[n].request_digest = r.msg
            /\ receipts[n].delegation_ids = {r.chain[i].delegation_id : i \in 1 .. Len(r.chain)}

\* The receipts table never shows the same message accepted twice, retries of
\* requests whose handler was lost included.
OneAcceptedReceiptPerMessage ==
    \A m, n \in DOMAIN receipts :
        /\ m # n
        /\ receipts[m].outcome = "ok"
        /\ receipts[n].outcome = "ok"
        => receipts[m].request_digest # receipts[n].request_digest

\* main.rs: what was answered and what the table shows agree, retries included.
ReceiptsTellAnswers == AcceptedAnswerHasReceipt /\ OneAcceptedReceiptPerMessage
=============================================================================
