---------------------------- MODULE MandateCalls ----------------------------
(***************************************************************************)
(* Concurrent calls of the v1 verifier (crates/authority/src/verifier.rs)  *)
(* over the stores its callers share: the status list, the in-memory nonce *)
(* store (nonce.rs) and the usage ledger, which a caller brings up to date *)
(* after an authorisation.  A call is given the clock as an argument, so   *)
(* it may act on an instant that has passed; calls interleave at every     *)
(* access to a store.                                                      *)
(***************************************************************************)
EXTENDS MandateDecision

CONSTANTS
    Threads,        \* callers of verify
    Requests,       \* what they may be asked to verify
    StatusRefs,     \* entries of status lists
    MaxClock,       \* bound on the clock
    MaxCalls        \* bound on authorisations and calls under way

ASSUME CallsAssumption ==
    /\ MaxClock \in Nat /\ MaxCalls \in Nat
    /\ None \notin StatusRefs \cup Unreachable
    /\ \A r \in Requests : r.v.max_age \in Nat /\ r.v.max_future \in Nat
    /\ \A r \in Requests : r.p # None => r.p.links \in Seq(Range(r.p.links))

\* A claim that is there is of its type or is Bad; constraints are a list, and
\* an amount is an unsigned integer (amount.rs).
claims_ok(claims) ==
    /\ claims.exp \in {None, Bad} \/ claims.exp \in Int
    /\ claims.constraints # None =>
          /\ claims.constraints \in Seq(Range(claims.constraints))
          /\ \A c \in Range(claims.constraints) : c.type = "payment.budget" => c.max \in Nat
    /\ "payment_amount" \in DOMAIN claims.body => claims.body.payment_amount.minor \in Nat

ASSUME ClaimsAssumption ==
    \A r \in {q \in Requests : q.p # None} :
        /\ r.v.leeway \in Nat
        /\ \A e \in Range(r.p.links) \cup IF r.v.root = "credential" THEN {} ELSE {r.p.root} :
            \A k \in DOMAIN e.delegate_payload : claims_ok(e.delegate_payload[k].claims)

\* A digest is of one text only: who signed it had that text.
ASSUME DigestAssumption ==
    \A r \in {q \in Requests : q.p # None} : \A k \in 1 .. Len(r.p.links) :
        LET e == elements(r.p)[k + 1]
            prev == elements(r.p)[k]
        IN  \/ e.sd_hash = digest(prev.sd_alg, serialize(prev))
            \/ e.issuer_jwt_hash = digest(prev.sd_alg, prev.jwt)
            => e.made_over = prev.jwt

VARIABLES
    clock,      \* the time callers read
    status,     \* StatusRefs -> the status list's entry
    seen,       \* MemoryNonceStore: nonce -> expires_at
    ledger,     \* ledger key -> usage
    call,       \* per thread, the locals of the call in progress
    authorized, \* every decision to authorise, in order
    uses        \* every use the callers recorded, in order

vars == <<clock, status, seen, ledger, call, authorized, uses>>

Idle == [pc |-> "idle"]

ledger_keys(r) == {ledger_key(mandate_elements(r)[i]) : i \in 1 .. open_count(r)}

NoUsage == [total_minor |-> 0, uses |-> 0, last_use |-> None]

Init ==
    /\ clock = 0
    /\ status = [s \in StatusRefs |-> "Valid"]
    /\ seen = [n \in {} |-> 0]
    /\ ledger = [k \in UNION {{ledger_key(e) : e \in Range(elements(r.p))} :
                                r \in {q \in Requests : q.p # None}} |-> NoUsage]
    /\ call = [t \in Threads |-> Idle]
    /\ authorized = <<>>
    /\ uses = <<>>

-----------------------------------------------------------------------------
At(t, pc) == call[t].pc = pc

\* A decision: the receipt is signed next, whatever the decision is.  Of a
\* rejection only the reason is left.
Rejected(reason) == [pc |-> "sign", reason |-> reason]
Decide(t, reason) ==
    call' = [call EXCEPT ![t] =
        IF reason = "ok" THEN [@ EXCEPT !.pc = "sign", !.reason = reason] ELSE Rejected(reason)]

Goto(t, pc, i) == call' = [call EXCEPT ![t].pc = pc, ![t].i = i]

\* verify and check: parse the presentation and verify the chain.
Verify(t, r) ==
    /\ At(t, "idle")
    /\ Len(authorized) + Cardinality({u \in Threads : ~At(u, "idle")}) < MaxCalls
    /\ LET failure == check_failure(r, clock) IN
       call' = [call EXCEPT ![t] =
            IF failure # "ok" THEN Rejected(failure)
            ELSE [pc |-> "status", r |-> r, now |-> clock, i |-> 1, reason |-> "none",
                  revoked |-> {s \in StatusRefs : status[s] # "Valid"}, looked |-> None]]
    /\ UNCHANGED <<clock, status, seen, ledger, authorized, uses>>

\* V2: the status of one element after the other.
CheckStatus(t) ==
    /\ At(t, "status")
    /\ LET c == call[t]
           claims == chain_claims(c.r)
           failure == status_failure(c.r.v, claims[c.i], status)
       IN  IF failure # "ok" THEN Decide(t, failure)
           ELSE IF c.i < Len(claims) THEN Goto(t, "status", c.i + 1)
           ELSE Goto(t, "mandates", 1)
    /\ UNCHANGED <<clock, status, seen, ledger, authorized, uses>>

\* Mutant: the nonce is recorded before the mandates are evaluated.
CheckMandates_NonceFirst(t) ==
    /\ At(t, "mandates")
    /\ LET failure == mandates_failure(call[t].r, call[t].now) IN
       IF failure # "ok" THEN Decide(t, failure) /\ UNCHANGED seen
       ELSE /\ call' = [call EXCEPT ![t].pc = "evaluate", ![t].i = 1, ![t].looked = Len(uses)]
            /\ IF call[t].r.p.links = <<>> THEN UNCHANGED seen
               ELSE seen' = [n \in DOMAIN seen \cup {nonce_of(call[t].r)} |-> MaxClock]
    /\ UNCHANGED <<clock, status, ledger, authorized, uses>>

\* The mandates are parsed, V3, and the transaction bindings of V4.  From here
\* on the call looks at the ledger: `looked` counts what it will find there.
CheckMandates(t) ==
    /\ At(t, "mandates")
    /\ LET failure == mandates_failure(call[t].r, call[t].now) IN
       IF failure # "ok" THEN Decide(t, failure)
       ELSE call' = [call EXCEPT ![t].pc = "evaluate", ![t].i = 1, ![t].looked = Len(uses)]
    /\ UNCHANGED <<clock, status, seen, ledger, authorized, uses>>

\* V4, one open mandate after the other, on the ledger of this moment.  The code
\* reads it again for every constraint that counts; totals only grow, so a
\* budget with room at a later read had room at this one.
EvaluateLink(t) ==
    /\ At(t, "evaluate")
    /\ LET c == call[t]
           answer == accepts(open_of(c.r, c.i), closed_of(c.r), env_of(c.r, c.now, ledger))
       IN  IF c.i > open_count(c.r) THEN Goto(t, "nonce", 1)
           ELSE IF answer = "unresolved" THEN Decide(t, "ChainUnresolved")
           ELSE IF answer # "ok" THEN Decide(t, "Chain")
           ELSE Goto(t, "evaluate", c.i + 1)
    /\ UNCHANGED <<clock, status, seen, ledger, authorized, uses>>

-----------------------------------------------------------------------------
leaf_of(r) == elements(r.p)[Len(r.p.links) + 1]

\* A claim that is there is a number or is of the wrong type.
ASSUME IatAssumption ==
    \A r \in Requests : r.p # None /\ r.p.links # <<>> =>
        leaf_of(r).iat \in {None, Bad} \/ leaf_of(r).iat \in Int

\* The instant at which the store may forget the nonce.
expires_at(r) == leaf_of(r).iat + r.v.max_age

\* check_freshness repeats on the verified chain what verify has checked.
check_freshness(r, now) ==
    /\ leaf_of(r).aud = r.v.audience
    /\ leaf_of(r).nonce = nonce_of(r)
    /\ leaf_of(r).iat \notin {None, Bad}
    /\ leaf_of(r).iat >= now - r.v.max_age
    /\ leaf_of(r).iat <= now + r.v.max_future

\* Mutant: the store forgets a nonce one instant early.
retained_Early(now) == {n \in DOMAIN seen : seen[n] > now + 1}

retained(now) == {n \in DOMAIN seen : seen[n] > now}

\* MemoryNonceStore::check_and_insert, under its mutex.
check_and_insert(nonce, exp, now, fresh) ==
    /\ fresh = (nonce \notin retained(now))
    /\ seen' = [n \in retained(now) \cup {nonce} |->
                    IF fresh /\ n = nonce THEN exp ELSE seen[n]]

\* V5 up to the store: only nonces the agent chose are checked for replay.
nonce_failure(r, now) ==
    IF r.p.links = <<>> THEN "ok"
    ELSE IF ~check_freshness(r, now) THEN "Freshness"
    ELSE IF r.tx.nonce # None THEN "ok"
    ELSE IF ~r.v.has_nonces THEN "NonceStore"
    ELSE "unchecked"

CheckNonce(t) ==
    /\ At(t, "nonce")
    /\ LET r == call[t].r
           now == call[t].now
       IN  \/ /\ nonce_failure(r, now) # "unchecked"
              /\ Decide(t, nonce_failure(r, now))
              /\ UNCHANGED seen
           \/ /\ nonce_failure(r, now) = "unchecked"
              /\ \E fresh \in BOOLEAN :
                    /\ check_and_insert(nonce_of(r), expires_at(r), now, fresh)
                    /\ Decide(t, IF fresh THEN "ok" ELSE "Replay")
    /\ UNCHANGED <<clock, status, ledger, authorized, uses>>

\* The receipt is signed and the decision returned.  If signing fails, so does
\* the call, but what it recorded stays recorded: it still counts as decided.
Sign(t) ==
    /\ At(t, "sign")
    /\ \/ /\ call[t].reason # "ok"
          /\ call' = [call EXCEPT ![t] = Idle]
          /\ UNCHANGED authorized
       \/ /\ call[t].reason = "ok"
          /\ authorized' = Append(authorized,
                [r |-> call[t].r, now |-> call[t].now, revoked |-> call[t].revoked])
          /\ \/ call' = [call EXCEPT ![t].pc = "record"]
             \/ call' = [call EXCEPT ![t] = Idle]
    /\ UNCHANGED <<clock, status, seen, ledger, uses>>

paid(r) == IF closed_of(r).family = "payment" THEN closed_of(r).claims.payment_amount.minor ELSE 0

\* The caller records the use under every key of Authorized::ledger_keys.
Record(t) ==
    LET c == call[t]
        keys == ledger_keys(c.r)
    IN  /\ At(t, "record")
        /\ ledger' = [k \in DOMAIN ledger |->
                IF k \notin keys THEN ledger[k]
                ELSE [total_minor |-> ledger[k].total_minor + paid(c.r),
                      uses |-> ledger[k].uses + 1, last_use |-> c.now]]
        /\ uses' = Append(uses, [r |-> c.r, looked |-> c.looked])
        /\ call' = [call EXCEPT ![t] = Idle]
        /\ UNCHANGED <<clock, status, seen, authorized>>

\* A user or an issuer revokes or suspends; either is "Invalid" here.
Revoke(s) ==
    /\ status[s] = "Valid"
    /\ status' = [status EXCEPT ![s] = "Invalid"]
    /\ UNCHANGED <<clock, seen, ledger, call, authorized, uses>>

Tick ==
    /\ clock < MaxClock
    /\ clock' = clock + 1
    /\ UNCHANGED <<status, seen, ledger, call, authorized, uses>>

Step(t) ==
    \/ CheckStatus(t) \/ CheckMandates(t) \/ EvaluateLink(t) \/ CheckNonce(t)
    \/ Sign(t) \/ Record(t)

Next ==
    \/ \E t \in Threads : Step(t) \/ \E r \in Requests : Verify(t, r)
    \/ \E s \in StatusRefs : Revoke(s)
    \/ Tick

Spec == Init /\ [][Next]_vars

-----------------------------------------------------------------------------
\* A call that has not been turned away.
live(t) == ~At(t, "idle") /\ (At(t, "sign") => call[t].reason = "ok")

TypeOK ==
    /\ clock \in 0 .. MaxClock
    /\ status \in [StatusRefs -> {"Valid", "Invalid"}]
    /\ \A n \in DOMAIN seen : seen[n] \in Int
    /\ \A k \in DOMAIN ledger : ledger[k].uses \in Nat /\ ledger[k].total_minor \in Nat
    /\ \A t \in Threads : live(t) => call[t].r \in Requests /\ call[t].now \in 0 .. clock

\* An authorisation whose nonce the agent chose.
guarded(r) == r.p.links # <<>> /\ r.tx.nonce = None

\* A call that is about to return an authorisation.
granting(t) == At(t, "sign") /\ call[t].reason = "ok"

\* At an instant: the store keeps the request's nonce until it expires.
held(r, instant, store) ==
    guarded(r) =>
        /\ leaf_of(r).iat \in Int
        /\ \/ instant >= expires_at(r)
           \/ nonce_of(r) \in DOMAIN store /\ store[nonce_of(r)] >= expires_at(r)

\* Two requests with the same nonce, of which one has expired.
apart(a, b, instant) ==
    guarded(a) /\ guarded(b) /\ nonce_of(a) = nonce_of(b) =>
        instant >= expires_at(a) \/ instant >= expires_at(b)

\* nonce.rs: "Two concurrent presentations with the same nonce must not both
\* get `true`."  Whatever the interleaving, and however old the instant a call
\* acts on, a nonce is authorised twice only once its first entry has expired.
ReplayOnlyAfterExpiry ==
    \A i, j \in DOMAIN authorized :
        i # j => apart(authorized[i].r, authorized[j].r, clock)

\* Why ReplayOnlyAfterExpiry holds: the store keeps the nonce of whatever was,
\* or is about to be, authorised for as long as its key binding has not
\* expired, and of two holders of a nonce one has.
ReplayInv ==
    /\ \A i \in DOMAIN authorized : held(authorized[i].r, clock, seen)
    /\ \A t \in Threads : granting(t) => held(call[t].r, clock, seen)
    /\ ReplayOnlyAfterExpiry
    /\ \A i \in DOMAIN authorized, t \in Threads :
            granting(t) => apart(authorized[i].r, call[t].r, clock)
    /\ \A t, u \in Threads :
            t # u /\ granting(t) /\ granting(u) => apart(call[t].r, call[u].r, clock)

\* nonce.rs: "A nonce only has to be remembered until the key binding that
\* carried it is too old to be accepted anyway": one closed mandate with the
\* agent's own nonce is never authorised twice.
NoReplay ==
    \A i, j \in DOMAIN authorized :
        i # j /\ guarded(authorized[i].r) /\ guarded(authorized[j].r) =>
            leaf_of(authorized[i].r).jwt # leaf_of(authorized[j].r).jwt

\* A presentation that is turned away uses up no nonce: what the store holds
\* belongs to an authorisation, returned or about to be.
NonceOnlySpentOnAuthorization ==
    \A n \in DOMAIN seen :
        \/ \E i \in DOMAIN authorized : nonce_of(authorized[i].r) = n
        \/ \E t \in Threads : granting(t) /\ nonce_of(call[t].r) = n

\* Nothing is authorised through an element whose status had been withdrawn
\* when the call began or could not be learnt (status.rs: "fails closed").
RevokedNeverAuthorized ==
    \A i \in DOMAIN authorized :
        LET a == authorized[i]
            claims == chain_claims(a.r)
        IN  \A k \in DOMAIN claims :
                /\ claims[k].status \notin a.revoked \cup Unreachable
                /\ claims[k].status # None => a.r.v.has_status

\* Every open mandate on the way from the root to the agent accepts the action
\* at the instant of the call, was handed on by the key the one before it
\* names, over that very element, and no deeper than it allows.
AuthorizedByEveryMandate ==
    \A k \in DOMAIN authorized :
        LET r == authorized[k].r
            now == authorized[k].now
            all == elements(r.p)
            claims == chain_claims(r)
            closed == closed_of(r)
            env == env_of(r, now, ledger)
        IN  /\ all[1].signed_by = r.issuer_key
            /\ \A i \in 2 .. Len(all) :
                    /\ all[i].signed_by = claims[i - 1].cnf
                    /\ all[i].made_over = all[i - 1].jwt
            /\ \A i \in 1 .. open_count(r) :
                    /\ open_count(r) - i <= open_of(r, i).max_depth
                    /\ accepts_stateless(open_of(r, i), closed, env)
                    /\ now < mandate_claims(r)[i].exp + r.v.leeway

\* A mandate is among the open ones of a request.
under(r, jwt) == \E i \in 1 .. open_count(r) : mandate_elements(r)[i].jwt = jwt

\* What was paid under a mandate, by whichever agents and with whatever of it
\* disclosed, up to the n-th use on a log.
spent(log, n, jwt) ==
    LET upto[m \in 0 .. n] ==
            IF m = 0 THEN 0
            ELSE upto[m - 1] + IF under(log[m].r, jwt) THEN paid(log[m].r) ELSE 0
    IN  upto[n]

\* The budgets an open mandate sets.
budgets(open) == {c \in Range(open.constraints) : c.type = "payment.budget"}

\* context.rs: "every sub-delegation of a user-signed mandate draws on the same
\* counter".  Every payment, by whichever agent and however calls overlap, fits
\* into each budget of each of its open mandates together with all that was
\* recorded under that mandate before the call looked: a budget is exceeded by
\* no more than the payments of calls that were under way together.
BudgetsAreShared ==
    \A n \in DOMAIN uses : \A i \in 1 .. open_count(uses[n].r) :
        \A c \in budgets(open_of(uses[n].r, i)) :
            spent(uses, uses[n].looked, mandate_elements(uses[n].r)[i].jwt) + paid(uses[n].r)
                <= c.max

-----------------------------------------------------------------------------
\* What a call has found out by the place it has come to: the check before
\* its first step, the mandates before the evaluation, and every open mandate
\* before its index, the ones that count uses aside.
past_mandates(c) == c.pc \notin {"status", "mandates"}
evaluated(c) == {i \in 1 .. open_count(c.r) :
                    past_mandates(c) /\ (c.pc = "evaluate" => i < c.i)}

passed(c) ==
    LET closed == closed_of(c.r)
        env == env_of(c.r, c.now, ledger)
    IN
    /\ check_failure(c.r, c.now) = "ok"
    /\ c.pc = "status" => c.i \in 1 .. Len(chain_claims(c.r))
    /\ c.pc = "evaluate" => c.i \in 1 .. open_count(c.r) + 1
    /\ past_mandates(c) => mandates_failure(c.r, c.now) = "ok"
    /\ \A i \in evaluated(c) :
            accepts_stateless(open_of(c.r, i), closed, env)

ChecksPassed == \A t \in Threads : live(t) => passed(call[t])

\* What the ledger shows has been spent; and what it showed a call is still
\* there, and left room for its payment in the budgets it has evaluated.
in_order(c) ==
    /\ c.looked \in 0 .. Len(uses)
    /\ \A i \in 1 .. open_count(c.r) :
        LET open == open_of(c.r, i)
            before == spent(uses, c.looked, open.ledger_key[2])
        IN  /\ before <= ledger[open.ledger_key].total_minor
            /\ i \in evaluated(c) => \A b \in budgets(open) : before + paid(c.r) <= b.max

LedgerIsTrue ==
    /\ \A k \in DOMAIN ledger : ledger[k].total_minor = spent(uses, Len(uses), k[2])
    /\ \A t \in Threads : live(t) /\ past_mandates(call[t]) => in_order(call[t])

\* verifier.rs, nonce.rs, context.rs: every call is where its program counter
\* says and has passed what lies before it, the nonce store remembers what it
\* must, and the ledger what was spent.
CallsInv == TypeOK /\ ReplayInv /\ ChecksPassed /\ LedgerIsTrue
=============================================================================
