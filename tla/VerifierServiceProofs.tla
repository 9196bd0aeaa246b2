----------------------- MODULE VerifierServiceProofs ------------------------
(***************************************************************************)
(* Replay protection of the Verifier service for any number of handlers,   *)
(* requests, delegations and instants, and any freshness window.           *)
(***************************************************************************)
EXTENDS VerifierService, WellFoundedInduction, TLAPS

\* Every non-empty set of naturals has a least element.
LEMMA LeastNatural ==
    ASSUME NEW S, S \subseteq Nat, S # {}
    PROVE  \E k \in S : \A j \in S : k <= j
<1>1. PICK k \in S : \A j \in S : ~(<<j, k>> \in OpToRel(<, Nat))
    BY NatLessThanWellFounded, WFMin
<1>2. \A j \in S : ~(j < k)
    BY <1>1 DEF OpToRel
<1>3. QED  BY <1>2

\* The loops report a failure exactly when an iteration does.
LEMMA FirstFailure ==
    ASSUME NEW n \in Nat, NEW f \in [1 .. n -> Outcomes]
    PROVE  /\ first_failure(f) \in Outcomes
           /\ first_failure(f) = "ok" => \A k \in 1 .. n : f[k] = "ok"
<1> DEFINE bad == {k \in DOMAIN f : f[k] # "ok"}
           least == CHOOSE k \in bad : \A j \in bad : k <= j
<1>1. CASE bad = {}
    BY <1>1 DEF first_failure, Outcomes
<1>2. CASE bad # {}
    <2>1. bad \subseteq Nat  OBVIOUS
    <2>2. \E k \in bad : \A j \in bad : k <= j
        <3> HIDE DEF bad
        <3>1. QED  BY <1>2, <2>1, LeastNatural
    <2>3. least \in bad
        <3> HIDE DEF bad
        <3>1. QED  BY <2>2
    <2>4. first_failure(f) = f[least]
        BY <1>2 DEF first_failure
    <2>5. f[least] # "ok" /\ f[least] \in Outcomes
        BY <2>3
    <2>6. QED  BY <2>4, <2>5
<1>3. QED  BY <1>1, <1>2

\* An "ok" decision passed every check on every link, and on the message.
THEOREM OkMeansEveryCheckPassed ==
    ASSUME NEW chain, Len(chain) \in Nat, NEW msg, NEW now, NEW withdrawn, NEW seen,
           verify_inner(chain, msg, now, withdrawn, seen) = "ok"
    PROVE  /\ chain # <<>>
           /\ \A i \in 1 .. Len(chain) : link_failure(chain, i, now, withdrawn) = "ok"
           /\ \A i \in 1 .. Len(chain) - 1 : integrity_failure(chain, i) = "ok"
           /\ message_failure(chain[1], msg, now) = "ok"
           /\ ~seen
           /\ matches(chain[1].scope, msg.request, now)
<1> DEFINE L == [i \in 1 .. Len(chain) |-> link_failure(chain, i, now, withdrawn)]
           I == [i \in 1 .. Len(chain) - 1 |-> integrity_failure(chain, i)]
<1>1. L \in [1 .. Len(chain) -> Outcomes]
    BY DEF link_failure, Outcomes
<1>2. I \in [1 .. Len(chain) - 1 -> Outcomes]
    BY DEF integrity_failure, Outcomes
<1>3. /\ chain # <<>> /\ first_failure(L) = "ok" /\ first_failure(I) = "ok"
      /\ message_failure(chain[1], msg, now) = "ok"
      /\ final_failure(chain[1], msg, now, seen) = "ok"
    BY DEF verify_inner
<1>4. \A i \in 1 .. Len(chain) : L[i] = "ok"
    <2> HIDE DEF L
    <2>1. QED  BY <1>1, <1>3, FirstFailure
<1>5. \A i \in 1 .. Len(chain) - 1 : I[i] = "ok"
    <2>1. CASE Len(chain) = 0  BY <2>1
    <2>2. CASE Len(chain) # 0
        <3>1. Len(chain) - 1 \in Nat  BY <2>2
        <3> HIDE DEF I
        <3>2. QED  BY <1>2, <1>3, <3>1, FirstFailure
    <2>3. QED  BY <2>1, <2>2
<1>6. ~seen /\ matches(chain[1].scope, msg.request, now)
    BY <1>3 DEF final_failure
<1>7. QED  BY <1>3, <1>4, <1>5, <1>6

\* The decision is always one of the documented outcomes.
LEMMA DecisionType ==
    ASSUME NEW chain, Len(chain) \in Nat, NEW msg, NEW now, NEW withdrawn, NEW seen
    PROVE  verify_inner(chain, msg, now, withdrawn, seen) \in Outcomes
<1> DEFINE L == [i \in 1 .. Len(chain) |-> link_failure(chain, i, now, withdrawn)]
           I == [i \in 1 .. Len(chain) - 1 |-> integrity_failure(chain, i)]
<1>1. L \in [1 .. Len(chain) -> Outcomes]
    BY DEF link_failure, Outcomes
<1>2. I \in [1 .. Len(chain) - 1 -> Outcomes]
    BY DEF integrity_failure, Outcomes
<1>3. first_failure(L) \in Outcomes
    <2> HIDE DEF L
    <2>1. QED  BY <1>1, FirstFailure
<1>4. first_failure(I) \in Outcomes
    <2>1. PICK n \in Nat : 1 .. Len(chain) - 1 = 1 .. n
        <3>1. CASE Len(chain) = 0
            <4>1. 1 .. Len(chain) - 1 = 1 .. 0  BY <3>1
            <4>2. QED  BY <4>1
        <3>2. CASE Len(chain) # 0  BY <3>2
        <3>3. QED  BY <3>1, <3>2
    <2> HIDE DEF I
    <2>2. QED  BY <1>2, <2>1, FirstFailure
<1>5. message_failure(chain[1], msg, now) \in Outcomes
    BY DEF message_failure, Outcomes
<1>6. final_failure(chain[1], msg, now, seen) \in Outcomes
    BY DEF final_failure, Outcomes
<1>7. "ChainBroken" \in Outcomes
    BY DEF Outcomes
<1>8. QED  BY <1>3, <1>4, <1>5, <1>6, <1>7 DEF verify_inner
-----------------------------------------------------------------------------
\* The bounds and the requests are what the proofs may rely on.
USE FreshnessAssumption, MarginAssumption, RequestsAssumption, NoneAssumption,
    InstantsAssumption

-----------------------------------------------------------------------------
\* A handler that is not serving a request is in a well-typed state.
LEMMA IdleType == Idle \in HandlerStates
    BY DEF HandlerStates, Idle

\* Replacing one handler's state by a well-typed one, with a request if it is
\* busy, keeps the handler table well typed.
LEMMA HandlerUpdate ==
    ASSUME TypeOK, NEW h \in Handlers, NEW s \in HandlerStates,
           handler' = [handler EXCEPT ![h] = s],
           s.pc \in {"registry", "status", "nonce", "decide", "persist"}
               => s.req \in Requests
    PROVE  /\ handler' \in [Handlers -> HandlerStates]
           /\ \A g \in Handlers : Busy(g)' => Locals(g)'.req \in Requests
    BY DEF TypeOK, Busy, Locals

\* What a handler leaves behind when it answers.
LEMMA RepliedUpdate ==
    ASSUME TypeOK, NEW h \in Handlers, Locals(h).req \in Requests,
           NEW o \in Outcomes \cup {"none", "401", "400", "500"}, Reply(h, o)
    PROVE  /\ handler' \in [Handlers -> HandlerStates]
           /\ \A g \in Handlers : Busy(g)' => Locals(g)'.req \in Requests
    <1> DEFINE s == [Idle EXCEPT !.pc = "replied", !.req = Locals(h).req, !.outcome = o,
                                 !.revoked_at_start = Locals(h).revoked_at_start]
    <1>1. Locals(h).revoked_at_start \in SUBSET DelegationIds
        BY DEF TypeOK, HandlerStates, Locals
    <1>2. s \in HandlerStates
        BY <1>1, IdleType DEF HandlerStates
    <1>3. s.req \in Requests
        BY DEF Idle
    <1>4. handler' = [handler EXCEPT ![h] = s]
        BY DEF Reply
    <1>5. QED
        <2> HIDE DEF s
        <2> QED  BY <1>2, <1>3, <1>4, HandlerUpdate

\* The nonce table keeps its type when a row is inserted.
LEMMA InsertType ==
    ASSUME TypeOK, NEW m \in Messages, insert_nonce(nonce_of(m))
    PROVE  nonces' \in [Pairs -> Instants \cup {None}]
    <1>1. nonce_of(m) \in Pairs
        BY DEF Pairs
    <1>2. QED  BY <1>1 DEF TypeOK, insert_nonce

\* The receipts stay a sequence when a row is inserted.
LEMMA ReceiptType ==
    ASSUME TypeOK, NEW h \in Handlers, Locals(h).req \in Requests
    PROVE  receipt_of(Locals(h)) \in Receipts
<1>1. Locals(h) \in HandlerStates
    BY DEF TypeOK, Locals
<1> DEFINE r == Locals(h).req
           o == Locals(h).outcome
           t == Locals(h).now
<1>2. /\ r \in Requests
      /\ o \in Outcomes \cup {"none", "401", "400", "500"}
      /\ t \in Instants \cup {None}
    BY <1>1 DEF HandlerStates
<1>3. receipt_of(Locals(h)) = issue_receipt(r.chain, r.msg, o, t)
    BY DEF receipt_of
<1> HIDE DEF r, o, t
<1>4. QED  BY ONLY <1>2, <1>3 DEF Receipts

LEMMA AppendType ==
    ASSUME TypeOK, NEW receipt \in Receipts, receipts' = Append(receipts, receipt)
    PROVE  /\ receipts' \in Seq(Receipts)
           /\ Len(receipts) \in Nat /\ DOMAIN receipts = 1 .. Len(receipts)
           /\ DOMAIN receipts' = 1 .. Len(receipts) + 1
           /\ \A n \in DOMAIN receipts : receipts'[n] = receipts[n]
           /\ receipts'[Len(receipts) + 1] = receipt
<1>1. receipts \in Seq(Receipts)
    BY DEF TypeOK
<1> DEFINE S == Receipts
           s == receipts
           t == receipts'
<1>2. s \in Seq(S) /\ receipt \in S /\ t = Append(s, receipt)
    BY <1>1
<1> HIDE DEF S, s, t
<1>3. /\ t \in Seq(S)
      /\ Len(s) \in Nat /\ DOMAIN s = 1 .. Len(s)
      /\ DOMAIN t = 1 .. Len(s) + 1
      /\ \A n \in DOMAIN s : t[n] = s[n]
      /\ t[Len(s) + 1] = receipt
    BY ONLY <1>2
<1>4. QED  BY <1>3 DEF S, s, t

\* The variables keep their types.
THEOREM TypeCorrect == Spec => []TypeOK
<1>1. Init => TypeOK
    BY IdleType DEF Init, TypeOK, Idle, Busy, Locals, DelegationIds
<1>2. TypeOK /\ [Next]_vars => TypeOK'
    <2> SUFFICES ASSUME TypeOK, [Next]_vars PROVE TypeOK'
        OBVIOUS
    <2>0. ASSUME NEW h \in Handlers
          PROVE  /\ Locals(h) \in HandlerStates
                 /\ Busy(h) => Locals(h).req \in Requests /\ Locals(h).req.msg \in Messages
        BY DEF TypeOK, Locals, Messages
    <2>1. ASSUME NEW h \in Handlers, NEW r \in Requests, Receive(h, r)
          PROVE  TypeOK'
        <3> DEFINE s == [Idle EXCEPT !.req = r, !.revoked_at_start = revoked,
                         !.pc = IF r.authorized /\ r.chain # <<>> THEN "registry" ELSE "replied",
                         !.outcome = IF ~r.authorized THEN "401"
                                     ELSE IF r.chain = <<>> THEN "400" ELSE "none"]
        <3>1. revoked \in SUBSET DelegationIds
            BY DEF TypeOK
        <3>2. s \in HandlerStates
            BY <3>1, IdleType DEF HandlerStates
        <3>3. s.req \in Requests
            BY DEF Idle
        <3>4. handler' = [handler EXCEPT ![h] = s]
            BY <2>1 DEF Receive
        <3>5. UNCHANGED <<clock, known, revoked, nonces, receipts, granted>> /\ served' = served + 1
            BY <2>1 DEF Receive, tables
        <3> HIDE DEF s
        <3>6. /\ handler' \in [Handlers -> HandlerStates]
              /\ \A g \in Handlers : Busy(g)' => Locals(g)'.req \in Requests
            BY <3>2, <3>3, <3>4, HandlerUpdate
        <3>7. served' \in Nat
            BY <3>5 DEF TypeOK
        <3>8. QED  BY <3>5, <3>6, <3>7 DEF TypeOK
    <2>2. ASSUME NEW h \in Handlers, FetchKey(h)
          PROVE  TypeOK'
        <3> DEFINE s == [Locals(h) EXCEPT !.pc = "status"]
        <3>1. Busy(h)
            BY <2>2 DEF FetchKey, Busy
        <3>2. s \in HandlerStates /\ s.req \in Requests
            BY <2>0, <3>1 DEF HandlerStates
        <3>3. handler' = [handler EXCEPT ![h] = s]
            BY <2>2 DEF FetchKey, Goto, Locals
        <3>4. UNCHANGED <<clock, known, revoked, nonces, receipts, granted, served>>
            BY <2>2 DEF FetchKey, tables
        <3> HIDE DEF s
        <3>5. QED  BY <3>2, <3>3, <3>4, HandlerUpdate DEF TypeOK
    <2>3. ASSUME NEW h \in Handlers, FetchStatus(h)
          PROVE  TypeOK'
        <3>1. Busy(h)
            BY <2>3 DEF FetchStatus, Busy
        <3>2. UNCHANGED <<clock, known, revoked, nonces, receipts, granted, served>>
            BY <2>3 DEF FetchStatus, tables
        <3> DEFINE chain == Locals(h).req.chain
                   k == Locals(h).next_link
        <3>3. PICK s \in HandlerStates :
                s.req \in Requests /\ handler' = [handler EXCEPT ![h] = s]
            <4>1. CASE k > Len(chain)
                <5>1. handler' = [handler EXCEPT ![h] = [Locals(h) EXCEPT !.pc = "nonce"]]
                    BY <2>3, <4>1 DEF FetchStatus, Goto, Locals
                <5>2. /\ [Locals(h) EXCEPT !.pc = "nonce"] \in HandlerStates
                      /\ [Locals(h) EXCEPT !.pc = "nonce"].req \in Requests
                    BY <2>0, <3>1 DEF HandlerStates
                <5>3. QED  BY <5>1, <5>2
            <4>2. CASE ~(k > Len(chain))
                <5>1. k \in 1 .. Len(chain)
                    BY <2>0, <3>1, <4>2 DEF HandlerStates
                <5>2. chain[k].delegation_id \in DelegationIds
                    BY <2>0, <3>1, <5>1 DEF DelegationIds
                <5> DEFINE S == IF chain[k].parses /\ row_revoked(chain[k].delegation_id)
                                  THEN Locals(h).status \cup {chain[k].delegation_id}
                                  ELSE Locals(h).status
                           t == [Locals(h) EXCEPT !.next_link = k + 1, !.status = S]
                <5>3. S \in SUBSET DelegationIds
                    BY <2>0, <5>2 DEF HandlerStates
                <5>4. handler' = [handler EXCEPT ![h] = t]
                    BY <2>3, <4>2 DEF FetchStatus, Locals
                <5>5. k + 1 \in Nat \ {0}
                    BY <5>1
                <5>6. t \in HandlerStates /\ t.req \in Requests
                    <6> HIDE DEF S
                    <6> QED  BY <2>0, <3>1, <5>3, <5>5 DEF HandlerStates
                <5>7. QED
                    <6> HIDE DEF t
                    <6> QED  BY <5>4, <5>6
            <4>3. QED  BY <4>1, <4>2
        <3>4. QED  BY <3>2, <3>3, HandlerUpdate DEF TypeOK
    <2>4. ASSUME NEW h \in Handlers, PrecheckNonce(h)
          PROVE  TypeOK'
        <3>1. Busy(h)
            BY <2>4 DEF PrecheckNonce, Busy
        <3>2. PICK seen \in BOOLEAN, at \in Instants \cup {None} :
                handler' = [handler EXCEPT ![h] = [Locals(h) EXCEPT
                    !.pc = "decide", !.already_seen = seen, !.inserted_at = at]]
            <4>1. clock \in Instants
                BY DEF TypeOK
            <4> DEFINE msg == Locals(h).req.msg
                       f == msg.parses /\ nonces[nonce_of(msg)] = None
                       at == IF f THEN clock ELSE None
            <4>2. (~f) \in BOOLEAN /\ at \in Instants \cup {None}
                BY <4>1
            <4>3. handler' = [handler EXCEPT ![h] = [Locals(h) EXCEPT
                    !.pc = "decide", !.already_seen = ~f, !.inserted_at = at]]
                BY <2>4 DEF PrecheckNonce, Locals
            <4>4. QED  BY <4>2, <4>3
        <3> DEFINE s == [Locals(h) EXCEPT !.pc = "decide", !.already_seen = seen,
                                          !.inserted_at = at]
        <3>3. s \in HandlerStates /\ s.req \in Requests
            BY <2>0, <3>1, <3>2 DEF HandlerStates
        <3>4. nonces' \in [Pairs -> Instants \cup {None}]
            BY <2>0, <2>4, <3>1, InsertType DEF PrecheckNonce, TypeOK
        <3>5. UNCHANGED <<clock, known, revoked, receipts, granted, served>>
            BY <2>4 DEF PrecheckNonce
        <3> HIDE DEF s
        <3>6. QED  BY <3>2, <3>3, <3>4, <3>5, HandlerUpdate DEF TypeOK, s
    <2>5. ASSUME NEW h \in Handlers, Decide(h)
          PROVE  TypeOK'
        <3>1. Busy(h)
            BY <2>5 DEF Decide, Busy
        <3>2. PICK o \in Outcomes :
                /\ handler' = [handler EXCEPT ![h] = [Locals(h) EXCEPT
                        !.pc = "persist", !.now = clock, !.outcome = o]]
                /\ granted' = IF o = "ok" THEN [granted EXCEPT ![Locals(h).req.msg] = @ + 1]
                                          ELSE granted
            <4> DEFINE o == verify_inner(Locals(h).req.chain, Locals(h).req.msg, clock,
                                         Locals(h).status, Locals(h).already_seen)
            <4>1. o \in Outcomes
                BY <2>0, <3>1, DecisionType
            <4>2. /\ handler' = [handler EXCEPT ![h] = [Locals(h) EXCEPT
                        !.pc = "persist", !.now = clock, !.outcome = o]]
                  /\ granted' = IF o = "ok" THEN [granted EXCEPT ![Locals(h).req.msg] = @ + 1]
                                            ELSE granted
                BY <2>5 DEF Decide, Locals
            <4>3. QED  BY <4>1, <4>2
        <3> DEFINE s == [Locals(h) EXCEPT !.pc = "persist", !.now = clock, !.outcome = o]
        <3>3. clock \in Instants
            BY DEF TypeOK
        <3>4. s \in HandlerStates /\ s.req \in Requests
            BY <2>0, <3>1, <3>2, <3>3 DEF HandlerStates
        <3>5. granted' \in [Messages -> Nat]
            BY <2>0, <3>1, <3>2 DEF TypeOK
        <3>6. UNCHANGED <<clock, known, revoked, nonces, receipts, served>>
            BY <2>5 DEF Decide, tables
        <3>7. handler' = [handler EXCEPT ![h] = s]
            BY <3>2
        <3> HIDE DEF s
        <3>8. QED  BY <3>4, <3>5, <3>6, <3>7, HandlerUpdate DEF TypeOK
    <2>6. ASSUME NEW h \in Handlers, Persist(h)
          PROVE  TypeOK'
        <3>1. Busy(h) /\ Reply(h, Locals(h).outcome)
            BY <2>6 DEF Persist, Busy
        <3>2. Locals(h).outcome \in Outcomes \cup {"none", "401", "400", "500"}
            BY <2>0 DEF HandlerStates
        <3>3. UNCHANGED <<clock, known, revoked, nonces, granted, served>>
            BY <2>6 DEF Persist
        <3>4. receipts' \in Seq(Receipts)
            BY <2>0, <2>6, <3>1, ReceiptType, AppendType DEF Persist
        <3>5. QED  BY <2>0, <3>1, <3>2, <3>3, <3>4, RepliedUpdate DEF TypeOK
    <2>7. ASSUME NEW h \in Handlers, Lose(h)
          PROVE  TypeOK'
        <3>1. Busy(h) /\ Reply(h, "500")
            BY <2>7 DEF Lose, Busy
        <3>2. nonces' \in [Pairs -> Instants \cup {None}]
            BY <2>0, <2>7, <3>1, InsertType DEF Lose, TypeOK
        <3>3. UNCHANGED <<clock, known, revoked, granted, served>>
            BY <2>7 DEF Lose
        <3>4. UNCHANGED receipts \/ receipts' = Append(receipts, receipt_of(Locals(h)))
            BY <2>7 DEF Lose
        <3>5. receipts' \in Seq(Receipts)
            BY <2>0, <3>1, <3>4, ReceiptType, AppendType DEF TypeOK
        <3>6. QED  BY <2>0, <3>1, <3>2, <3>3, <3>5, RepliedUpdate DEF TypeOK
    <2>8. CASE Prune
        BY <2>8 DEF Prune, TypeOK, Busy, Locals
    <2>9. ASSUME NEW link \in Pairable, Pair(link)
          PROVE  TypeOK'
        BY <2>9 DEF Pair, DelegationIds, TypeOK, Busy, Locals
    <2>10. ASSUME NEW d \in Revocable, Revoke(d)
          PROVE  TypeOK'
        BY <2>10 DEF Revoke, TypeOK, Busy, Locals
    <2>11. CASE Tick
        BY <2>11 DEF Tick, tables, TypeOK, Busy, Locals
    <2>12. CASE UNCHANGED vars
        BY <2>12 DEF vars, TypeOK, Busy, Locals
    <2>13. QED
        BY <2>1, <2>2, <2>3, <2>4, <2>5, <2>6, <2>7, <2>8, <2>9, <2>10, <2>11, <2>12
           DEF Next, Step
<1>3. QED  BY <1>1, <1>2, PTL DEF Spec

-----------------------------------------------------------------------------
\* Messages and nonces are what the arithmetic needs them to be.
LEMMA MessageFacts ==
    ASSUME NEW m \in Messages
    PROVE  m.issued_at \in Int /\ nonce_of(m) \in Pairs
    BY DEF Messages, Pairs

\* A step that grants nothing, leaves the clock alone, lets nobody new hold a
\* nonce and at most fills an empty row keeps the invariant.
LEMMA QuietStep ==
    ASSUME TypeOK, ReplayInv,
           UNCHANGED <<clock, granted>>,
           \A p \in Pairs : nonces[p] # None => nonces'[p] = nonces[p],
           \A g \in Handlers : HoldsNonce(g)' => HoldsNonce(g) /\ Locals(g)' = Locals(g)
    PROVE  ReplayInv'
    <1>1. NoReplay'
        BY DEF ReplayInv, NoReplay
    <1>2. GrantedIsRemembered'
        BY MessageFacts DEF ReplayInv, GrantedIsRemembered
    <1>3. HeldNonceIsRecorded'
        <2> SUFFICES ASSUME NEW g \in Handlers, HoldsNonce(g)'
                     PROVE  LET l == Locals(g)' IN
                            /\ l.inserted_at \in Instants
                            /\ clock' <= l.inserted_at + MaxStall
                            /\ nonces'[nonce_of(l.req.msg)] = l.inserted_at
                            /\ granted'[l.req.msg] = 0 \/ clock' > l.req.msg.issued_at + MaxAge
            BY DEF HeldNonceIsRecorded
        <2>1. HoldsNonce(g) /\ Locals(g)' = Locals(g)
            OBVIOUS
        <2>2. Locals(g).req.msg \in Messages
            BY <2>1 DEF TypeOK, HoldsNonce, Busy, Messages
        <2>3. QED
            BY <2>1, <2>2, MessageFacts DEF ReplayInv, HeldNonceIsRecorded
    <1>4. NonceHeldOnce'
        BY DEF ReplayInv, NonceHeldOnce
    <1>5. QED  BY <1>1, <1>2, <1>3, <1>4 DEF ReplayInv

\* A handler that moves on without reaching the decision holds no nonce, and
\* the others are where they were.
LEMMA OthersHold ==
    ASSUME TypeOK, NEW h \in Handlers, NEW s,
           handler' = [handler EXCEPT ![h] = s], s.pc # "decide"
    PROVE  \A g \in Handlers : HoldsNonce(g)' => HoldsNonce(g) /\ Locals(g)' = Locals(g)
    BY DEF TypeOK, HoldsNonce, Locals

\* An insert never overwrites a row.
LEMMA InsertKeeps ==
    ASSUME TypeOK, NEW m \in Messages, insert_nonce(nonce_of(m))
    PROVE  \A p \in Pairs : nonces[p] # None => nonces'[p] = nonces[p]
    BY DEF TypeOK, insert_nonce

\* A handler's state is a record, and its request is typed while it is busy.
LEMMA LocalsType ==
    ASSUME TypeOK, NEW h \in Handlers
    PROVE  /\ Locals(h) \in HandlerStates
           /\ handler[h] = Locals(h)
           /\ Busy(h) => Locals(h).req \in Requests /\ Locals(h).req.msg \in Messages
    BY DEF TypeOK, Locals, Messages

\* Every step of a handler but the insert and the decision is quiet.
LEMMA HandlerMovesOn ==
    ASSUME TypeOK, NEW h \in Handlers,
           \/ \E r \in Requests : Receive(h, r)
           \/ FetchKey(h) \/ FetchStatus(h) \/ Persist(h) \/ Lose(h) \/ Decide(h)
    PROVE  \A g \in Handlers : HoldsNonce(g)' => HoldsNonce(g) /\ Locals(g)' = Locals(g)
<1>0. Locals(h) \in HandlerStates /\ handler[h] = Locals(h)
    BY LocalsType
<1>1. ASSUME NEW r \in Requests, Receive(h, r)
      PROVE  \E s : handler' = [handler EXCEPT ![h] = s] /\ s.pc # "decide"
    <2> DEFINE s == [Idle EXCEPT !.req = r, !.revoked_at_start = revoked,
                     !.pc = IF r.authorized /\ r.chain # <<>> THEN "registry" ELSE "replied",
                     !.outcome = IF ~r.authorized THEN "401"
                                 ELSE IF r.chain = <<>> THEN "400" ELSE "none"]
    <2>1. handler' = [handler EXCEPT ![h] = s]
        BY <1>1 DEF Receive
    <2>2. s.pc # "decide"
        BY DEF Idle
    <2> HIDE DEF s
    <2>3. QED  BY <2>1, <2>2
<1>2. CASE FetchKey(h)
    <2>1. handler' = [handler EXCEPT ![h] = [Locals(h) EXCEPT !.pc = "status"]]
        BY <1>0, <1>2 DEF FetchKey, Goto
    <2>2. [Locals(h) EXCEPT !.pc = "status"].pc # "decide"
        BY <1>0 DEF HandlerStates
    <2>3. QED  BY <2>1, <2>2, OthersHold
<1>3. CASE FetchStatus(h)
    <2>1. PICK k, S : \/ handler' = [handler EXCEPT ![h] = [Locals(h) EXCEPT !.pc = "nonce"]]
                      \/ handler' = [handler EXCEPT ![h] =
                                        [Locals(h) EXCEPT !.next_link = k, !.status = S]]
        <3> DEFINE k == Locals(h).next_link
                   chain == Locals(h).req.chain
                   S == IF chain[k].parses /\ row_revoked(chain[k].delegation_id)
                          THEN Locals(h).status \cup {chain[k].delegation_id}
                          ELSE Locals(h).status
        <3>1. \/ handler' = [handler EXCEPT ![h] = [Locals(h) EXCEPT !.pc = "nonce"]]
              \/ handler' = [handler EXCEPT ![h] =
                                [Locals(h) EXCEPT !.next_link = k + 1, !.status = S]]
            BY <1>0, <1>3 DEF FetchStatus, Goto
        <3> HIDE DEF S, k
        <3>2. QED  BY <3>1
    <2>2. [Locals(h) EXCEPT !.pc = "nonce"].pc # "decide"
        BY <1>0 DEF HandlerStates
    <2>3. [Locals(h) EXCEPT !.next_link = k, !.status = S].pc # "decide"
        BY <1>0, <1>3 DEF HandlerStates, FetchStatus
    <2>4. QED  BY <2>1, <2>2, <2>3, OthersHold
<1>4. CASE Persist(h) \/ Lose(h)
    <2>1. PICK o : Reply(h, o)
        BY <1>4 DEF Persist, Lose
    <2> DEFINE s == [Idle EXCEPT !.pc = "replied", !.req = Locals(h).req, !.outcome = o,
                                 !.revoked_at_start = Locals(h).revoked_at_start]
    <2>2. handler' = [handler EXCEPT ![h] = s]
        BY <2>1 DEF Reply
    <2>3. s.pc # "decide"
        BY DEF Idle
    <2> HIDE DEF s
    <2>4. QED  BY <2>2, <2>3, OthersHold
<1>5. CASE Decide(h)
    <2>1. PICK o : handler' = [handler EXCEPT ![h] = [Locals(h) EXCEPT
                        !.pc = "persist", !.now = clock, !.outcome = o]]
        BY <1>0, <1>5 DEF Decide
    <2>2. [Locals(h) EXCEPT !.pc = "persist", !.now = clock, !.outcome = o].pc # "decide"
        BY <1>0 DEF HandlerStates
    <2>3. QED  BY <2>1, <2>2, OthersHold
<1>6. QED  BY <1>1, <1>2, <1>3, <1>4, <1>5, OthersHold

\* The insert: the handler that filled the row is the only one that holds the
\* nonce, and a message granted earlier under it was stale already.
LEMMA InsertHolds ==
    ASSUME TypeOK, ReplayInv, NEW h \in Handlers, PrecheckNonce(h)
    PROVE  ReplayInv'
<1> DEFINE msg == Locals(h).req.msg
           f == msg.parses /\ nonces[nonce_of(msg)] = None
           at == IF f THEN clock ELSE None
           s == [Locals(h) EXCEPT !.pc = "decide", !.already_seen = ~f, !.inserted_at = at]
<1>1. msg \in Messages /\ Locals(h) \in HandlerStates /\ nonce_of(msg) \in Pairs
    BY LocalsType, MessageFacts DEF PrecheckNonce, Busy
<1>2. handler' = [handler EXCEPT ![h] = s]
    BY LocalsType DEF PrecheckNonce
<1>3. \A g \in Handlers : g # h => Locals(g)' = Locals(g) /\ (HoldsNonce(g)' <=> HoldsNonce(g))
    <2> HIDE DEF s
    <2> QED  BY <1>2 DEF TypeOK, Locals, HoldsNonce
<1>4. Locals(h)' = s
    <2> HIDE DEF s
    <2> QED  BY <1>2 DEF TypeOK, Locals
<1>5. /\ s.pc = "decide" /\ s.already_seen = ~f /\ s.inserted_at = at
      /\ s.req = Locals(h).req
    BY <1>1 DEF HandlerStates
<1>6. UNCHANGED <<clock, granted>>
    BY DEF PrecheckNonce
<1>7. \A p \in Pairs : nonces[p] # None => nonces'[p] = nonces[p]
    BY <1>1, InsertKeeps DEF PrecheckNonce
<1>8. HoldsNonce(h)' <=> f
    <2> HIDE DEF s, f
    <2> QED  BY <1>4, <1>5 DEF HoldsNonce
<1>9. CASE ~f
    <2>1. \A g \in Handlers : HoldsNonce(g)' => HoldsNonce(g) /\ Locals(g)' = Locals(g)
        BY <1>3, <1>8, <1>9
    <2>2. QED  BY <1>6, <1>7, <2>1, QuietStep
<1>10. CASE f
    <2>1. nonces'[nonce_of(msg)] = clock /\ nonces[nonce_of(msg)] = None
        BY <1>1, <1>10 DEF PrecheckNonce, insert_nonce, TypeOK
    <2>2. /\ Locals(h)'.inserted_at = clock /\ Locals(h)'.req = Locals(h).req
          /\ clock \in Instants
        BY <1>4, <1>5, <1>10 DEF TypeOK
    <2>3. granted[msg] = 0 \/ clock > msg.issued_at + MaxAge
        BY <1>1, <2>1 DEF ReplayInv, GrantedIsRemembered
    <2>4. \A g \in Handlers : g # h /\ HoldsNonce(g)' =>
              /\ Locals(g)'.req.msg \in Messages
              /\ nonces[nonce_of(Locals(g)'.req.msg)] = Locals(g)'.inserted_at
              /\ Locals(g)'.inserted_at # None
        BY <1>3, LocalsType DEF ReplayInv, HeldNonceIsRecorded, HoldsNonce, Busy
    <2> HIDE DEF f, s, msg, at
    <2>5. NoReplay' /\ GrantedIsRemembered'
        BY <1>6, <1>7, MessageFacts DEF ReplayInv, NoReplay, GrantedIsRemembered
    <2>6. HeldNonceIsRecorded'
        <3> SUFFICES ASSUME NEW g \in Handlers, HoldsNonce(g)'
                     PROVE  LET l == Locals(g)' IN
                            /\ l.inserted_at \in Instants
                            /\ clock' <= l.inserted_at + MaxStall
                            /\ nonces'[nonce_of(l.req.msg)] = l.inserted_at
                            /\ granted'[l.req.msg] = 0 \/ clock' > l.req.msg.issued_at + MaxAge
            BY DEF HeldNonceIsRecorded
        <3>1. CASE g = h
            BY <1>6, <2>1, <2>2, <2>3, <3>1 DEF msg
        <3>2. CASE g # h
            BY <1>3, <1>6, <1>7, <2>4, <3>2, MessageFacts
               DEF ReplayInv, HeldNonceIsRecorded
        <3>3. QED  BY <3>1, <3>2
    <2>7. NonceHeldOnce'
        BY <1>3, <2>1, <2>2, <2>4 DEF ReplayInv, NonceHeldOnce, msg
    <2>8. QED  BY <2>5, <2>6, <2>7 DEF ReplayInv
<1>11. QED  BY <1>9, <1>10

\* What an "ok" decision says about the message and the nonce.
LEMMA OkDecision ==
    ASSUME TypeOK, NEW h \in Handlers, Locals(h).pc = "decide",
           verify_inner(Locals(h).req.chain, Locals(h).req.msg, clock,
                        Locals(h).status, Locals(h).already_seen) = "ok"
    PROVE  HoldsNonce(h) /\ fresh_at(Locals(h).req.msg, clock)
<1>1. Locals(h).req \in Requests
    BY LocalsType DEF Busy
<1>2. /\ message_failure(Locals(h).req.chain[1], Locals(h).req.msg, clock) = "ok"
      /\ ~Locals(h).already_seen
    BY <1>1, OkMeansEveryCheckPassed
<1>3. ~(Locals(h).req.msg.issued_at > clock + MaxSkew)
      /\ ~(Locals(h).req.msg.issued_at < clock - MaxAge)
    BY <1>2 DEF message_failure
<1>4. Locals(h).req.msg.issued_at \in Int /\ clock \in Int
    BY <1>1 DEF TypeOK
<1>5. fresh_at(Locals(h).req.msg, clock)
    BY <1>3, <1>4 DEF fresh_at
<1>6. QED  BY <1>2, <1>5 DEF HoldsNonce

\* The decision: what is granted was not granted before, and its row outlives
\* its freshness.
LEMMA DecideGrantsOnce ==
    ASSUME TypeOK, ReplayInv, NEW h \in Handlers, Decide(h)
    PROVE  ReplayInv'
<1> DEFINE msg == Locals(h).req.msg
           o == verify_inner(Locals(h).req.chain, msg, clock,
                             Locals(h).status, Locals(h).already_seen)
<1>1. \A g \in Handlers : HoldsNonce(g)' => HoldsNonce(g) /\ Locals(g)' = Locals(g)
    BY HandlerMovesOn
<1>2. UNCHANGED <<clock, nonces>>
    BY DEF Decide, tables
<1>3. CASE o # "ok"
    <2>1. UNCHANGED granted
        BY <1>3 DEF Decide
    <2>2. QED  BY <1>1, <1>2, <2>1, QuietStep
<1>4. CASE o = "ok"
    <2>1. /\ msg \in Messages /\ msg.issued_at \in Int /\ nonce_of(msg) \in Pairs
          /\ Locals(h) \in HandlerStates
        BY LocalsType, MessageFacts DEF Decide, Busy
    <2>2. HoldsNonce(h) /\ fresh_at(msg, clock)
        BY <1>4, OkDecision DEF Decide
    <2>3. granted' = [granted EXCEPT ![msg] = @ + 1]
        BY <1>4 DEF Decide
    <2>4. ~HoldsNonce(h)'
        BY <2>1, LocalsType DEF Decide, TypeOK, HoldsNonce, Locals, HandlerStates
    <2> DEFINE at == Locals(h).inserted_at
    <2>5. /\ at \in Instants /\ clock <= at + MaxStall /\ nonces[nonce_of(msg)] = at
          /\ granted[msg] = 0 \/ clock > msg.issued_at + MaxAge
        BY <2>2 DEF ReplayInv, HeldNonceIsRecorded
    <2>6. clock \in Int /\ granted \in [Messages -> Nat]
        BY DEF TypeOK
    <2> HIDE DEF o, msg, at
    <2>7. granted[msg] = 0
        BY <2>1, <2>2, <2>5, <2>6 DEF fresh_at
    <2>8. msg.issued_at <= at + Margin + MaxSkew
        BY <2>1, <2>2, <2>5, <2>6 DEF fresh_at
    <2>9. granted'[msg] = 1 /\ \A m \in Messages : m # msg => granted'[m] = granted[m]
        BY <2>1, <2>3, <2>6, <2>7
    <2>10. NoReplay'
        BY <2>9 DEF ReplayInv, NoReplay
    <2>11. GrantedIsRemembered'
        BY <1>2, <2>1, <2>5, <2>8, <2>9 DEF ReplayInv, GrantedIsRemembered
    <2>12. HeldNonceIsRecorded'
        <3> SUFFICES ASSUME NEW g \in Handlers, HoldsNonce(g)'
                     PROVE  LET l == Locals(g)' IN
                            /\ l.inserted_at \in Instants
                            /\ clock' <= l.inserted_at + MaxStall
                            /\ nonces'[nonce_of(l.req.msg)] = l.inserted_at
                            /\ granted'[l.req.msg] = 0 \/ clock' > l.req.msg.issued_at + MaxAge
            BY DEF HeldNonceIsRecorded
        <3>1. HoldsNonce(g) /\ Locals(g)' = Locals(g) /\ g # h
            BY <1>1, <2>4
        <3>2. Locals(g).req.msg \in Messages
            BY <3>1, LocalsType DEF HoldsNonce, Busy
        <3>3. Locals(g).req.msg # msg
            BY <2>2, <3>1 DEF ReplayInv, NonceHeldOnce, msg
        <3>4. QED
            BY <1>2, <2>9, <3>1, <3>2, <3>3 DEF ReplayInv, HeldNonceIsRecorded
    <2>13. NonceHeldOnce'
        BY <1>1 DEF ReplayInv, NonceHeldOnce
    <2>14. QED  BY <2>10, <2>11, <2>12, <2>13 DEF ReplayInv
<1>5. QED  BY <1>3, <1>4

\* Pruning only forgets rows whose messages are stale, and never the row of a
\* handler that has yet to decide.
LEMMA PruneForgetsStale ==
    ASSUME TypeOK, ReplayInv, Prune
    PROVE  ReplayInv'
<1>1. UNCHANGED <<clock, granted, handler>> /\ clock \in Int
    BY DEF Prune, TypeOK
<1>2. \A p \in Pairs : /\ nonces'[p] # nonces[p] =>
                             nonces[p] \in Instants /\ nonces[p] < clock - Retention
    BY DEF Prune, prunable, TypeOK
<1>3. \A g \in Handlers : Locals(g)' = Locals(g) /\ (HoldsNonce(g)' <=> HoldsNonce(g))
    BY <1>1 DEF Locals, HoldsNonce
<1>4. NoReplay' /\ NonceHeldOnce'
    BY <1>1, <1>3 DEF ReplayInv, NoReplay, NonceHeldOnce
<1>5. GrantedIsRemembered'
    <2> SUFFICES ASSUME NEW m \in Messages, granted[m] # 0, ~(clock > m.issued_at + MaxAge)
                 PROVE  /\ nonces'[nonce_of(m)] # None
                        /\ m.issued_at <= nonces'[nonce_of(m)] + Margin + MaxSkew
        BY <1>1 DEF GrantedIsRemembered
    <2> DEFINE row == nonces[nonce_of(m)]
    <2>1. row # None /\ m.issued_at <= row + Margin + MaxSkew
        BY DEF ReplayInv, GrantedIsRemembered
    <2>2. nonce_of(m) \in Pairs /\ m.issued_at \in Int
        BY MessageFacts
    <2>3. row \in Int
        BY <2>1, <2>2 DEF TypeOK
    <2>4. ~(row < clock - Retention)
        <3> HIDE DEF row
        <3> QED  BY <1>1, <2>1, <2>2, <2>3 DEF Retention
    <2>5. QED  BY <1>2, <2>1, <2>2, <2>4
<1>6. HeldNonceIsRecorded'
    <2> SUFFICES ASSUME NEW g \in Handlers, HoldsNonce(g)
                 PROVE  LET l == Locals(g) IN
                        /\ l.inserted_at \in Instants
                        /\ clock <= l.inserted_at + MaxStall
                        /\ nonces'[nonce_of(l.req.msg)] = l.inserted_at
                        /\ granted[l.req.msg] = 0 \/ clock > l.req.msg.issued_at + MaxAge
        BY <1>1, <1>3 DEF HeldNonceIsRecorded
    <2> DEFINE at == Locals(g).inserted_at
               pair == nonce_of(Locals(g).req.msg)
    <2>1. /\ at \in Instants /\ clock <= at + MaxStall /\ nonces[pair] = at
          /\ granted[Locals(g).req.msg] = 0 \/ clock > Locals(g).req.msg.issued_at + MaxAge
        BY DEF ReplayInv, HeldNonceIsRecorded
    <2>2. pair \in Pairs
        BY LocalsType, MessageFacts DEF HoldsNonce, Busy
    <2>3. ~(at < clock - Retention)
        <3> HIDE DEF at, pair
        <3> QED  BY <1>1, <2>1 DEF Retention
    <2>4. nonces'[pair] = at
        <3> HIDE DEF at, pair
        <3> QED  BY <1>2, <2>1, <2>2, <2>3
    <2>5. QED  BY <2>1, <2>4
<1>7. QED  BY <1>4, <1>5, <1>6 DEF ReplayInv

\* Time only makes messages staler, and a handler holding a nonce is not left
\* behind by more than the stall.
LEMMA TickKeeps ==
    ASSUME TypeOK, ReplayInv, Tick
    PROVE  ReplayInv'
<1>1. UNCHANGED <<nonces, granted, handler>> /\ clock' = clock + 1 /\ clock \in Int
    BY DEF Tick, tables, TypeOK
<1>2. \A g \in Handlers : Locals(g)' = Locals(g) /\ (HoldsNonce(g)' <=> HoldsNonce(g))
    BY <1>1 DEF Locals, HoldsNonce
<1>3. NoReplay' /\ NonceHeldOnce'
    BY <1>1, <1>2 DEF ReplayInv, NoReplay, NonceHeldOnce
<1>4. GrantedIsRemembered'
    BY <1>1, MessageFacts DEF ReplayInv, GrantedIsRemembered
<1>5. HeldNonceIsRecorded'
    <2> SUFFICES ASSUME NEW g \in Handlers, HoldsNonce(g)
                 PROVE  LET l == Locals(g) IN
                        /\ l.inserted_at \in Instants
                        /\ clock + 1 <= l.inserted_at + MaxStall
                        /\ nonces[nonce_of(l.req.msg)] = l.inserted_at
                        /\ granted[l.req.msg] = 0 \/ clock + 1 > l.req.msg.issued_at + MaxAge
        BY <1>1, <1>2 DEF HeldNonceIsRecorded
    <2> DEFINE at == Locals(g).inserted_at
               m == Locals(g).req.msg
    <2>1. /\ at \in Instants /\ clock <= at + MaxStall /\ nonces[nonce_of(m)] = at
          /\ granted[m] = 0 \/ clock > m.issued_at + MaxAge
        BY DEF ReplayInv, HeldNonceIsRecorded
    <2>2. clock < at + MaxStall
        BY <2>1 DEF Tick, HoldsNonce
    <2>3. m.issued_at \in Int
        BY LocalsType, MessageFacts DEF HoldsNonce, Busy
    <2> HIDE DEF at, m
    <2>4. clock + 1 <= at + MaxStall /\ (clock > m.issued_at + MaxAge => clock + 1 > m.issued_at + MaxAge)
        BY <1>1, <2>1, <2>2, <2>3
    <2>5. QED  BY <2>1, <2>4 DEF at, m
<1>6. QED  BY <1>3, <1>4, <1>5 DEF ReplayInv

-----------------------------------------------------------------------------
\* The replay invariant is inductive relative to the types.
LEMMA ReplayInvStep ==
    ASSUME TypeOK, ReplayInv, [Next]_vars
    PROVE  ReplayInv'
<1>1. ASSUME UNCHANGED <<clock, granted, nonces, handler>>
      PROVE  ReplayInv'
    BY <1>1, QuietStep DEF HoldsNonce, Locals
<1>2. ASSUME NEW h \in Handlers,
             \/ \E r \in Requests : Receive(h, r)
             \/ FetchKey(h) \/ FetchStatus(h) \/ Persist(h)
      PROVE  ReplayInv'
    <2>1. UNCHANGED <<clock, granted, nonces>>
        BY <1>2 DEF Receive, FetchKey, FetchStatus, Persist, tables
    <2>2. QED  BY <1>2, <2>1, HandlerMovesOn, QuietStep
<1>3. ASSUME NEW h \in Handlers, Lose(h)
      PROVE  ReplayInv'
    <2>1. UNCHANGED <<clock, granted>> /\ Busy(h)
        BY <1>3 DEF Lose, Busy
    <2>2. \A p \in Pairs : nonces[p] # None => nonces'[p] = nonces[p]
        BY <1>3, <2>1, LocalsType, InsertKeeps DEF Lose
    <2>3. QED  BY <1>3, <2>1, <2>2, HandlerMovesOn, QuietStep
<1>4. ASSUME NEW link \in Pairable, Pair(link)
      PROVE  ReplayInv'
    BY <1>1, <1>4 DEF Pair
<1>5. ASSUME NEW d \in Revocable, Revoke(d)
      PROVE  ReplayInv'
    BY <1>1, <1>5 DEF Revoke
<1>6. CASE UNCHANGED vars
    BY <1>1, <1>6 DEF vars
<1>7. QED
    BY <1>2, <1>3, <1>4, <1>5, <1>6, InsertHolds, DecideGrantsOnce, PruneForgetsStale,
       TickKeeps DEF Next, Step

\* The replay invariant holds throughout.
THEOREM ReplayInvariant == Spec => []ReplayInv
<1>1. Init => ReplayInv
    BY DEF Init, ReplayInv, NoReplay, GrantedIsRemembered, HeldNonceIsRecorded,
           NonceHeldOnce, HoldsNonce, Locals, Idle
<1>2. TypeOK /\ ReplayInv /\ [Next]_vars => ReplayInv'
    BY ReplayInvStep
<1>3. QED  BY <1>1, <1>2, TypeCorrect, PTL DEF Spec

\* No message is accepted twice: whatever the number of handlers, however
\* their awaits interleave with each other, with lost handlers and with the
\* pruning task, as long as the stall stays within the margin.
THEOREM ReplaySafe == Spec => []NoReplay
<1>1. ReplayInv => NoReplay
    BY DEF ReplayInv
<1>2. QED  BY <1>1, ReplayInvariant, PTL

\* The service implements the abstract replay guard: an accepting decision is
\* the guard's grant, every other step leaves the guard alone.
THEOREM Refinement == Spec => ImplementsReplayGuard
<1>1. Init => Guard!Init
    BY DEF Init, Guard!Init
<1>2. TypeOK /\ ReplayInv /\ [Next]_vars => [Guard!Next]_<<clock, granted>>
    <2> SUFFICES ASSUME TypeOK, ReplayInv, [Next]_vars
                 PROVE  [Guard!Next]_<<clock, granted>>
        OBVIOUS
    <2>1. ASSUME NEW h \in Handlers, Decide(h)
          PROVE  Guard!Next
        <3> DEFINE msg == Locals(h).req.msg
                   o == verify_inner(Locals(h).req.chain, msg, clock,
                                     Locals(h).status, Locals(h).already_seen)
        <3>1. CASE o # "ok"
            BY <2>1, <3>1 DEF Decide, Guard!Next, Guard!Pass
        <3>2. CASE o = "ok"
            <4>1. HoldsNonce(h) /\ fresh_at(msg, clock) /\ msg \in Messages
                BY <2>1, <3>2, OkDecision, LocalsType DEF Decide, Busy
            <4>2. granted[msg] = 0
                <5>1. granted[msg] = 0 \/ clock > msg.issued_at + MaxAge
                    BY <4>1 DEF ReplayInv, HeldNonceIsRecorded
                <5>2. msg.issued_at \in Int /\ clock \in Int
                    BY <4>1, MessageFacts DEF TypeOK
                <5> HIDE DEF msg
                <5>3. QED  BY <4>1, <5>1, <5>2 DEF fresh_at
            <4>3. granted' = [granted EXCEPT ![msg] = 1] /\ UNCHANGED clock
                BY <2>1, <3>2, <4>1, <4>2 DEF Decide, TypeOK
            <4>4. Guard!Grant(msg)
                BY <4>1, <4>2, <4>3 DEF Guard!Grant
            <4>5. QED  BY <4>1, <4>4 DEF Guard!Next
        <3>3. QED  BY <3>1, <3>2
    <2>2. ASSUME UNCHANGED granted
          PROVE  Guard!Next
        BY <2>2 DEF Guard!Next, Guard!Pass
    <2>3. QED
        BY <2>1, <2>2 DEF Next, Step, Receive, FetchKey, FetchStatus, PrecheckNonce,
                          Persist, Lose, Prune, Pair, Revoke, Tick, vars
<1>3. QED
    BY <1>1, <1>2, TypeCorrect, ReplayInvariant, PTL DEF Spec, ImplementsReplayGuard, Guard!Spec

-----------------------------------------------------------------------------
\* What the handlers are after one of them was replaced.
LEMMA AfterUpdate ==
    ASSUME TypeOK, NEW h \in Handlers, NEW s, handler' = [handler EXCEPT ![h] = s]
    PROVE  Locals(h)' = s /\ \A g \in Handlers \ {h} : Locals(g)' = Locals(g)
    BY DEF TypeOK, Locals

\* What each step of a handler does to its locals; nobody else's change.
LEMMA AfterReceive ==
    ASSUME TypeOK, NEW h \in Handlers, NEW r \in Requests, Receive(h, r)
    PROVE  /\ Locals(h)'.pc \in {"registry", "replied"} /\ Locals(h)'.req = r
           /\ Locals(h)'.next_link = 1 /\ Locals(h)'.outcome # "ok"
           /\ Locals(h)'.revoked_at_start = revoked
           /\ \A g \in Handlers \ {h} : Locals(g)' = Locals(g)
<1> DEFINE pc == IF r.authorized /\ r.chain # <<>> THEN "registry" ELSE "replied"
           a == IF ~r.authorized THEN "401" ELSE IF r.chain = <<>> THEN "400" ELSE "none"
           s == [Idle EXCEPT !.req = r, !.revoked_at_start = revoked, !.pc = pc, !.outcome = a]
<1>0. pc \in {"registry", "replied"} /\ a # "ok"
    OBVIOUS
<1>1. handler' = [handler EXCEPT ![h] = s]
    BY DEF Receive
<1> HIDE DEF pc, a
<1>2. s.pc = pc /\ s.req = r /\ s.next_link = 1 /\ s.outcome = a /\ s.revoked_at_start = revoked
    BY DEF Idle
<1> HIDE DEF s
<1>3. Locals(h)' = s /\ \A g \in Handlers \ {h} : Locals(g)' = Locals(g)
    BY <1>1, AfterUpdate
<1>4. QED  BY <1>0, <1>2, <1>3

LEMMA AfterFetchKey ==
    ASSUME TypeOK, NEW h \in Handlers, FetchKey(h)
    PROVE  /\ Locals(h)'.pc = "status" /\ Locals(h)'.req = Locals(h).req
           /\ Locals(h)'.next_link = Locals(h).next_link
           /\ Locals(h)'.status = Locals(h).status
           /\ Locals(h)'.revoked_at_start = Locals(h).revoked_at_start
           /\ \A g \in Handlers \ {h} : Locals(g)' = Locals(g)
<1> DEFINE s == [Locals(h) EXCEPT !.pc = "status"]
<1>0. Locals(h) \in HandlerStates /\ handler[h] = Locals(h)
    BY LocalsType
<1>1. handler' = [handler EXCEPT ![h] = s]
    BY <1>0 DEF FetchKey, Goto
<1>2. /\ s.pc = "status" /\ s.req = Locals(h).req /\ s.next_link = Locals(h).next_link
      /\ s.status = Locals(h).status /\ s.revoked_at_start = Locals(h).revoked_at_start
    BY <1>0 DEF HandlerStates
<1> HIDE DEF s
<1>3. QED  BY <1>1, <1>2, AfterUpdate

LEMMA AfterFetchStatus ==
    ASSUME TypeOK, NEW h \in Handlers, FetchStatus(h)
    PROVE  /\ Locals(h)'.req = Locals(h).req
           /\ Locals(h)'.revoked_at_start = Locals(h).revoked_at_start
           /\ LET chain == Locals(h).req.chain
                  k == Locals(h).next_link
              IN  \/ /\ k > Len(chain) /\ Locals(h)'.pc = "nonce"
                     /\ Locals(h)'.next_link = k /\ Locals(h)'.status = Locals(h).status
                  \/ /\ ~(k > Len(chain)) /\ Locals(h)'.pc = "status"
                     /\ Locals(h)'.next_link = k + 1
                     /\ Locals(h).status \subseteq Locals(h)'.status
                     /\ chain[k].parses /\ row_revoked(chain[k].delegation_id) =>
                            chain[k].delegation_id \in Locals(h)'.status
           /\ \A g \in Handlers \ {h} : Locals(g)' = Locals(g)
<1> DEFINE chain == Locals(h).req.chain
           k == Locals(h).next_link
           S == IF chain[k].parses /\ row_revoked(chain[k].delegation_id)
                  THEN Locals(h).status \cup {chain[k].delegation_id} ELSE Locals(h).status
           s == [Locals(h) EXCEPT !.pc = "nonce"]
           t == [Locals(h) EXCEPT !.next_link = k + 1, !.status = S]
<1>0. Locals(h) \in HandlerStates /\ handler[h] = Locals(h) /\ Locals(h).pc = "status"
    BY LocalsType DEF FetchStatus
<1>1. CASE k > Len(chain)
    <2>1. handler' = [handler EXCEPT ![h] = s]
        BY <1>0, <1>1 DEF FetchStatus, Goto
    <2>2. /\ s.pc = "nonce" /\ s.req = Locals(h).req /\ s.next_link = k
          /\ s.status = Locals(h).status /\ s.revoked_at_start = Locals(h).revoked_at_start
        BY <1>0 DEF HandlerStates
    <2> HIDE DEF s
    <2>3. QED  BY <1>1, <2>1, <2>2, AfterUpdate
<1>2. CASE ~(k > Len(chain))
    <2>1. handler' = [handler EXCEPT ![h] = t]
        BY <1>0, <1>2 DEF FetchStatus
    <2>2. /\ Locals(h).status \subseteq S
          /\ chain[k].parses /\ row_revoked(chain[k].delegation_id) => chain[k].delegation_id \in S
        OBVIOUS
    <2> HIDE DEF S
    <2>3. /\ t.pc = "status" /\ t.req = Locals(h).req /\ t.next_link = k + 1 /\ t.status = S
          /\ t.revoked_at_start = Locals(h).revoked_at_start
        BY <1>0 DEF HandlerStates
    <2> HIDE DEF t
    <2>4. QED  BY <1>2, <2>1, <2>2, <2>3, AfterUpdate
<1>3. QED  BY <1>1, <1>2

LEMMA AfterPrecheck ==
    ASSUME TypeOK, NEW h \in Handlers, PrecheckNonce(h)
    PROVE  /\ Locals(h)'.pc = "decide" /\ Locals(h)'.req = Locals(h).req
           /\ Locals(h)'.next_link = Locals(h).next_link
           /\ Locals(h)'.status = Locals(h).status
           /\ Locals(h)'.revoked_at_start = Locals(h).revoked_at_start
           /\ \A g \in Handlers \ {h} : Locals(g)' = Locals(g)
<1>0. Locals(h) \in HandlerStates /\ handler[h] = Locals(h)
    BY LocalsType
<1>1. PICK seen, at : handler' = [handler EXCEPT ![h] = [Locals(h) EXCEPT
                        !.pc = "decide", !.already_seen = seen, !.inserted_at = at]]
    BY <1>0 DEF PrecheckNonce
<1> DEFINE s == [Locals(h) EXCEPT !.pc = "decide", !.already_seen = seen, !.inserted_at = at]
<1>2. /\ s.pc = "decide" /\ s.req = Locals(h).req /\ s.next_link = Locals(h).next_link
      /\ s.status = Locals(h).status /\ s.revoked_at_start = Locals(h).revoked_at_start
    BY <1>0 DEF HandlerStates
<1>3. handler' = [handler EXCEPT ![h] = s]
    BY <1>1
<1> HIDE DEF s
<1>4. QED  BY <1>2, <1>3, AfterUpdate

LEMMA AfterDecide ==
    ASSUME TypeOK, NEW h \in Handlers, Decide(h)
    PROVE  LET o == verify_inner(Locals(h).req.chain, Locals(h).req.msg, clock,
                                 Locals(h).status, Locals(h).already_seen)
           IN  /\ Locals(h)'.pc = "persist" /\ Locals(h)'.req = Locals(h).req
               /\ Locals(h)'.outcome = o
               /\ Locals(h)'.revoked_at_start = Locals(h).revoked_at_start
               /\ \A g \in Handlers \ {h} : Locals(g)' = Locals(g)
               /\ granted' = IF o = "ok" THEN [granted EXCEPT ![Locals(h).req.msg] = @ + 1]
                                         ELSE granted
<1>0. Locals(h) \in HandlerStates /\ handler[h] = Locals(h)
    BY LocalsType
<1> DEFINE o == verify_inner(Locals(h).req.chain, Locals(h).req.msg, clock,
                             Locals(h).status, Locals(h).already_seen)
           s == [Locals(h) EXCEPT !.pc = "persist", !.now = clock, !.outcome = o]
<1>1. handler' = [handler EXCEPT ![h] = s]
      /\ granted' = IF o = "ok" THEN [granted EXCEPT ![Locals(h).req.msg] = @ + 1] ELSE granted
    BY <1>0 DEF Decide
<1> HIDE DEF o
<1>2. /\ s.pc = "persist" /\ s.req = Locals(h).req /\ s.outcome = o
      /\ s.revoked_at_start = Locals(h).revoked_at_start
    BY <1>0 DEF HandlerStates
<1> HIDE DEF s
<1>3. QED  BY <1>1, <1>2, AfterUpdate DEF o

LEMMA AfterReply ==
    ASSUME TypeOK, NEW h \in Handlers, NEW a, Reply(h, a)
    PROVE  /\ Locals(h)'.pc = "replied" /\ Locals(h)'.req = Locals(h).req
           /\ Locals(h)'.outcome = a
           /\ Locals(h)'.revoked_at_start = Locals(h).revoked_at_start
           /\ \A g \in Handlers \ {h} : Locals(g)' = Locals(g)
<1> DEFINE s == [Idle EXCEPT !.pc = "replied", !.req = Locals(h).req, !.outcome = a,
                             !.revoked_at_start = Locals(h).revoked_at_start]
<1>1. handler' = [handler EXCEPT ![h] = s]
    BY DEF Reply
<1>2. /\ s.pc = "replied" /\ s.req = Locals(h).req /\ s.outcome = a
      /\ s.revoked_at_start = Locals(h).revoked_at_start
    BY DEF Idle
<1> HIDE DEF s
<1>3. QED  BY <1>1, <1>2, AfterUpdate

-----------------------------------------------------------------------------
\* What a handler has collected, and what it answered, as a predicate of its
\* locals and the delegation table.
Collected(l, rows, gone) ==
    l.pc \in {"registry", "status", "nonce", "decide"} =>
        /\ l.revoked_at_start \subseteq gone
        /\ l.pc \in {"nonce", "decide"} => l.next_link > Len(l.req.chain)
        /\ \A i \in 1 .. Len(l.req.chain) : i < l.next_link /\ l.req.chain[i].parses =>
              \/ l.req.chain[i].delegation_id \in l.status
              \/ l.req.chain[i].delegation_id \in rows \ l.revoked_at_start
Stands(l, rows) ==
    l.pc \in {"persist", "replied"} /\ l.outcome = "ok" =>
        \A i \in 1 .. Len(l.req.chain) :
            l.req.chain[i].delegation_id \in rows \ l.revoked_at_start

\* The two together are inductive: rows are added and revocations are set, and
\* neither is undone.
StatusInv == \A h \in Handlers : Collected(Locals(h), known, revoked) /\ Stands(Locals(h), known)

LEMMA StatusInvMeans == StatusInv <=> StatusIsNotStale /\ AcceptedOnCurrentStatus
    BY DEF StatusInv, StatusIsNotStale, AcceptedOnCurrentStatus, Accepting, Collected, Stands

LEMMA RowsOnlyGrow ==
    ASSUME NEW l, NEW rows, NEW gone, NEW rows2, NEW gone2, rows \subseteq rows2, gone \subseteq gone2
    PROVE  /\ Collected(l, rows, gone) => Collected(l, rows2, gone2)
           /\ Stands(l, rows) => Stands(l, rows2)
    BY DEF Collected, Stands

\* Only one handler's locals change, and they are right afterwards.
LEMMA OneHandlerReads ==
    ASSUME StatusInv, NEW h \in Handlers, UNCHANGED <<known, revoked>>,
           \A g \in Handlers \ {h} : Locals(g)' = Locals(g),
           Collected(Locals(h)', known, revoked), Stands(Locals(h)', known)
    PROVE  StatusInv'
    BY DEF StatusInv

LEMMA StatusInvStep ==
    ASSUME TypeOK, StatusInv, [Next]_vars
    PROVE  StatusInv'
<1>1. ASSUME NEW h \in Handlers, NEW r \in Requests, Receive(h, r) PROVE StatusInv'
    <2>1. UNCHANGED <<known, revoked>>
        BY <1>1 DEF Receive, tables
    <2>2. /\ Locals(h)'.pc \in {"registry", "replied"} /\ Locals(h)'.next_link = 1
          /\ Locals(h)'.outcome # "ok" /\ Locals(h)'.revoked_at_start = revoked
        BY <1>1, AfterReceive
    <2>3. \A i : i \in 1 .. Len(Locals(h)'.req.chain) => ~(i < 1)
        OBVIOUS
    <2>4. Collected(Locals(h)', known, revoked) /\ Stands(Locals(h)', known)
        BY <2>2, <2>3 DEF Collected, Stands
    <2>5. QED  BY <1>1, <2>1, <2>4, AfterReceive, OneHandlerReads
<1>2. ASSUME NEW h \in Handlers, FetchKey(h) PROVE StatusInv'
    <2>1. UNCHANGED <<known, revoked>> /\ Locals(h).pc = "registry"
        BY <1>2 DEF FetchKey, tables
    <2>2. Collected(Locals(h), known, revoked)
        BY DEF StatusInv
    <2>3. Collected(Locals(h)', known, revoked) /\ Stands(Locals(h)', known)
        BY <1>2, <2>1, <2>2, AfterFetchKey DEF Collected, Stands
    <2>4. QED  BY <1>2, <2>1, <2>3, AfterFetchKey, OneHandlerReads
<1>3. ASSUME NEW h \in Handlers, FetchStatus(h) PROVE StatusInv'
    <2> DEFINE l == Locals(h)
               chain == l.req.chain
               k == l.next_link
    <2>1. UNCHANGED <<known, revoked>> /\ l.pc = "status" /\ k \in Nat /\ Len(chain) \in Nat
        BY <1>3, LocalsType DEF FetchStatus, tables, HandlerStates, Busy
    <2>2. /\ l.revoked_at_start \subseteq revoked
          /\ \A i \in 1 .. Len(chain) : i < k /\ chain[i].parses =>
                chain[i].delegation_id \in l.status
                \/ chain[i].delegation_id \in known \ l.revoked_at_start
        BY <2>1 DEF StatusInv, Collected
    <2>3. Locals(h)'.req = l.req /\ Locals(h)'.revoked_at_start = l.revoked_at_start
        BY <1>3, AfterFetchStatus
    <2>4. CASE /\ k > Len(chain) /\ Locals(h)'.pc = "nonce"
               /\ Locals(h)'.next_link = k /\ Locals(h)'.status = l.status
        <3>1. Collected(Locals(h)', known, revoked) /\ Stands(Locals(h)', known)
            BY <2>2, <2>3, <2>4 DEF Collected, Stands
        <3>2. QED  BY <1>3, <2>1, <3>1, AfterFetchStatus, OneHandlerReads
    <2>5. CASE /\ ~(k > Len(chain)) /\ Locals(h)'.pc = "status"
               /\ Locals(h)'.next_link = k + 1 /\ l.status \subseteq Locals(h)'.status
               /\ chain[k].parses /\ row_revoked(chain[k].delegation_id) =>
                      chain[k].delegation_id \in Locals(h)'.status
        <3>1. ASSUME NEW i \in 1 .. Len(chain), i < k + 1, chain[i].parses
              PROVE  \/ chain[i].delegation_id \in Locals(h)'.status
                     \/ chain[i].delegation_id \in known \ l.revoked_at_start
            <4>1. CASE i = k
                BY <2>2, <2>5, <3>1, <4>1 DEF row_revoked
            <4>2. CASE i < k
                BY <2>2, <2>5, <3>1, <4>2
            <4>3. i = k \/ i < k
                BY <2>1, <3>1
            <4>4. QED  BY <4>1, <4>2, <4>3
        <3>2. Collected(Locals(h)', known, revoked) /\ Stands(Locals(h)', known)
            BY <2>2, <2>3, <2>5, <3>1 DEF Collected, Stands
        <3>3. QED  BY <1>3, <2>1, <3>2, AfterFetchStatus, OneHandlerReads
    <2>6. QED  BY <1>3, <2>4, <2>5, AfterFetchStatus
<1>4. ASSUME NEW h \in Handlers, PrecheckNonce(h) PROVE StatusInv'
    <2>1. UNCHANGED <<known, revoked>> /\ Locals(h).pc = "nonce"
        BY <1>4 DEF PrecheckNonce
    <2>2. Collected(Locals(h), known, revoked)
        BY DEF StatusInv
    <2>3. Collected(Locals(h)', known, revoked) /\ Stands(Locals(h)', known)
        BY <1>4, <2>1, <2>2, AfterPrecheck DEF Collected, Stands
    <2>4. QED  BY <1>4, <2>1, <2>3, AfterPrecheck, OneHandlerReads
<1>5. ASSUME NEW h \in Handlers, Decide(h) PROVE StatusInv'
    <2> DEFINE l == Locals(h)
               chain == l.req.chain
               o == verify_inner(chain, l.req.msg, clock, l.status, l.already_seen)
    <2>1. UNCHANGED <<known, revoked>> /\ l.pc = "decide" /\ l.next_link \in Nat
          /\ Len(chain) \in Nat
        BY <1>5, LocalsType DEF Decide, tables, HandlerStates, Busy
    <2>2. /\ Locals(h)'.pc = "persist" /\ Locals(h)'.req = l.req /\ Locals(h)'.outcome = o
          /\ Locals(h)'.revoked_at_start = l.revoked_at_start
        BY <1>5, AfterDecide
    <2>3. /\ l.next_link > Len(chain)
          /\ \A i \in 1 .. Len(chain) : i < l.next_link /\ chain[i].parses =>
                chain[i].delegation_id \in l.status
                \/ chain[i].delegation_id \in known \ l.revoked_at_start
        BY <2>1 DEF StatusInv, Collected
    <2>4. ASSUME o = "ok", NEW i \in 1 .. Len(chain)
          PROVE  chain[i].delegation_id \in known \ l.revoked_at_start
        <3>1. link_failure(chain, i, clock, l.status) = "ok"
            BY <2>1, <2>4, OkMeansEveryCheckPassed
        <3>2. chain[i].parses /\ chain[i].delegation_id \notin l.status
            BY <3>1 DEF link_failure
        <3>3. i < l.next_link
            BY <2>1, <2>3
        <3>4. QED  BY <2>3, <3>2, <3>3
    <2> HIDE DEF o
    <2>5. Collected(Locals(h)', known, revoked) /\ Stands(Locals(h)', known)
        BY <2>2, <2>4 DEF Collected, Stands
    <2>6. QED  BY <1>5, <2>1, <2>5, AfterDecide, OneHandlerReads
<1>6. ASSUME NEW h \in Handlers, Persist(h) \/ Lose(h) PROVE StatusInv'
    <2>1. UNCHANGED <<known, revoked>>
        BY <1>6 DEF Persist, Lose
    <2>2. PICK a : Reply(h, a) /\ (a = "ok" => a = Locals(h).outcome /\ Locals(h).pc = "persist")
        BY <1>6 DEF Persist, Lose
    <2>3. Stands(Locals(h), known)
        BY DEF StatusInv
    <2>4. Collected(Locals(h)', known, revoked) /\ Stands(Locals(h)', known)
        BY <2>2, <2>3, AfterReply DEF Collected, Stands
    <2>5. QED  BY <2>1, <2>2, <2>4, AfterReply, OneHandlerReads
<1>7. ASSUME UNCHANGED handler, known \subseteq known', revoked \subseteq revoked' PROVE StatusInv'
    BY <1>7, RowsOnlyGrow DEF StatusInv, Locals
<1>8. ASSUME NEW link \in Pairable, Pair(link) PROVE StatusInv'
    BY <1>7, <1>8 DEF Pair
<1>9. ASSUME NEW d \in Revocable, Revoke(d) PROVE StatusInv'
    BY <1>7, <1>9 DEF Revoke
<1>10. CASE Prune \/ Tick \/ UNCHANGED vars
    BY <1>7, <1>10 DEF Prune, Tick, tables, vars
<1>11. QED
    BY <1>1, <1>2, <1>3, <1>4, <1>5, <1>6, <1>8, <1>9, <1>10 DEF Next, Step

\* The collected status stays a lower bound of what was revoked or unknown when
\* the request arrived.
THEOREM StatusInvariant == Spec => []StatusInv
<1>1. Init => StatusInv
    BY DEF Init, StatusInv, Collected, Stands, Locals, Idle
<1>2. QED  BY <1>1, StatusInvStep, TypeCorrect, PTL DEF Spec

\* Every delegation of an accepted chain has a row, and none was revoked when
\* the request arrived, although the rows are read one await at a time.
THEOREM AcceptedChainsAreCurrent == Spec => []AcceptedOnCurrentStatus
<1>1. StatusInv => AcceptedOnCurrentStatus
    BY StatusInvMeans
<1>2. QED  BY <1>1, StatusInvariant, PTL

-----------------------------------------------------------------------------
\* What an accepting receipt says, and that its message was granted before.
LEMMA ReceiptFacts ==
    ASSUME NEW l
    PROVE  /\ receipt_of(l).outcome = l.outcome
           /\ receipt_of(l).request_digest = l.req.msg
           /\ l.outcome = "ok" => receipt_of(l).delegation_ids =
                  {l.req.chain[i].delegation_id : i \in 1 .. Len(l.req.chain)}
    BY DEF receipt_of, issue_receipt

\* The parts of the receipt invariant that are about what is in the table.
ReceiptInv == ReceiptsMatchGrants /\ ReceiptsTellAnswers

\* No receipt is added, no handler gets one to store, and grants only grow.
LEMMA NoNewReceipt ==
    ASSUME ReceiptInv, UNCHANGED receipts,
           \A m \in Messages : granted[m] # 0 => granted'[m] # 0,
           \A g \in Handlers : HoldsReceipt(g)' =>
               HoldsReceipt(g) /\ Locals(g)' = Locals(g) /\ Locals(g).req.msg \in Messages,
           \A g \in Handlers : Locals(g)'.pc = "replied" /\ Locals(g)'.outcome = "ok" =>
               Locals(g)' = Locals(g)
    PROVE  ReceiptInv'
<1>1. ReceiptsMatchGrants'
    BY DEF ReceiptInv, ReceiptsMatchGrants
<1>2. OneAcceptedReceiptPerMessage'
    BY DEF ReceiptInv, ReceiptsTellAnswers, OneAcceptedReceiptPerMessage
<1>3. AcceptedAnswerHasReceipt'
    BY DEF ReceiptInv, ReceiptsTellAnswers, AcceptedAnswerHasReceipt
<1>4. QED  BY <1>1, <1>2, <1>3 DEF ReceiptInv, ReceiptsTellAnswers

\* A stored receipt is the only accepting one of its message.
LEMMA ReceiptStored ==
    ASSUME TypeOK, ReceiptInv, NEW h \in Handlers, Locals(h).pc = "persist",
           receipts' = Append(receipts, receipt_of(Locals(h))), UNCHANGED granted,
           NEW a, Reply(h, a), a = "ok" => Locals(h).outcome = "ok"
    PROVE  ReceiptInv'
<1> DEFINE l == Locals(h)
           new == receipt_of(l)
           last == Len(receipts) + 1
<1>1. new.outcome = l.outcome /\ new.request_digest = l.req.msg
      /\ (l.outcome = "ok" => new.delegation_ids =
                  {l.req.chain[i].delegation_id : i \in 1 .. Len(l.req.chain)})
    BY ReceiptFacts
<1>2. l.req \in Requests /\ l.req.msg \in Messages
    BY LocalsType DEF Busy
<1>3. /\ Locals(h)'.pc = "replied" /\ Locals(h)'.req = l.req /\ Locals(h)'.outcome = a
      /\ \A g \in Handlers \ {h} : Locals(g)' = Locals(g)
    BY AfterReply
<1>4. l.outcome = "ok" =>
        /\ granted[l.req.msg] # 0
        /\ \A n \in DOMAIN receipts : receipts[n].outcome = "ok" =>
              receipts[n].request_digest # l.req.msg
        /\ \A g \in Handlers : HoldsReceipt(g) /\ Locals(g).req.msg = l.req.msg => g = h
    BY DEF ReceiptInv, ReceiptsMatchGrants, HoldsReceipt
<1>5. \A g \in Handlers : HoldsReceipt(g)' => g # h /\ HoldsReceipt(g) /\ Locals(g)' = Locals(g)
    BY <1>3 DEF HoldsReceipt
<1>6. /\ last \in DOMAIN receipts' /\ receipts'[last] = new
      /\ \A n \in DOMAIN receipts : n \in DOMAIN receipts' /\ receipts'[n] = receipts[n]
      /\ \A n \in DOMAIN receipts' : n = last \/ n \in DOMAIN receipts
    BY <1>2, ReceiptType, AppendType
<1> HIDE DEF new, last
<1>7. ReceiptsMatchGrants'
    <2>1. ASSUME NEW n \in DOMAIN receipts', receipts'[n].outcome = "ok"
          PROVE  /\ receipts'[n].request_digest \in Messages
                 /\ granted'[receipts'[n].request_digest] # 0
        BY <1>1, <1>2, <1>4, <1>6, <2>1 DEF ReceiptInv, ReceiptsMatchGrants
    <2>2. ASSUME NEW g \in Handlers, HoldsReceipt(g)'
          PROVE  /\ granted'[Locals(g)'.req.msg] # 0
                 /\ \A n \in DOMAIN receipts' : receipts'[n].outcome = "ok" =>
                        receipts'[n].request_digest # Locals(g)'.req.msg
                 /\ \A f \in Handlers :
                        HoldsReceipt(f)' /\ Locals(f)'.req.msg = Locals(g)'.req.msg => f = g
        <3>1. g # h /\ HoldsReceipt(g) /\ Locals(g)' = Locals(g)
            BY <1>5, <2>2
        <3>2. /\ granted[Locals(g).req.msg] # 0
              /\ \A n \in DOMAIN receipts : receipts[n].outcome = "ok" =>
                    receipts[n].request_digest # Locals(g).req.msg
              /\ \A f \in Handlers : HoldsReceipt(f) /\ Locals(f).req.msg = Locals(g).req.msg
                                        => f = g
            BY <3>1 DEF ReceiptInv, ReceiptsMatchGrants
        <3>3. new.outcome = "ok" => new.request_digest # Locals(g).req.msg
            BY <1>1, <1>4, <3>1
        <3>4. QED  BY <1>5, <1>6, <3>1, <3>2, <3>3
    <2>3. QED  BY <2>1, <2>2 DEF ReceiptsMatchGrants
<1>8. OneAcceptedReceiptPerMessage'
    <2>1. \A n \in DOMAIN receipts : receipts[n].outcome = "ok" /\ new.outcome = "ok" =>
              receipts[n].request_digest # new.request_digest
        BY <1>1, <1>4
    <2>2. QED
        BY <1>6, <2>1 DEF ReceiptInv, ReceiptsTellAnswers, OneAcceptedReceiptPerMessage
<1>9. AcceptedAnswerHasReceipt'
    <2>1. ASSUME NEW g \in Handlers, Locals(g)'.pc = "replied", Locals(g)'.outcome = "ok"
          PROVE  \E n \in DOMAIN receipts' :
                    /\ receipts'[n].outcome = "ok"
                    /\ receipts'[n].request_digest = Locals(g)'.req.msg
                    /\ receipts'[n].delegation_ids = {Locals(g)'.req.chain[i].delegation_id :
                                                i \in 1 .. Len(Locals(g)'.req.chain)}
        <3>1. CASE g = h
            <4>1. l.outcome = "ok" /\ Locals(g)'.req = l.req
                BY <1>3, <2>1, <3>1
            <4>2. QED  BY <1>1, <1>6, <4>1
        <3>2. CASE g # h
            <4>1. Locals(g)' = Locals(g)
                BY <1>3, <3>2
            <4>2. \E n \in DOMAIN receipts :
                    /\ receipts[n].outcome = "ok"
                    /\ receipts[n].request_digest = Locals(g).req.msg
                    /\ receipts[n].delegation_ids = {Locals(g).req.chain[i].delegation_id :
                                                i \in 1 .. Len(Locals(g).req.chain)}
                BY <2>1, <4>1 DEF ReceiptInv, ReceiptsTellAnswers, AcceptedAnswerHasReceipt
            <4>3. QED  BY <1>6, <4>1, <4>2
        <3>3. QED  BY <3>1, <3>2
    <2>2. QED  BY <2>1 DEF AcceptedAnswerHasReceipt
<1>10. QED  BY <1>7, <1>8, <1>9 DEF ReceiptInv, ReceiptsTellAnswers

\* An accepting decision is the first grant of its message, so nothing in the
\* table and nobody else speaks of it.
LEMMA ReceiptGranted ==
    ASSUME TypeOK, NoReplay', ReceiptInv, NEW h \in Handlers, Decide(h)
    PROVE  ReceiptInv'
<1> DEFINE l == Locals(h)
           o == verify_inner(l.req.chain, l.req.msg, clock, l.status, l.already_seen)
<1>1. l.req.msg \in Messages /\ UNCHANGED receipts /\ granted \in [Messages -> Nat]
    BY LocalsType DEF Decide, Busy, tables, TypeOK
<1>2. /\ Locals(h)'.pc = "persist" /\ Locals(h)'.req = l.req /\ Locals(h)'.outcome = o
      /\ granted' = IF o = "ok" THEN [granted EXCEPT ![l.req.msg] = @ + 1] ELSE granted
    BY AfterDecide
<1>3. \A g \in Handlers \ {h} : Locals(g)' = Locals(g)
    BY AfterDecide
<1>4. \A g \in Handlers : HoldsReceipt(g) => Locals(g).req.msg \in Messages
    BY LocalsType DEF HoldsReceipt, Busy
<1> HIDE DEF o
<1>5. CASE o # "ok"
    <2>1. \A g \in Handlers : HoldsReceipt(g)' => HoldsReceipt(g) /\ Locals(g)' = Locals(g)
        BY <1>2, <1>3, <1>5 DEF HoldsReceipt
    <2>2. \A g \in Handlers : Locals(g)'.pc = "replied" => Locals(g)' = Locals(g)
        BY <1>2, <1>3
    <2>3. UNCHANGED granted
        BY <1>2, <1>5
    <2>4. QED  BY <1>1, <1>4, <2>1, <2>2, <2>3, NoNewReceipt
<1>6. CASE o = "ok"
    <2> DEFINE m == l.req.msg
    <2>1. granted' = [granted EXCEPT ![m] = granted[m] + 1]
        BY <1>2, <1>6
    <2>2. granted[m] \in Nat /\ granted'[m] = granted[m] + 1
          /\ \A n \in Messages \ {m} : granted'[n] = granted[n]
        BY <1>1, <2>1
    <2>3. granted[m] = 0 /\ granted'[m] # 0
        <3>1. granted'[m] <= 1
            BY <1>1 DEF NoReplay
        <3>2. QED  BY <2>2, <3>1
    <2>4. \A n \in DOMAIN receipts : receipts[n].outcome = "ok" =>
              /\ receipts[n].request_digest \in Messages /\ receipts[n].request_digest # m
              /\ granted'[receipts[n].request_digest] # 0
        BY <2>2, <2>3 DEF ReceiptInv, ReceiptsMatchGrants
    <2>5. ASSUME NEW g \in Handlers, g # h, HoldsReceipt(g)'
          PROVE  /\ HoldsReceipt(g) /\ Locals(g)' = Locals(g) /\ Locals(g).req.msg # m
                 /\ granted'[Locals(g).req.msg] # 0
        <3>1. HoldsReceipt(g) /\ Locals(g)' = Locals(g)
            BY <1>3, <2>5 DEF HoldsReceipt
        <3>2. granted[Locals(g).req.msg] # 0
            BY <3>1 DEF ReceiptInv, ReceiptsMatchGrants
        <3>3. QED  BY <1>4, <2>2, <2>3, <3>1, <3>2
    <2>6. ReceiptsMatchGrants'
        <3>1. ASSUME NEW g \in Handlers, HoldsReceipt(g)'
              PROVE  /\ granted'[Locals(g)'.req.msg] # 0
                     /\ \A n \in DOMAIN receipts : receipts[n].outcome = "ok" =>
                            receipts[n].request_digest # Locals(g)'.req.msg
                     /\ \A f \in Handlers :
                            HoldsReceipt(f)' /\ Locals(f)'.req.msg = Locals(g)'.req.msg => f = g
            <4>1. CASE g = h
                BY <1>2, <2>3, <2>4, <2>5, <4>1
            <4>2. CASE g # h
                <5>1. \A n \in DOMAIN receipts : receipts[n].outcome = "ok" =>
                          receipts[n].request_digest # Locals(g).req.msg
                    BY <2>5, <3>1, <4>2 DEF ReceiptInv, ReceiptsMatchGrants
                <5>2. \A f \in Handlers : HoldsReceipt(f)' /\ Locals(f)'.req.msg = Locals(g).req.msg
                                              => f = g
                    BY <1>2, <2>5, <3>1, <4>2 DEF ReceiptInv, ReceiptsMatchGrants
                <5>3. QED  BY <2>5, <3>1, <4>2, <5>1, <5>2
            <4>3. QED  BY <4>1, <4>2
        <3>2. QED  BY <1>1, <2>4, <3>1 DEF ReceiptsMatchGrants
    <2>7. OneAcceptedReceiptPerMessage'
        BY <1>1 DEF ReceiptInv, ReceiptsTellAnswers, OneAcceptedReceiptPerMessage
    <2>8. AcceptedAnswerHasReceipt'
        <3>1. \A g \in Handlers : Locals(g)'.pc = "replied" => Locals(g)' = Locals(g)
            BY <1>2, <1>3
        <3>2. AcceptedAnswerHasReceipt /\ UNCHANGED receipts
            BY <1>1 DEF ReceiptInv, ReceiptsTellAnswers
        <3>3. ASSUME NEW g \in Handlers, Locals(g)'.pc = "replied", Locals(g)'.outcome = "ok"
              PROVE  \E n \in DOMAIN receipts' :
                        /\ receipts'[n].outcome = "ok"
                        /\ receipts'[n].request_digest = Locals(g)'.req.msg
                        /\ receipts'[n].delegation_ids = {Locals(g)'.req.chain[i].delegation_id :
                                                    i \in 1 .. Len(Locals(g)'.req.chain)}
            <4>1. Locals(g)' = Locals(g)
                BY <3>1, <3>3
            <4>2. QED  BY <3>2, <3>3, <4>1 DEF AcceptedAnswerHasReceipt
        <3>4. QED  BY <3>3 DEF AcceptedAnswerHasReceipt
    <2>9. QED  BY <2>6, <2>7, <2>8 DEF ReceiptInv, ReceiptsTellAnswers
<1>7. QED  BY <1>5, <1>6

LEMMA ReceiptInvStep ==
    ASSUME TypeOK, NoReplay', ReceiptInv, [Next]_vars
    PROVE  ReceiptInv'
<1>0. \A g \in Handlers : HoldsReceipt(g) => Locals(g).req.msg \in Messages
    BY LocalsType DEF HoldsReceipt, Busy
<1>1. ASSUME NEW h \in Handlers, UNCHANGED <<receipts, granted>>,
             \A g \in Handlers \ {h} : Locals(g)' = Locals(g),
             Locals(h)'.pc # "persist", Locals(h)'.pc = "replied" => Locals(h)'.outcome # "ok"
      PROVE  ReceiptInv'
    <2>1. \A g \in Handlers : HoldsReceipt(g)' => HoldsReceipt(g) /\ Locals(g)' = Locals(g)
        BY <1>1 DEF HoldsReceipt
    <2>2. \A g \in Handlers : Locals(g)'.pc = "replied" /\ Locals(g)'.outcome = "ok" =>
              Locals(g)' = Locals(g)
        BY <1>1
    <2>3. QED  BY <1>0, <1>1, <2>1, <2>2, NoNewReceipt
<1>2. ASSUME NEW h \in Handlers, NEW r \in Requests, Receive(h, r) PROVE ReceiptInv'
    <2>1. UNCHANGED <<receipts, granted>>
        BY <1>2 DEF Receive, tables
    <2>2. QED  BY <1>1, <1>2, <2>1, AfterReceive
<1>3. ASSUME NEW h \in Handlers, FetchKey(h) PROVE ReceiptInv'
    <2>1. UNCHANGED <<receipts, granted>>
        BY <1>3 DEF FetchKey, tables
    <2>2. QED  BY <1>1, <1>3, <2>1, AfterFetchKey
<1>4. ASSUME NEW h \in Handlers, FetchStatus(h) PROVE ReceiptInv'
    <2>1. UNCHANGED <<receipts, granted>>
        BY <1>4 DEF FetchStatus, tables
    <2>2. Locals(h)'.pc \in {"nonce", "status"}
          /\ \A g \in Handlers \ {h} : Locals(g)' = Locals(g)
        BY <1>4, AfterFetchStatus
    <2>3. QED  BY <1>1, <2>1, <2>2
<1>5. ASSUME NEW h \in Handlers, PrecheckNonce(h) PROVE ReceiptInv'
    <2>1. UNCHANGED <<receipts, granted>>
        BY <1>5 DEF PrecheckNonce
    <2>2. QED  BY <1>1, <1>5, <2>1, AfterPrecheck
<1>6. ASSUME NEW h \in Handlers, Persist(h) PROVE ReceiptInv'
    BY <1>6, ReceiptStored DEF Persist
<1>7. ASSUME NEW h \in Handlers, Lose(h) PROVE ReceiptInv'
    <2>1. UNCHANGED granted /\ Reply(h, "500")
        BY <1>7 DEF Lose
    <2>2. CASE UNCHANGED receipts
        BY <1>1, <2>1, <2>2, AfterReply
    <2>3. CASE Locals(h).pc = "persist" /\ receipts' = Append(receipts, receipt_of(Locals(h)))
        BY <2>1, <2>3, ReceiptStored
    <2>4. QED  BY <1>7, <2>2, <2>3 DEF Lose
<1>8. ASSUME UNCHANGED <<receipts, granted, handler>> PROVE ReceiptInv'
    BY <1>0, <1>8, NoNewReceipt DEF HoldsReceipt, Locals
<1>9. ASSUME NEW link \in Pairable, Pair(link) PROVE ReceiptInv'
    BY <1>8, <1>9 DEF Pair
<1>10. ASSUME NEW d \in Revocable, Revoke(d) PROVE ReceiptInv'
    BY <1>8, <1>10 DEF Revoke
<1>11. CASE Prune \/ Tick \/ UNCHANGED vars
    BY <1>8, <1>11 DEF Prune, Tick, tables, vars
<1>12. QED
    BY <1>2, <1>3, <1>4, <1>5, <1>6, <1>7, <1>9, <1>10, <1>11, ReceiptGranted DEF Next, Step

\* Receipts, grants and answers agree in every state.
THEOREM ReceiptInvariant == Spec => []ReceiptInv
<1>1. Init => ReceiptInv
    BY DEF Init, ReceiptInv, ReceiptsMatchGrants, ReceiptsTellAnswers, AcceptedAnswerHasReceipt,
           OneAcceptedReceiptPerMessage, HoldsReceipt, Locals, Idle
<1>2. TypeOK /\ NoReplay' /\ ReceiptInv /\ [Next]_vars => ReceiptInv'
    BY ReceiptInvStep
<1>3. QED  BY <1>1, <1>2, TypeCorrect, ReplaySafe, PTL DEF Spec

\* A client that was told "accepted" finds the receipt of its message and chain
\* stored, and no message has two accepting receipts, whatever was retried.
THEOREM ReceiptsAreTrue == Spec => []ReceiptsTellAnswers
<1>1. ReceiptInv => ReceiptsTellAnswers
    BY DEF ReceiptInv
<1>2. QED  BY <1>1, ReceiptInvariant, PTL

\* db.rs, main.rs: types, replay, status and receipts together, as the run
\* checks them.
THEOREM ServiceInvariant == Spec => []ServiceInv
<1>1. StatusInv => StatusIsNotStale
    BY StatusInvMeans
<1>2. ReceiptInv => ReceiptsMatchGrants
    BY DEF ReceiptInv
<1>3. TypeOK /\ ReplayInv /\ StatusInv /\ ReceiptInv => ServiceInv
    BY <1>1, <1>2 DEF ServiceInv
<1>4. QED
    BY <1>3, TypeCorrect, ReplayInvariant, StatusInvariant, ReceiptInvariant, PTL
=============================================================================
