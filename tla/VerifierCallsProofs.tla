------------------------- MODULE VerifierCallsProofs ------------------------
(***************************************************************************)
(* What concurrent calls of the core verifier accept, for any number of    *)
(* threads and calls, any presentations and revocations that land anywhere *)
(* in the walk; and the chains of scopes the walk lets through.            *)
(***************************************************************************)
EXTENDS VerifierCalls, ScopeChain, WellFoundedInduction, TLAPS

\* Every non-empty set of naturals has a least element.
LEMMA LeastNatural ==
    ASSUME NEW S, S \subseteq Nat, S # {}
    PROVE  \E k \in S : \A j \in S : k <= j
<1>1. PICK k \in S : \A j \in S : ~(<<j, k>> \in OpToRel(<, Nat))
    BY NatLessThanWellFounded, WFMin
<1>2. \A j \in S : ~(j < k)
    BY <1>1 DEF OpToRel
<1>3. QED  BY <1>2

-----------------------------------------------------------------------------
\* A clock text that does not wrap stands for its minutes.
LEMMA MinutesOf ==
    ASSUME NEW hm, hm_carries_nothing(hm)
    PROVE  minutes_of(hm) = hm[1] * 60 + hm[2] /\ minutes_of(hm) \in Int
BY DEF minutes_of, hm_carries_nothing

\* If no minute carries, the tuple order of Rust is the order of the minutes.
LEMMA LexOrderIsMinuteOrder ==
    ASSUME NEW a, hm_carries_nothing(a), NEW b, hm_carries_nothing(b), hm_leq(a, b)
    PROVE  minutes_of(a) <= minutes_of(b)
<1>1. ASSUME NEW h \in Nat, NEW m \in 0 .. 59,
             NEW k \in Nat, NEW n \in 0 .. 59,
             h < k \/ (h = k /\ m <= n)
      PROVE  h * 60 + m <= k * 60 + n
    BY <1>1
<1>2. a[1] < b[1] \/ (a[1] = b[1] /\ a[2] <= b[2])
    BY DEF hm_leq
<1>3. a[1] * 60 + a[2] <= b[1] * 60 + b[2]
    BY <1>1, <1>2 DEF hm_carries_nothing
<1>4. QED  BY <1>3, MinutesOf

\* A child window the containment check of narrows accepts lies inside the
\* parent window.
LEMMA ContainedWindow ==
    ASSUME NEW t \in Instants, NEW cw, NEW pw,
           window_contained(cw, pw), timestamp_in_window(t, cw),
           hm_ordered(cw.start), hm_ordered(cw.end),
           hm_ordered(pw.start), hm_ordered(pw.end)
    PROVE  timestamp_in_window(t, pw)
<1> DEFINE local == LocalMinute(cw.timezone, t)
           cs == parse_hm(cw.start)
           ce == parse_hm(cw.end)
           ps == parse_hm(pw.start)
           pe == parse_hm(pw.end)
<1>1. /\ cs # None /\ ce # None /\ ps # None /\ pe # None
      /\ hm_leq(ps, cs) /\ hm_leq(ce, pe)
      /\ pw.timezone = cw.timezone /\ cw.days \subseteq pw.days
    BY DEF window_contained
<1>2. /\ cw.timezone \in Zones
      /\ (local \div 1440) % 7 \in cw.days
      /\ local % 1440 >= minutes_of(cs)
      /\ local % 1440 <= minutes_of(ce)
    BY DEF timestamp_in_window
<1>3. /\ hm_carries_nothing(cs) /\ hm_carries_nothing(ce)
      /\ hm_carries_nothing(ps) /\ hm_carries_nothing(pe)
    BY <1>1 DEF hm_ordered
<1>4. minutes_of(ps) <= minutes_of(cs) /\ minutes_of(ce) <= minutes_of(pe)
    BY <1>1, <1>3, LexOrderIsMinuteOrder
<1>5. /\ minutes_of(ps) \in Int /\ minutes_of(cs) \in Int
      /\ minutes_of(ce) \in Int /\ minutes_of(pe) \in Int
    BY <1>3, MinutesOf
<1>6. local % 1440 \in Int
    <2>1. local \in Int  BY <1>2, InstantsAssumption
    <2> HIDE DEF local
    <2>2. QED  BY <2>1
<1>7. local % 1440 >= minutes_of(ps) /\ local % 1440 <= minutes_of(pe)
    <2> HIDE DEF local, cs, ce, ps, pe
    <2>1. QED  BY <1>2, <1>4, <1>5, <1>6
<1>8. QED  BY <1>1, <1>2, <1>7 DEF timestamp_in_window

\* What a ceiling allows, a ceiling it is within allows too.
LEMMA AmountWithinTransitive ==
    ASSUME NEW a, NEW b, NEW c, a.value \in Int, b.value \in Int, c.value \in Int,
           amount_within(a, b), amount_within(b, c)
    PROVE  amount_within(a, c)
BY DEF amount_within, valid_amount

\* One step of narrowing: what the child authorises, the parent authorises,
\* if the child adds no ceiling of its own and no minute of a clock text exceeds
\* 59 (scope.rs matches and narrows).
THEOREM NarrowsSound ==
    ASSUME NEW p, NEW c, NEW r, NEW t \in Instants,
           ScopeAmounts(p), ScopeAmounts(c), RequestAmounts(r),
           clock_texts_ordered(p), clock_texts_ordered(c), money_kept(p, c),
           narrows(p, c), matches(c, r, t)
    PROVE  matches(p, r, t)
<1>1. r.action \in p.actions
    BY DEF narrows, matches
<1>2. p.resources # None => r.resource # None /\ r.resource \in p.resources
    BY DEF narrows, matches, restated_within
<1>3. IF p.max_amount # None
        THEN amount_within(r.amount, p.max_amount)
        ELSE r.amount = None
    <2>1. CASE p.max_amount # None
        <3>1. amount_within(c.max_amount, p.max_amount)
            BY <2>1 DEF narrows
        <3>2. c.max_amount # None
            BY <3>1 DEF amount_within
        <3>3. amount_within(r.amount, c.max_amount)
            BY <3>2 DEF matches
        <3>4. r.amount # None
            BY <3>3 DEF amount_within
        <3>5. amount_within(r.amount, p.max_amount)
            BY <2>1, <3>1, <3>2, <3>3, <3>4, AmountWithinTransitive
               DEF ScopeAmounts, RequestAmounts
        <3>6. QED  BY <2>1, <3>5
    <2>2. CASE p.max_amount = None
        <3>1. c.max_amount = None  BY <2>2 DEF money_kept
        <3>2. QED  BY <2>2, <3>1 DEF matches
    <2>3. QED  BY <2>1, <2>2
<1>4. matches_counterparty(p, r.counterparty)
    <2>1. p.deny # None /\ r.counterparty # None => r.counterparty \notin p.deny
        BY DEF narrows, matches, matches_counterparty
    <2>2. p.allow # None => r.counterparty # None /\ r.counterparty \in p.allow
        BY DEF narrows, matches, matches_counterparty, restated_within
    <2>3. QED  BY <2>1, <2>2 DEF matches_counterparty
<1>5. p.data_categories # None /\ r.data_categories # None =>
        r.data_categories \subseteq p.data_categories
    BY DEF narrows, matches, restated_within
<1>6. p.time_windows # None =>
        \E w \in p.time_windows : timestamp_in_window(t, w)
    <2> SUFFICES ASSUME p.time_windows # None
                 PROVE  \E w \in p.time_windows : timestamp_in_window(t, w)
        OBVIOUS
    <2>1. /\ c.time_windows # None
          /\ \A cw \in c.time_windows :
                \E pw \in p.time_windows : window_contained(cw, pw)
        BY DEF narrows
    <2>2. PICK cw \in c.time_windows : timestamp_in_window(t, cw)
        BY <2>1 DEF matches
    <2>3. PICK pw \in p.time_windows : window_contained(cw, pw)
        BY <2>1
    <2>4. timestamp_in_window(t, pw)
        BY <2>1, <2>2, <2>3, ContainedWindow DEF clock_texts_ordered
    <2>5. QED  BY <2>4
<1>7. QED  BY <1>1, <1>2, <1>3, <1>4, <1>5, <1>6 DEF matches

-----------------------------------------------------------------------------
\* What an integrity loop checks pair by pair holds of the whole chain.
LEMMA AlongTheChain ==
    ASSUME NEW n \in Nat, n # 0, NEW S, 1 \in S,
           \A j \in 1 .. n - 1 : j \in S => j + 1 \in S
    PROVE  \A j \in 1 .. n : j \in S
<1> DEFINE out == {j \in 1 .. n : j \notin S}
<1>1. SUFFICES ASSUME out # {} PROVE FALSE
    OBVIOUS
<1>2. out \subseteq Nat
    OBVIOUS
<1>3. PICK k \in out : \A j \in out : k <= j
    <2> HIDE DEF out
    <2>1. QED  BY <1>1, <1>2, LeastNatural
<1>4. k \in 1 .. n /\ k \notin S
    OBVIOUS
<1>5. k # 1 /\ k - 1 \in 1 .. n - 1
    BY <1>4
<1>6. k - 1 \in 1 .. n /\ k - 1 \notin out
    BY <1>3, <1>4, <1>5
<1>7. k - 1 \in S
    BY <1>6
<1>8. (k - 1) + 1 \in S
    BY <1>5, <1>7
<1>9. QED  BY <1>4, <1>8

-----------------------------------------------------------------------------
\* The answers of the checks are the documented outcomes.
LEMMA FailureTypes ==
    ASSUME NEW c, NEW i, NEW now, NEW known, NEW leaf, NEW msg, NEW taken
    PROVE  /\ link_failure(c, i, now, known) \in Outcomes
           /\ integrity_failure(c, i) \in Outcomes
           /\ message_failure(leaf, msg, now) \in Outcomes
           /\ final_failure(leaf, msg, now, taken) \in Outcomes
<1>1. link_failure(c, i, now, known) \in Outcomes
    BY DEF link_failure, Outcomes
<1>2. integrity_failure(c, i) \in Outcomes
    BY DEF integrity_failure, Outcomes
<1>3. message_failure(leaf, msg, now) \in Outcomes
    BY DEF message_failure, Outcomes
<1>4. final_failure(leaf, msg, now, taken) \in Outcomes
    BY DEF final_failure, Outcomes
<1>5. QED  BY <1>1, <1>2, <1>3, <1>4

\* One call is replaced; the others stay.
LEMMA CallUpdate ==
    ASSUME TypeOK, NEW t \in Threads, NEW c \in Calls, call' = [call EXCEPT ![t] = c]
    PROVE  /\ call' \in [Threads -> Calls]
           /\ call'[t] = c
           /\ \A u \in Threads \ {t} : call'[u] = call[u]
BY DEF TypeOK

\* A call that goes on keeps what it was given.
LEMMA ContinueMoves ==
    ASSUME TypeOK, NEW t \in Threads, NEW phase \in Phases, NEW i \in Nat, Continue(t, phase, i)
    PROVE  /\ call' \in [Threads -> Calls]
           /\ \A u \in Threads \ {t} : call'[u] = call[u]
           /\ call'[t].phase = phase /\ call'[t].i = i
           /\ call'[t].p = call[t].p /\ call'[t].now = call[t].now
           /\ call'[t].revoked_at_start = call[t].revoked_at_start
           /\ receipts' = receipts
<1> DEFINE c == [call[t] EXCEPT !.phase = phase, !.i = i]
<1>1. call[t] \in Calls
    BY DEF TypeOK
<1>2. /\ c \in Calls /\ c.phase = phase /\ c.i = i /\ c.p = call[t].p
      /\ c.now = call[t].now /\ c.revoked_at_start = call[t].revoked_at_start
    BY <1>1 DEF Calls
<1>3. call' = [call EXCEPT ![t] = c] /\ receipts' = receipts
    BY DEF Continue
<1> HIDE DEF c
<1>4. QED  BY <1>2, <1>3, CallUpdate

\* A call that ends answers, and its receipt is the last.
LEMMA FinishMoves ==
    ASSUME TypeOK, NEW t \in Threads, NEW failure \in Outcomes, Finish(t, failure),
           call[t].phase # "idle"
    PROVE  /\ call' \in [Threads -> Calls]
           /\ \A u \in Threads \ {t} : call'[u] = call[u]
           /\ call'[t].phase = "done" /\ call'[t].outcome = failure
           /\ call'[t].p = call[t].p /\ call'[t].now = call[t].now
           /\ call'[t].revoked_at_start = call[t].revoked_at_start
           /\ receipts' \in Seq(Receipts) /\ Len(receipts) \in Nat
           /\ Len(receipts') = Len(receipts) + 1
           /\ \A m \in 1 .. Len(receipts) : receipts'[m] = receipts[m]
           /\ receipts'[Len(receipts) + 1].outcome = failure
           /\ receipts'[Len(receipts) + 1].request_digest = call[t].p.msg
<1> DEFINE c == [call[t] EXCEPT !.phase = "done", !.outcome = failure]
           receipt == issue_receipt(call[t].p.chain, call[t].p.msg, failure, call[t].now)
<1>1. call[t] \in Calls /\ call[t].p \in Presentations /\ call[t].now \in Instants
    BY DEF TypeOK, CallTyped
<1>2. /\ c \in Calls /\ c.phase = "done" /\ c.outcome = failure /\ c.p = call[t].p
      /\ c.now = call[t].now /\ c.revoked_at_start = call[t].revoked_at_start
    BY <1>1 DEF Calls, Phases
<1>3. call' = [call EXCEPT ![t] = c] /\ receipts' = Append(receipts, receipt)
    BY DEF Finish
<1>4. receipt \in Receipts
    BY <1>1 DEF Receipts
<1>5. receipt.outcome = failure /\ receipt.request_digest = call[t].p.msg
    BY DEF issue_receipt
<1>6. receipts \in Seq(Receipts)
    BY DEF TypeOK
<1> HIDE DEF c, receipt
<1>7. /\ receipts' \in Seq(Receipts) /\ Len(receipts) \in Nat
      /\ Len(receipts') = Len(receipts) + 1
      /\ \A m \in 1 .. Len(receipts) : receipts'[m] = receipts[m]
      /\ receipts'[Len(receipts) + 1] = receipt
    BY <1>3, <1>4, <1>6
<1>8. QED  BY <1>2, <1>3, <1>5, <1>7, CallUpdate

-----------------------------------------------------------------------------
\* One call moves on; of the others only what is revoked may have changed.
LEMMA OneMoves ==
    ASSUME TypeOK, WalkIsSound, NEW t \in Threads, clock' \in Instants,
           revoked' \subseteq Delegations, revoked \subseteq revoked',
           call' \in [Threads -> Calls], \A u \in Threads \ {t} : call'[u] = call[u],
           CallTyped(call'[t]), call'[t].revoked_at_start \subseteq revoked', Walked(call'[t]),
           receipts' \in Seq(Receipts)
    PROVE  TypeOK' /\ WalkIsSound'
<1>1. ASSUME NEW u \in Threads
      PROVE  /\ CallTyped(call'[u]) /\ Walked(call'[u])
             /\ call'[u].revoked_at_start \subseteq revoked'
    BY <1>1 DEF TypeOK, WalkIsSound
<1>2. QED  BY <1>1 DEF TypeOK, WalkIsSound

\* What passes on today's revocations passes on those of an earlier moment.
LEMMA PassedBefore ==
    ASSUME NEW links, NEW i, NEW now, NEW today, NEW before, before \subseteq today,
           link_failure(links, i, now, today) = "ok"
    PROVE  link_failure(links, i, now, before) = "ok"
BY DEF link_failure

\* A call that is turned away claims nothing; one that is accepted has passed
\* everything.
LEMMA FinishWalks ==
    ASSUME StoresInv, NEW t \in Threads, NEW failure \in Outcomes, Finish(t, failure),
           call[t].phase # "idle", UNCHANGED <<clock, revoked>>,
           failure = "ok" =>
                /\ call[t].phase = "message"
                /\ message_failure(call[t].p.chain[1], call[t].p.msg, call[t].now) = "ok"
                /\ matches(call[t].p.chain[1].scope, call[t].p.msg.request, call[t].now)
    PROVE  TypeOK' /\ WalkIsSound'
<1> DEFINE c == call[t]
           d == call'[t]
<1>1. /\ call' \in [Threads -> Calls] /\ \A u \in Threads \ {t} : call'[u] = call[u]
      /\ d.phase = "done" /\ d.outcome = failure /\ d.p = c.p /\ d.now = c.now
      /\ d.revoked_at_start = c.revoked_at_start /\ receipts' \in Seq(Receipts)
    BY FinishMoves DEF StoresInv
<1>2. /\ clock' \in Instants /\ revoked' \subseteq Delegations /\ revoked' = revoked
      /\ c.revoked_at_start \subseteq revoked /\ CallTyped(c) /\ Walked(c)
    BY DEF StoresInv, TypeOK, WalkIsSound
<1> HIDE DEF c, d
<1>3. CallTyped(d)
    BY <1>1, <1>2 DEF CallTyped, c
<1>4. Walked(d)
    <2>1. CASE failure # "ok"
        BY <1>1, <2>1 DEF Walked, accepting
    <2>2. CASE failure = "ok"
        <3>1. /\ Len(c.p.chain) # 0 /\ LinksPassed(c, Len(c.p.chain))
              /\ PairsPassed(c, Len(c.p.chain) - 1)
            BY <1>2, <2>2 DEF Walked, c
        <3>2. /\ message_failure(c.p.chain[1], c.p.msg, c.now) = "ok"
              /\ matches(c.p.chain[1].scope, c.p.msg.request, c.now)
            BY <2>2 DEF c
        <3>3. LinksPassed(d, Len(d.p.chain)) /\ PairsPassed(d, Len(d.p.chain) - 1)
            BY <1>1, <3>1 DEF LinksPassed, PairsPassed
        <3>4. QED  BY <1>1, <3>1, <3>2, <3>3 DEF Walked
    <2>3. QED  BY <2>1, <2>2
<1>5. QED  BY <1>1, <1>2, <1>3, <1>4, OneMoves DEF StoresInv, d

LEMMA LinkWalks ==
    ASSUME StoresInv, NEW t \in Threads, CheckLink(t)
    PROVE  TypeOK' /\ WalkIsSound'
<1> DEFINE c == call[t]
           d == call'[t]
           n == Len(c.p.chain)
           failure == IF n = 0 THEN "ChainBroken" ELSE link_failure(c.p.chain, c.i, c.now, revoked)
<1>1. c.phase = "links" /\ UNCHANGED <<clock, revoked, seen>>
    BY DEF CheckLink
<1>2. /\ c \in Calls /\ c.p \in Presentations /\ c.now \in Instants
      /\ c.i = 1 \/ c.i \in 2 .. n
      /\ c.revoked_at_start \subseteq revoked /\ LinksPassed(c, c.i - 1)
      /\ clock \in Instants /\ revoked \subseteq Delegations /\ receipts \in Seq(Receipts)
    BY <1>1 DEF StoresInv, TypeOK, CallTyped, WalkIsSound, Walked
<1>3. n \in Nat /\ c.i \in Nat
    BY <1>2, PresentationsAssumption
<1>4. failure \in Outcomes
    BY FailureTypes DEF Outcomes
<1>5. CASE failure # "ok"
    <2>1. Finish(t, failure)
        BY <1>5 DEF CheckLink
    <2> HIDE DEF failure
    <2>2. QED  BY <1>1, <1>4, <1>5, <2>1, FinishWalks
<1>6. CASE failure = "ok"
    <2>1. n # 0 /\ link_failure(c.p.chain, c.i, c.now, revoked) = "ok"
        BY <1>6
    <2>2. link_failure(c.p.chain, c.i, c.now, c.revoked_at_start) = "ok"
        BY <1>2, <2>1, PassedBefore
    <2>3. LinksPassed(c, c.i)
        <3>1. \A j \in 1 .. c.i : j \in 1 .. c.i - 1 \/ j = c.i
            BY <1>3
        <3>2. QED  BY <1>2, <2>2, <3>1 DEF LinksPassed
    <2>4. CASE c.i < n
        <3>1. Continue(t, "links", c.i + 1)
            BY <1>6, <2>4 DEF CheckLink
        <3>2. "links" \in Phases /\ c.i + 1 \in Nat
            BY <1>3 DEF Phases
        <3>3. /\ call' \in [Threads -> Calls] /\ \A u \in Threads \ {t} : call'[u] = call[u]
              /\ d.phase = "links" /\ d.i = c.i + 1 /\ d.p = c.p /\ d.now = c.now
              /\ d.revoked_at_start = c.revoked_at_start /\ receipts' = receipts
            BY <3>1, <3>2, ContinueMoves DEF StoresInv
        <3> HIDE DEF c, d, failure
        <3>4. CallTyped(d)
            BY <1>2, <1>3, <2>4, <3>3 DEF CallTyped
        <3>5. d.i - 1 = c.i
            BY <1>3, <3>3
        <3>6. Walked(d)
            BY <2>3, <3>3, <3>5 DEF Walked, LinksPassed, accepting
        <3>7. QED  BY <1>1, <1>2, <3>3, <3>4, <3>6, OneMoves DEF StoresInv, d
    <2>5. CASE ~(c.i < n)
        <3> DEFINE phase == IF n = 1 THEN "message" ELSE "integrity"
        <3>1. Continue(t, phase, 1)
            BY <1>6, <2>5 DEF CheckLink
        <3>2. phase \in Phases /\ 1 \in Nat /\ phase \in {"message", "integrity"}
            BY DEF Phases
        <3>3. c.i = n
            BY <1>2, <1>3, <2>1, <2>5
        <3>4. phase = "message" => n = 1
            OBVIOUS
        <3>5. phase = "integrity" => n # 1
            OBVIOUS
        <3> HIDE DEF phase
        <3>6. /\ call' \in [Threads -> Calls] /\ \A u \in Threads \ {t} : call'[u] = call[u]
              /\ d.phase = phase /\ d.i = 1 /\ d.p = c.p /\ d.now = c.now
              /\ d.revoked_at_start = c.revoked_at_start /\ receipts' = receipts
            BY <3>1, <3>2, ContinueMoves DEF StoresInv
        <3> HIDE DEF c, d, failure
        <3>7. CallTyped(d)
            <4>1. d.phase # "links" /\ d.p \in Presentations /\ d.now \in Instants
                BY <1>2, <3>2, <3>6
            <4>2. d.phase = "integrity" => d.i \in 1 .. Len(d.p.chain) - 1
                <5>1. Len(d.p.chain) = n
                    BY <3>6
                <5> HIDE DEF n
                <5>2. d.phase = "integrity" => n \in Nat /\ n # 0 /\ n # 1 /\ d.i = 1
                    BY <1>3, <2>1, <3>5, <3>6
                <5>3. d.phase = "integrity" => d.i \in 1 .. n - 1
                    BY <5>2
                <5>4. QED  BY <5>1, <5>3
            <4>3. QED  BY <4>1, <4>2 DEF CallTyped
        <3>8. LinksPassed(d, n)
            BY <2>3, <3>3, <3>6 DEF LinksPassed
        <3>9. (phase = "message" => PairsPassed(d, n - 1)) /\ PairsPassed(d, d.i - 1)
            <4>1. 1 .. 0 = {} /\ d.i - 1 = 0 /\ (phase = "message" => n - 1 = 0)
                BY <3>4, <3>6
            <4>2. QED  BY <4>1 DEF PairsPassed
        <3>10. Walked(d)
            <4>1. d.phase # "links" /\ ~accepting(d) /\ Len(d.p.chain) = n
                BY <3>2, <3>6 DEF accepting
            <4>2. QED  BY <2>1, <3>6, <3>8, <3>9, <4>1 DEF Walked
        <3>11. QED  BY <1>1, <1>2, <3>6, <3>7, <3>10, OneMoves DEF StoresInv, d
    <2>6. QED  BY <2>4, <2>5
<1>7. QED  BY <1>5, <1>6

LEMMA IntegrityWalks ==
    ASSUME StoresInv, NEW t \in Threads, CheckIntegrity(t)
    PROVE  TypeOK' /\ WalkIsSound'
<1> DEFINE c == call[t]
           d == call'[t]
           n == Len(c.p.chain)
           failure == integrity_failure(c.p.chain, c.i)
<1>1. c.phase = "integrity" /\ UNCHANGED <<clock, revoked, seen>>
    BY DEF CheckIntegrity
<1>2. /\ c \in Calls /\ c.p \in Presentations /\ c.now \in Instants
      /\ c.i \in 1 .. n - 1 /\ n # 0
      /\ c.revoked_at_start \subseteq revoked
      /\ LinksPassed(c, n) /\ PairsPassed(c, c.i - 1)
      /\ clock \in Instants /\ revoked \subseteq Delegations /\ receipts \in Seq(Receipts)
    BY <1>1 DEF StoresInv, TypeOK, CallTyped, WalkIsSound, Walked
<1>3. n \in Nat /\ c.i \in Nat
    BY <1>2, PresentationsAssumption
<1>4. failure \in Outcomes
    BY FailureTypes
<1>5. CASE failure # "ok"
    <2>1. Finish(t, failure)
        BY <1>5 DEF CheckIntegrity
    <2> HIDE DEF failure
    <2>2. QED  BY <1>1, <1>4, <1>5, <2>1, FinishWalks
<1>6. CASE failure = "ok"
    <2>1. PairsPassed(c, c.i)
        <3>1. \A j \in 1 .. c.i : j \in 1 .. c.i - 1 \/ j = c.i
            BY <1>3
        <3>2. QED  BY <1>2, <1>6, <3>1 DEF PairsPassed
    <2> DEFINE phase == IF c.i < n - 1 THEN "integrity" ELSE "message"
               next == IF c.i < n - 1 THEN c.i + 1 ELSE 1
    <2>2. Continue(t, phase, next)
        BY <1>6 DEF CheckIntegrity
    <2>3. phase \in Phases /\ next \in Nat /\ phase \in {"message", "integrity"}
        BY <1>3 DEF Phases
    <2>4. phase = "integrity" => next = c.i + 1 /\ c.i < n - 1
        OBVIOUS
    <2>5. phase = "message" => c.i = n - 1
        BY <1>2, <1>3
    <2> HIDE DEF phase, next
    <2>6. /\ call' \in [Threads -> Calls] /\ \A u \in Threads \ {t} : call'[u] = call[u]
          /\ d.phase = phase /\ d.i = next /\ d.p = c.p /\ d.now = c.now
          /\ d.revoked_at_start = c.revoked_at_start /\ receipts' = receipts
        BY <2>2, <2>3, ContinueMoves DEF StoresInv
    <2> HIDE DEF c, d, failure
    <2>7. CallTyped(d)
        BY <1>2, <1>3, <2>3, <2>4, <2>6 DEF CallTyped
    <2>8. LinksPassed(d, n)
        BY <1>2, <2>6 DEF LinksPassed
    <2>9. phase = "integrity" => PairsPassed(d, d.i - 1)
        <3>1. phase = "integrity" => d.i - 1 = c.i
            BY <1>3, <2>4, <2>6
        <3>2. QED  BY <2>1, <2>6, <3>1 DEF PairsPassed
    <2>10. phase = "message" => PairsPassed(d, n - 1)
        BY <2>1, <2>5, <2>6 DEF PairsPassed
    <2>11. Walked(d)
        BY <1>2, <2>3, <2>6, <2>8, <2>9, <2>10 DEF Walked, accepting
    <2>12. QED  BY <1>1, <1>2, <2>6, <2>7, <2>11, OneMoves DEF StoresInv, d
<1>7. QED  BY <1>5, <1>6

\* What the last step of a call does to the store.
LEMMA MessageKinds ==
    ASSUME StoresInv, NEW t \in Threads, CheckMessage(t)
    PROVE  \E failure \in Outcomes :
            /\ Finish(t, failure) /\ UNCHANGED <<clock, revoked>>
            /\ \/ failure # "ok" /\ seen' = seen
               \/ /\ message_failure(call[t].p.chain[1], call[t].p.msg, call[t].now) = "ok"
                  /\ nonce_of(call[t].p.msg) \notin seen
                  /\ seen' = seen \cup {nonce_of(call[t].p.msg)}
                  /\ failure = "ok" =>
                        matches(call[t].p.chain[1].scope, call[t].p.msg.request, call[t].now)
<1> DEFINE c == call[t]
           leaf == c.p.chain[1]
           failure == message_failure(leaf, c.p.msg, c.now)
<1>1. UNCHANGED <<clock, revoked>>
    BY DEF CheckMessage
<1>2. CASE failure # "ok" /\ Finish(t, failure) /\ UNCHANGED seen
    <2>1. failure \in Outcomes
        BY FailureTypes
    <2> HIDE DEF failure
    <2>2. QED  BY <1>1, <1>2, <2>1
<1>3. CASE /\ Finish(t, final_failure(leaf, c.p.msg, c.now, TRUE)) /\ UNCHANGED seen
    <2>1. /\ final_failure(leaf, c.p.msg, c.now, TRUE) \in Outcomes
          /\ final_failure(leaf, c.p.msg, c.now, TRUE) # "ok"
        BY FailureTypes DEF final_failure
    <2>2. QED  BY <1>1, <1>3, <2>1
<1>4. CASE /\ failure = "ok" /\ seen_and_record(nonce_of(c.p.msg))
           /\ Finish(t, final_failure(leaf, c.p.msg, c.now, FALSE))
    <2>1. /\ final_failure(leaf, c.p.msg, c.now, FALSE) \in Outcomes
          /\ final_failure(leaf, c.p.msg, c.now, FALSE) = "ok" =>
                matches(leaf.scope, c.p.msg.request, c.now)
        BY FailureTypes DEF final_failure
    <2>2. nonce_of(c.p.msg) \notin seen /\ seen' = seen \cup {nonce_of(c.p.msg)}
        BY <1>4 DEF seen_and_record
    <2>3. QED  BY <1>1, <1>4, <2>1, <2>2
<1>5. QED  BY <1>2, <1>3, <1>4 DEF CheckMessage

LEMMA MessageWalks ==
    ASSUME StoresInv, NEW t \in Threads, CheckMessage(t)
    PROVE  TypeOK' /\ WalkIsSound'
<1>1. call[t].phase = "message"
    BY DEF CheckMessage
<1>2. PICK failure \in Outcomes :
        /\ Finish(t, failure) /\ UNCHANGED <<clock, revoked>>
        /\ failure = "ok" =>
            /\ message_failure(call[t].p.chain[1], call[t].p.msg, call[t].now) = "ok"
            /\ matches(call[t].p.chain[1].scope, call[t].p.msg.request, call[t].now)
    BY MessageKinds
<1>3. QED  BY <1>1, <1>2, FinishWalks

LEMMA VerifyWalks ==
    ASSUME StoresInv, NEW t \in Threads, NEW p \in Presentations, Verify(t, p)
    PROVE  TypeOK' /\ WalkIsSound'
<1> DEFINE d == [phase |-> "links", p |-> p, i |-> 1, now |-> clock,
                 revoked_at_start |-> revoked, outcome |-> "none"]
<1>1. /\ call' = [call EXCEPT ![t] = d] /\ UNCHANGED <<clock, revoked, receipts>>
    BY DEF Verify
<1>2. clock \in Instants /\ clock \in Int /\ revoked \subseteq Delegations
    BY InstantsAssumption DEF StoresInv, TypeOK
<1>3. d \in Calls
    BY <1>2 DEF Calls, Phases
<1>4. CallTyped(d)
    BY <1>2 DEF CallTyped
<1>5. Walked(d) /\ d.revoked_at_start = revoked
    BY DEF Walked, LinksPassed, accepting
<1> HIDE DEF d
<1>6. /\ call' \in [Threads -> Calls] /\ call'[t] = d
      /\ \A u \in Threads \ {t} : call'[u] = call[u]
    BY <1>1, <1>3, CallUpdate DEF StoresInv
<1>7. receipts' \in Seq(Receipts) /\ clock' \in Instants
    BY <1>1 DEF StoresInv, TypeOK
<1>8. QED  BY <1>1, <1>2, <1>4, <1>5, <1>6, <1>7, OneMoves DEF StoresInv

LEMMA WalkStep ==
    ASSUME StoresInv, [Next]_vars
    PROVE  TypeOK' /\ WalkIsSound'
<1>1. ASSUME UNCHANGED <<call, receipts>>, clock' \in Instants, revoked' \subseteq Delegations,
             revoked \subseteq revoked'
      PROVE  TypeOK' /\ WalkIsSound'
    BY <1>1 DEF StoresInv, TypeOK, WalkIsSound
<1>2. ASSUME NEW d \in Delegations, Revoke(d) PROVE TypeOK' /\ WalkIsSound'
    <2>1. /\ UNCHANGED <<call, receipts>> /\ clock' \in Instants
          /\ revoked' \subseteq Delegations /\ revoked \subseteq revoked'
        BY <1>2 DEF Revoke, StoresInv, TypeOK
    <2>2. QED  BY <1>1, <2>1
<1>3. CASE Tick
    <2>1. /\ UNCHANGED <<call, receipts>> /\ clock' \in Instants
          /\ revoked' \subseteq Delegations /\ revoked \subseteq revoked'
        BY <1>3 DEF Tick, StoresInv, TypeOK
    <2>2. QED  BY <1>1, <2>1
<1>4. CASE UNCHANGED vars
    <2>1. /\ UNCHANGED <<call, receipts>> /\ clock' \in Instants
          /\ revoked' \subseteq Delegations /\ revoked \subseteq revoked'
        BY <1>4 DEF vars, StoresInv, TypeOK
    <2>2. QED  BY <1>1, <2>1
<1>5. QED
    BY <1>2, <1>3, <1>4, LinkWalks, IntegrityWalks, MessageWalks, VerifyWalks DEF Next, Step
-----------------------------------------------------------------------------
\* Calls that end without acceptance leave what was accepted as it was.
LEMMA TurnedAway ==
    ASSUME StoresInv, NoReplay, NEW t \in Threads, NEW failure \in Outcomes,
           Finish(t, failure), call[t].phase # "idle", failure # "ok", seen \subseteq seen'
    PROVE  AcceptedIsRecorded' /\ NoReplay'
<1>1. /\ Len(receipts) \in Nat
      /\ Len(receipts') = Len(receipts) + 1
      /\ \A m \in 1 .. Len(receipts) : receipts'[m] = receipts[m]
      /\ receipts'[Len(receipts) + 1].outcome = failure
    BY FinishMoves DEF StoresInv
<1>2. \A m \in 1 .. Len(receipts') : receipts'[m].outcome = "ok" =>
            m \in 1 .. Len(receipts) /\ receipts'[m] = receipts[m]
    <2>1. \A m \in 1 .. Len(receipts') : m \in 1 .. Len(receipts) \/ m = Len(receipts) + 1
        BY <1>1
    <2>2. QED  BY <1>1, <2>1
<1>3. AcceptedIsRecorded'
    BY <1>2 DEF StoresInv, AcceptedIsRecorded
<1>4. NoReplay'
    BY <1>2 DEF NoReplay
<1>5. QED  BY <1>3, <1>4

\* The call that is accepted found its pair fresh and recorded it.
LEMMA LetThrough ==
    ASSUME StoresInv, NoReplay, NEW t \in Threads, Finish(t, "ok"), call[t].phase # "idle",
           nonce_of(call[t].p.msg) \notin seen,
           seen' = seen \cup {nonce_of(call[t].p.msg)}
    PROVE  AcceptedIsRecorded' /\ NoReplay'
<1> DEFINE last == Len(receipts) + 1
<1>1. "ok" \in Outcomes
    BY DEF Outcomes
<1>2. /\ Len(receipts) \in Nat
      /\ Len(receipts') = last
      /\ \A m \in 1 .. Len(receipts) : receipts'[m] = receipts[m]
      /\ receipts'[last].request_digest = call[t].p.msg
    BY <1>1, FinishMoves DEF StoresInv
<1>3. \A m \in 1 .. Len(receipts') :
            m = last \/ (m \in 1 .. Len(receipts) /\ receipts'[m] = receipts[m])
    <2>1. \A m \in 1 .. Len(receipts') : m \in 1 .. Len(receipts) \/ m = last
        BY <1>2
    <2>2. QED  BY <1>2, <2>1
<1> DEFINE nonce(m) == nonce_of(receipts'[m].request_digest)
<1>4. nonce(last) \in seen' /\ nonce(last) \notin seen
    BY <1>2
<1>5. ASSUME NEW m \in 1 .. Len(receipts'), receipts'[m].outcome = "ok", m # last
      PROVE  m \in 1 .. Len(receipts) /\ receipts'[m] = receipts[m] /\ nonce(m) \in seen
    BY <1>3, <1>5 DEF StoresInv, AcceptedIsRecorded
<1> HIDE DEF last
<1>6. AcceptedIsRecorded'
    BY <1>4, <1>5 DEF AcceptedIsRecorded
<1>7. ASSUME NEW m \in 1 .. Len(receipts'), NEW n \in 1 .. Len(receipts'), m # n,
             receipts'[m].outcome = "ok", receipts'[n].outcome = "ok"
      PROVE  nonce(m) # nonce(n)
    <2>1. CASE m = last
        BY <1>4, <1>5, <1>7, <2>1
    <2>2. CASE n = last
        BY <1>4, <1>5, <1>7, <2>2
    <2>3. CASE m # last /\ n # last
        BY <1>5, <1>7, <2>3 DEF NoReplay
    <2>4. QED  BY <2>1, <2>2, <2>3
<1>8. NoReplay'
    BY <1>7 DEF NoReplay
<1>9. QED  BY <1>6, <1>8

\* A pair enters the store in the hands of the agent it belongs to.
LEMMA BurnedByItsAgent ==
    ASSUME StoresInv, NEW t \in Threads, call[t].phase = "message",
           message_failure(call[t].p.chain[1], call[t].p.msg, call[t].now) = "ok",
           seen' = seen \cup {nonce_of(call[t].p.msg)}
    PROVE  NonceBurnedOnlyByItsAgent'
<1> DEFINE q == call[t].p
<1>1. q \in Presentations /\ Len(q.chain) # 0
    BY DEF StoresInv, TypeOK, CallTyped, WalkIsSound, Walked
<1>2. q.chain # <<>>
    BY <1>1
<1>3. /\ q.msg.signed_by = q.chain[1].agent_public_key
      /\ q.msg.audience = Audience /\ q.msg.agent_id = q.chain[1].agent_id
    BY DEF message_failure, verify_signature
<1> HIDE DEF q
<1>4. nonce_of(q.msg)[1] = q.chain[1].agent_id
    BY <1>3 DEF nonce_of
<1>5. ASSUME NEW pair \in seen'
      PROVE  \E p \in Presentations :
                /\ p.chain # <<>> /\ p.chain[1].agent_id = pair[1]
                /\ p.msg.signed_by = p.chain[1].agent_public_key
                /\ p.msg.audience = Audience /\ nonce_of(p.msg) = pair
    <2>1. CASE pair \in seen
        BY <2>1 DEF StoresInv, NonceBurnedOnlyByItsAgent
    <2>2. CASE pair = nonce_of(q.msg)
        BY <1>1, <1>2, <1>3, <1>4, <2>2
    <2>3. QED  BY <2>1, <2>2 DEF q
<1>6. QED  BY <1>5 DEF NonceBurnedOnlyByItsAgent

LEMMA StoreStep ==
    ASSUME StoresInv, NoReplay, [Next]_vars
    PROVE  AcceptedIsRecorded' /\ NonceBurnedOnlyByItsAgent' /\ NoReplay'
<1>1. ASSUME UNCHANGED <<receipts, seen>>
      PROVE  AcceptedIsRecorded' /\ NonceBurnedOnlyByItsAgent' /\ NoReplay'
    BY <1>1 DEF StoresInv, AcceptedIsRecorded, NonceBurnedOnlyByItsAgent, NoReplay
<1>2. ASSUME UNCHANGED seen PROVE NonceBurnedOnlyByItsAgent'
    BY <1>2 DEF StoresInv, NonceBurnedOnlyByItsAgent
<1>3. ASSUME NEW t \in Threads, CheckLink(t) \/ CheckIntegrity(t)
      PROVE  AcceptedIsRecorded' /\ NonceBurnedOnlyByItsAgent' /\ NoReplay'
    <2>1. UNCHANGED seen /\ call[t].phase # "idle"
        BY <1>3 DEF CheckLink, CheckIntegrity
    <2>2. \/ UNCHANGED receipts
          \/ \E failure \in Outcomes : failure # "ok" /\ Finish(t, failure)
        <3>1. CASE CheckLink(t)
            <4>1. "ChainBroken" \in Outcomes
                BY DEF Outcomes
            <4>2. link_failure(call[t].p.chain, call[t].i, call[t].now, revoked) \in Outcomes
                BY FailureTypes
            <4>3. QED  BY <3>1, <4>1, <4>2 DEF CheckLink, Continue
        <3>2. CASE CheckIntegrity(t)
            <4>1. integrity_failure(call[t].p.chain, call[t].i) \in Outcomes
                BY FailureTypes
            <4>2. QED  BY <3>2, <4>1 DEF CheckIntegrity, Continue
        <3>3. QED  BY <1>3, <3>1, <3>2
    <2>3. QED  BY <1>1, <1>2, <2>1, <2>2, TurnedAway
<1>4. ASSUME NEW t \in Threads, CheckMessage(t)
      PROVE  AcceptedIsRecorded' /\ NonceBurnedOnlyByItsAgent' /\ NoReplay'
    <2> DEFINE pair == nonce_of(call[t].p.msg)
    <2>1. call[t].phase = "message"
        BY <1>4 DEF CheckMessage
    <2>2. PICK failure \in Outcomes :
            /\ Finish(t, failure)
            /\ \/ failure # "ok" /\ seen' = seen
               \/ /\ message_failure(call[t].p.chain[1], call[t].p.msg, call[t].now) = "ok"
                  /\ pair \notin seen
                  /\ seen' = seen \cup {pair}
        BY <1>4, MessageKinds
    <2>3. NonceBurnedOnlyByItsAgent'
        BY <1>2, <2>1, <2>2, BurnedByItsAgent
    <2>4. CASE failure # "ok"
        <3>1. seen \subseteq seen'
            BY <2>2
        <3>2. QED  BY <2>1, <2>2, <2>3, <2>4, <3>1, TurnedAway
    <2>5. CASE failure = "ok"
        BY <2>1, <2>2, <2>3, <2>5, LetThrough
    <2>6. QED  BY <2>4, <2>5
<1>5. QED  BY <1>1, <1>3, <1>4 DEF Next, Step, Verify, Revoke, Tick, vars

-----------------------------------------------------------------------------
LEMMA StoresStart == Init => StoresInv /\ NoReplay
<1> SUFFICES ASSUME Init PROVE StoresInv /\ NoReplay
    OBVIOUS
<1>1. /\ clock \in Instants /\ revoked = {} /\ seen = {}
      /\ call = [t \in Threads |-> Idle] /\ receipts = <<>>
    BY DEF Init
<1>2. Idle \in Calls /\ CallTyped(Idle) /\ Walked(Idle) /\ Idle.revoked_at_start = {}
    BY DEF Idle, Calls, Phases, CallTyped, Walked, accepting
<1>3. TypeOK /\ WalkIsSound
    <2>1. \A t \in Threads : call[t] = Idle
        BY <1>1
    <2>2. call \in [Threads -> Calls] /\ receipts \in Seq(Receipts)
        BY <1>1, <1>2
    <2>3. QED  BY <1>1, <1>2, <2>1, <2>2 DEF TypeOK, WalkIsSound
<1>4. AcceptedIsRecorded /\ NonceBurnedOnlyByItsAgent /\ NoReplay
    BY <1>1 DEF AcceptedIsRecorded, NonceBurnedOnlyByItsAgent, NoReplay
<1>5. QED  BY <1>3, <1>4 DEF StoresInv

\* verifier.rs verify_inner, nonce.rs: calls are well typed, have checked what
\* their place in the loops says, and the store holds the nonce of every
\* accepted message and none its agent did not use, however calls interleave.
THEOREM StoresInvariant == Spec => []StoresInv
<1>1. StoresInv /\ NoReplay /\ [Next]_vars => (StoresInv /\ NoReplay)'
    BY WalkStep, StoreStep DEF StoresInv
<1>2. QED  BY <1>1, StoresStart, PTL DEF Spec

\* nonce.rs seen_and_record: of any number of concurrent calls at most one is
\* accepted with a given (agent, nonce) pair.
THEOREM NoReplayEver == Spec => []NoReplay
<1>1. StoresInv /\ NoReplay /\ [Next]_vars => (StoresInv /\ NoReplay)'
    BY WalkStep, StoreStep DEF StoresInv
<1>2. QED  BY <1>1, StoresStart, PTL DEF Spec

\* status.rs: a link that was revoked before the call began is never part of
\* what the call accepts, whatever else is revoked while it walks.
THEOREM RevokedIsNeverAccepted == Spec => []RevokedNeverAccepted
<1>1. StoresInv => RevokedNeverAccepted
    BY DEF StoresInv, WalkIsSound, Walked, LinksPassed, Accepted, RevokedNeverAccepted, link_failure
<1>2. QED  BY <1>1, StoresInvariant, PTL

\* What the pairwise loop shows of all links: the same principal, validity no
\* longer than any ancestor's, and scopes that only narrow.
LEMMA WholeChain ==
    ASSUME StoresInv, NEW t \in Threads, Accepted(t), NEW k \in 1 .. Len(call[t].p.chain)
    PROVE  LET c == call[t]
               links == c.p.chain
           IN  /\ links[k].principal_id = links[1].principal_id
               /\ links[1].valid_until <= links[k].valid_until
               /\ DisciplinedChain(links) => matches(links[k].scope, c.p.msg.request, c.now)
<1> DEFINE c == call[t]
           links == c.p.chain
           n == Len(links)
           request == c.p.msg.request
           Same == {j \in 1 .. n : links[j].principal_id = links[1].principal_id}
           Longer == {j \in 1 .. n : links[1].valid_until <= links[j].valid_until}
           Allow == {j \in 1 .. n : matches(links[j].scope, request, c.now)}
<1>1. /\ c.p \in Presentations /\ n # 0 /\ PairsPassed(c, n - 1)
      /\ matches(links[1].scope, request, c.now) /\ c.now \in Instants
    BY DEF StoresInv, TypeOK, CallTyped, WalkIsSound, Walked, Accepted, accepting
<1>2. /\ n \in Nat /\ RequestAmounts(request)
      /\ \A j \in 1 .. n : links[j].valid_until \in Int /\ ScopeAmounts(links[j].scope)
    BY <1>1, PresentationsAssumption
<1>3. \A j \in 1 .. n - 1 : integrity_failure(links, j) = "ok"
    BY <1>1 DEF PairsPassed
<1> HIDE DEF c, links, request
<1>4. ASSUME NEW j \in 1 .. n - 1
      PROVE  /\ links[j].principal_id = links[j + 1].principal_id
             /\ ~(links[j].valid_until > links[j + 1].valid_until)
             /\ narrows(links[j + 1].scope, links[j].scope)
    BY <1>3 DEF integrity_failure
<1>5. 1 \in 1 .. n /\ \A j \in 1 .. n - 1 : j \in 1 .. n /\ j + 1 \in 1 .. n
    BY <1>1, <1>2
<1> HIDE DEF n
<1>6. \A j \in 1 .. n : j \in Same
    <2>1. 1 \in Same
        BY <1>5
    <2>2. \A j \in 1 .. n - 1 : j \in Same => j + 1 \in Same
        BY <1>4, <1>5
    <2> HIDE DEF Same
    <2>3. QED  BY <1>1, <1>2, <2>1, <2>2, AlongTheChain
<1>7. \A j \in 1 .. n : j \in Longer
    <2>1. 1 \in Longer
        BY <1>2, <1>5
    <2>2. \A j \in 1 .. n - 1 : j \in Longer => j + 1 \in Longer
        <3> SUFFICES ASSUME NEW j \in 1 .. n - 1, j \in Longer PROVE j + 1 \in Longer
            OBVIOUS
        <3>1. /\ links[1].valid_until \in Int /\ links[j].valid_until \in Int
              /\ links[j + 1].valid_until \in Int
            BY <1>2, <1>5
        <3>2. links[1].valid_until <= links[j].valid_until
            OBVIOUS
        <3>3. links[j].valid_until <= links[j + 1].valid_until
            BY <1>4, <3>1
        <3>4. links[1].valid_until <= links[j + 1].valid_until
            BY <3>1, <3>2, <3>3
        <3>5. QED  BY <1>5, <3>4
    <2> HIDE DEF Longer
    <2>3. QED  BY <1>1, <1>2, <2>1, <2>2, AlongTheChain
<1>8. ASSUME DisciplinedChain(links) PROVE \A j \in 1 .. n : j \in Allow
    <2>1. 1 \in Allow
        BY <1>1, <1>5
    <2>2. \A j \in 1 .. n - 1 : j \in Allow => j + 1 \in Allow
        <3> SUFFICES ASSUME NEW j \in 1 .. n - 1, j \in Allow PROVE j + 1 \in Allow
            OBVIOUS
        <3>1. /\ ScopeAmounts(links[j].scope) /\ ScopeAmounts(links[j + 1].scope)
              /\ narrows(links[j + 1].scope, links[j].scope)
            BY <1>2, <1>4, <1>5
        <3>2. /\ clock_texts_ordered(links[j].scope) /\ clock_texts_ordered(links[j + 1].scope)
              /\ money_kept(links[j + 1].scope, links[j].scope)
            BY <1>5, <1>8 DEF DisciplinedChain, n
        <3>3. matches(links[j].scope, request, c.now)
            OBVIOUS
        <3>4. matches(links[j + 1].scope, request, c.now)
            BY <1>1, <1>2, <3>1, <3>2, <3>3, NarrowsSound
        <3>5. QED  BY <1>5, <3>4
    <2> HIDE DEF Allow
    <2>3. QED  BY <1>1, <1>2, <2>1, <2>2, AlongTheChain
<1>9. k \in Same /\ k \in Longer /\ (DisciplinedChain(links) => k \in Allow)
    BY <1>6, <1>7, <1>8 DEF n, links, c
<1>10. QED  BY <1>9 DEF links, c, request

\* verifier.rs verify_inner: an accepted request is within the authority of
\* every link, of any chain, although the code matches the leaf only and
\* compares adjacent links only; and every link acts for the one principal
\* whose registered key signed the root.
THEOREM EveryLinkAccepts == Spec => []AcceptedByEveryLink
<1>1. StoresInv => AcceptedByEveryLink
    <2> SUFFICES ASSUME StoresInv, NEW t \in Threads, Accepted(t)
                 PROVE  LET c == call[t]
                            links == c.p.chain
                            root == links[Len(links)]
                        IN  /\ root.signed_by = Registry[root.principal_id]
                            /\ \A j \in 1 .. Len(links) :
                                /\ links[j].principal_id = root.principal_id
                                /\ c.now \in links[j].valid_from .. links[j].valid_until
                                /\ links[1].valid_until <= links[j].valid_until
                                /\ DisciplinedChain(links) =>
                                      matches(links[j].scope, c.p.msg.request, c.now)
        BY DEF AcceptedByEveryLink
    <2> DEFINE c == call[t]
               links == c.p.chain
               n == Len(links)
    <2>1. c.p \in Presentations /\ n # 0 /\ LinksPassed(c, n) /\ c.now \in Instants
        BY DEF StoresInv, TypeOK, CallTyped, WalkIsSound, Walked, Accepted, accepting
    <2>2. /\ n \in Nat /\ c.now \in Int
          /\ \A j \in 1 .. n : links[j].valid_from \in Int /\ links[j].valid_until \in Int
        BY <2>1, PresentationsAssumption, InstantsAssumption
    <2>3. n \in 1 .. n
        BY <2>1, <2>2
    <2>4. \A j \in 1 .. n : link_failure(links, j, c.now, c.revoked_at_start) = "ok"
        BY <2>1 DEF LinksPassed
    <2>5. \A j \in 1 .. n :
            /\ links[j].principal_id = links[1].principal_id
            /\ links[1].valid_until <= links[j].valid_until
            /\ DisciplinedChain(links) => matches(links[j].scope, c.p.msg.request, c.now)
        BY WholeChain
    <2> HIDE DEF c, links
    <2>6. links[n].signed_by = Registry[links[n].principal_id]
        BY <2>2, <2>3, <2>4 DEF link_failure, verify_signature, signer_key
    <2>7. \A j \in 1 .. n : ~(c.now < links[j].valid_from) /\ ~(c.now > links[j].valid_until)
        BY <2>4 DEF link_failure
    <2>8. \A j \in 1 .. n : c.now \in links[j].valid_from .. links[j].valid_until
        BY <2>2, <2>7
    <2>9. \A j \in 1 .. n : links[j].principal_id = links[n].principal_id
        BY <2>3, <2>5
    <2>10. QED  BY <2>5, <2>6, <2>8, <2>9 DEF c, links
<1>2. QED  BY <1>1, StoresInvariant, PTL

-----------------------------------------------------------------------------
\* The chain of ScopeChain stays a non-empty sequence of scopes.
THEOREM ChainTypeCorrect == ChainSpec => []ChainType
<1>1. ChainInit => ChainType
    BY MaxLinksAssumption DEF ChainInit, ChainType
<1>2. ChainType /\ [ChainNext]_chain_vars => ChainType'
    <2> SUFFICES ASSUME ChainType, [ChainNext]_chain_vars PROVE ChainType'
        OBVIOUS
    <2>1. CASE UNCHANGED chain_vars
        BY <2>1 DEF ChainType, chain_vars
    <2>2. CASE ChainNext
        <3>1. PICK child \in Scopes : SubDelegate(child)
            BY <2>2 DEF ChainNext
        <3>2. chain' \in Seq(Scopes) /\ Len(chain') = Len(chain) + 1
            BY <3>1 DEF SubDelegate, ChainType
        <3>3. QED  BY <3>1, <3>2, MaxLinksAssumption DEF SubDelegate, ChainType
    <2>3. QED  BY <2>1, <2>2
<1>3. QED  BY <1>1, <1>2, PTL DEF ChainSpec

\* A chain of any length that the integrity loop of the verifier lets
\* through authorises, at its leaf, only what every link authorises.
THEOREM ChainNarrowingSound == ChainSpec => []NarrowingSound
<1>1. ChainInit => NarrowingSound
    BY DEF ChainInit, NarrowingSound, LeafWithinEveryLink
<1>2. ChainType /\ NarrowingSound /\ [ChainNext]_chain_vars => NarrowingSound'
    <2> SUFFICES ASSUME ChainType, NarrowingSound, [ChainNext]_chain_vars, Disciplined'
                 PROVE  LeafWithinEveryLink'
        BY DEF NarrowingSound
    <2>1. CASE UNCHANGED chain_vars
        BY <2>1 DEF chain_vars, NarrowingSound, Disciplined, LeafWithinEveryLink
    <2>2. CASE ChainNext
        <3>1. PICK child \in Scopes : SubDelegate(child)
            BY <2>2 DEF ChainNext
        <3> DEFINE n == Len(chain)
        <3>2. /\ n \in Nat \ {0}
              /\ chain' = Append(chain, child)
              /\ Len(chain') = n + 1
              /\ chain'[n + 1] = child
              /\ \A i \in 1 .. n : chain'[i] = chain[i] /\ chain[i] \in Scopes
            BY <3>1 DEF SubDelegate, ChainType
        <3>3. /\ \A i \in 1 .. n : clock_texts_ordered(chain[i])
              /\ clock_texts_ordered(child)
              /\ \A i \in 1 .. n - 1 : money_kept(chain[i], chain[i + 1])
              /\ money_kept(chain[n], child)
            BY <3>2 DEF Disciplined
        <3>4. LeafWithinEveryLink
            BY <3>3 DEF NarrowingSound, Disciplined
        <3>5. SUFFICES ASSUME NEW r \in Requests, NEW t \in Instants,
                              matches(child, r, t), NEW i \in 1 .. n
                       PROVE  matches(chain[i], r, t)
            BY <3>2 DEF LeafWithinEveryLink
        <3>6. matches(chain[n], r, t)
            BY <3>1, <3>2, <3>3, <3>5, NarrowsSound, AmountsAssumption
               DEF SubDelegate
        <3>7. QED  BY <3>4, <3>6 DEF LeafWithinEveryLink
    <2>3. QED  BY <2>1, <2>2
<1>3. QED  BY <1>1, <1>2, ChainTypeCorrect, PTL DEF ChainSpec
=============================================================================
