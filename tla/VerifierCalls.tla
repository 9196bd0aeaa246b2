---------------------------- MODULE VerifierCalls ---------------------------
(***************************************************************************)
(* Concurrent calls of aap_core::Verifier::verify over the in-memory       *)
(* stores of the core crate.  The stores are shared behind RwLocks, so     *)
(* calls interleave at every store access: a revocation may land in the    *)
(* middle of another call's walk up its chain, and two calls may race for  *)
(* the same nonce.  One action per loop iteration of verify_inner.         *)
(***************************************************************************)
EXTENDS CoreVerifier, FiniteSets

CONSTANTS
    Threads,        \* callers of verify
    Presentations,  \* [chain, msg] pairs that are presented
    Delegations,    \* delegation ids an operator may revoke
    MaxCalls        \* bound on the calls of a behaviour

\* A chain is a list; timestamps and amounts are numbers (types.rs).
ASSUME PresentationsAssumption ==
    \A p \in Presentations :
        /\ Len(p.chain) \in Nat
        /\ RequestAmounts(p.msg.request)
        /\ \A j \in 1 .. Len(p.chain) :
              /\ p.chain[j].valid_from \in Int /\ p.chain[j].valid_until \in Int
              /\ ScopeAmounts(p.chain[j].scope)

VARIABLES
    clock,      \* Utc::now
    revoked,    \* InMemoryStatus
    seen,       \* InMemoryNonceStore: (agent_id, nonce) pairs, never pruned
    call,       \* per thread, the locals of the call in progress
    receipts    \* every receipt issued, in order

vars == <<clock, revoked, seen, call, receipts>>

Idle == [phase |-> "idle", p |-> None, i |-> 0, now |-> 0,
         revoked_at_start |-> {}, outcome |-> "none"]

Init ==
    /\ clock \in Instants /\ \A t \in Instants : clock <= t
    /\ revoked = {}
    /\ seen = {}
    /\ call = [t \in Threads |-> Idle]
    /\ receipts = <<>>

-----------------------------------------------------------------------------
\* verify_at leaves with a decision: the receipt is signed before it returns.
Finish(t, failure) ==
    /\ call' = [call EXCEPT ![t].phase = "done", ![t].outcome = failure]
    /\ receipts' = Append(receipts,
            issue_receipt(call[t].p.chain, call[t].p.msg, failure, call[t].now))

\* The loop goes on at index i of the given phase.
Continue(t, phase, i) ==
    /\ call' = [call EXCEPT ![t].phase = phase, ![t].i = i]
    /\ UNCHANGED receipts

InCall(t) == call[t].phase \in {"links", "integrity", "message"}

\* verify: reads the clock once, then runs on that instant.
Verify(t, p) ==
    /\ call[t].phase \in {"idle", "done"}
    /\ Len(receipts) + Cardinality({u \in Threads : InCall(u)}) < MaxCalls
    /\ call' = [call EXCEPT ![t] = [phase |-> "links", p |-> p, i |-> 1, now |-> clock,
                                    revoked_at_start |-> revoked, outcome |-> "none"]]
    /\ UNCHANGED <<clock, revoked, seen, receipts>>

\* An iteration of the signature loop, on the revocations of this moment.
CheckLink(t) ==
    LET c == call[t]
        n == Len(c.p.chain)
        failure == IF n = 0 THEN "ChainBroken"
                            ELSE link_failure(c.p.chain, c.i, c.now, revoked)
    IN  /\ c.phase = "links"
        /\ IF failure # "ok" THEN Finish(t, failure)
           ELSE IF c.i < n THEN Continue(t, "links", c.i + 1)
           ELSE Continue(t, IF n = 1 THEN "message" ELSE "integrity", 1)
        /\ UNCHANGED <<clock, revoked, seen>>

\* An iteration of the chain integrity loop.
CheckIntegrity(t) ==
    LET c == call[t]
        n == Len(c.p.chain)
        failure == integrity_failure(c.p.chain, c.i)
    IN  /\ c.phase = "integrity"
        /\ IF failure # "ok" THEN Finish(t, failure)
           ELSE IF c.i < n - 1 THEN Continue(t, "integrity", c.i + 1)
           ELSE Continue(t, "message", 1)
        /\ UNCHANGED <<clock, revoked, seen>>

\* Mutant: the pair is looked up but not recorded.
seen_and_record_ReadOnly(pair) == pair \notin seen /\ UNCHANGED seen

\* nonce.rs: seen_and_record answers whether the pair was there and inserts it.
seen_and_record(pair) ==
    /\ pair \notin seen
    /\ seen' = seen \cup {pair}

nonce_of(msg) == <<msg.agent_id, msg.nonce>>

\* The message checks; the nonce is consumed once all but the scope passed.
CheckMessage(t) ==
    LET c == call[t]
        leaf == c.p.chain[1]
        failure == message_failure(leaf, c.p.msg, c.now)
    IN  /\ c.phase = "message"
        /\ \/ /\ failure # "ok"
              /\ Finish(t, failure)
              /\ UNCHANGED seen
           \/ /\ failure = "ok"
              /\ nonce_of(c.p.msg) \in seen
              /\ Finish(t, final_failure(leaf, c.p.msg, c.now, TRUE))
              /\ UNCHANGED seen
           \/ /\ failure = "ok"
              /\ seen_and_record(nonce_of(c.p.msg))
              /\ Finish(t, final_failure(leaf, c.p.msg, c.now, FALSE))
        /\ UNCHANGED <<clock, revoked>>

\* status.rs: an operator revokes a delegation, at any moment.
Revoke(d) ==
    /\ d \notin revoked
    /\ revoked' = revoked \cup {d}
    /\ UNCHANGED <<clock, seen, call, receipts>>

Tick ==
    /\ clock + 1 \in Instants
    /\ clock' = clock + 1
    /\ UNCHANGED <<revoked, seen, call, receipts>>

Step(t) == CheckLink(t) \/ CheckIntegrity(t) \/ CheckMessage(t)

Next ==
    \/ \E t \in Threads : Step(t) \/ \E p \in Presentations : Verify(t, p)
    \/ \E d \in Delegations : Revoke(d)
    \/ Tick

Spec == Init /\ [][Next]_vars

-----------------------------------------------------------------------------
Phases == {"idle", "links", "integrity", "message", "done"}

Calls == [phase : Phases, p : Presentations \cup {None}, i : Nat, now : Int,
          revoked_at_start : SUBSET Delegations, outcome : Outcomes \cup {"none"}]

Receipts == {issue_receipt(p.chain, p.msg, failure, now) :
                p \in Presentations, failure \in Outcomes, now \in Instants}

\* A call's index is a link's, or the first of an empty chain.
CallTyped(c) ==
    /\ c.phase # "idle" => c.p \in Presentations /\ c.now \in Instants
    /\ c.phase = "links" /\ c.i # 1 => c.i \in 2 .. Len(c.p.chain)
    /\ c.phase = "integrity" => c.i \in 1 .. Len(c.p.chain) - 1

TypeOK ==
    /\ clock \in Instants
    /\ revoked \subseteq Delegations
    /\ call \in [Threads -> Calls]
    /\ receipts \in Seq(Receipts)
    /\ \A t \in Threads : CallTyped(call[t])

accepting(c) == c.phase = "done" /\ c.outcome = "ok"
Accepted(t) == accepting(call[t])

\* Scopes on the chain meet the hypotheses of narrowing (see Scope).
DisciplinedChain(chain) ==
    /\ \A j \in 1 .. Len(chain) : clock_texts_ordered(chain[j].scope)
    /\ \A j \in 1 .. Len(chain) - 1 : money_kept(chain[j + 1].scope, chain[j].scope)

\* An accepted request is within the authority of EVERY link, although the
\* code matches the leaf only and compares adjacent links only: each link's
\* scope authorises it, each link is in force, and all links, the leaf
\* included, act for the one principal whose registered key signed the root.
AcceptedByEveryLink ==
    \A t \in Threads : Accepted(t) =>
        LET c == call[t]
            chain == c.p.chain
            root == chain[Len(chain)]
        IN  /\ root.signed_by = Registry[root.principal_id]
            /\ \A j \in 1 .. Len(chain) :
                /\ chain[j].principal_id = root.principal_id
                /\ c.now \in chain[j].valid_from .. chain[j].valid_until
                /\ chain[1].valid_until <= chain[j].valid_until
                /\ DisciplinedChain(chain) =>
                      matches(chain[j].scope, c.p.msg.request, c.now)

\* A link that was revoked before the call began is never part of what the
\* call accepts, however far the walk had come when others were revoked.
RevokedNeverAccepted ==
    \A t \in Threads : Accepted(t) =>
        \A j \in 1 .. Len(call[t].p.chain) :
            call[t].p.chain[j].delegation_id \notin call[t].revoked_at_start

\* Two calls never both accept the same (agent, nonce) pair.
NoReplay ==
    \A m, n \in 1 .. Len(receipts) :
        /\ m # n
        /\ receipts[m].outcome = "ok"
        /\ receipts[n].outcome = "ok"
        => nonce_of(receipts[m].request_digest) # nonce_of(receipts[n].request_digest)

\* Only an agent can use up its nonces: a recorded pair belongs to a message
\* signed with a key that a principal's chain binds to that very agent_id.
NonceBurnedOnlyByItsAgent ==
    \A pair \in seen : \E p \in Presentations :
        /\ p.chain # <<>>
        /\ p.chain[1].agent_id = pair[1]
        /\ p.msg.signed_by = p.chain[1].agent_public_key
        /\ p.msg.audience = Audience
        /\ nonce_of(p.msg) = pair

\* Where the walk of a call has come, whatever was revoked meanwhile: the links
\* before its index have passed on what was revoked when it began, and so have
\* the pairs of links before it in the integrity loop.
LinksPassed(c, k) ==
    \A j \in 1 .. k : link_failure(c.p.chain, j, c.now, c.revoked_at_start) = "ok"
PairsPassed(c, k) == \A j \in 1 .. k : integrity_failure(c.p.chain, j) = "ok"

Walked(c) ==
    LET n == Len(c.p.chain)
        past_pairs == c.phase = "message" \/ accepting(c)
        past_links == c.phase = "integrity" \/ past_pairs
    IN  /\ c.phase = "links" => LinksPassed(c, c.i - 1)
        /\ past_links => n # 0 /\ LinksPassed(c, n)
        /\ c.phase = "integrity" => PairsPassed(c, c.i - 1)
        /\ past_pairs => PairsPassed(c, n - 1)
        /\ accepting(c) => /\ message_failure(c.p.chain[1], c.p.msg, c.now) = "ok"
                           /\ matches(c.p.chain[1].scope, c.p.msg.request, c.now)

WalkIsSound ==
    \A t \in Threads : call[t].revoked_at_start \subseteq revoked /\ Walked(call[t])

\* The pair of every accepted message is in the store.
AcceptedIsRecorded ==
    \A m \in 1 .. Len(receipts) :
        receipts[m].outcome = "ok" => nonce_of(receipts[m].request_digest) \in seen

\* verifier.rs, nonce.rs: the calls are well typed, every call has checked what
\* its place in the loops says, and the store holds the nonce of every accepted
\* message and no nonce its agent did not use.
StoresInv == TypeOK /\ WalkIsSound /\ AcceptedIsRecorded /\ NonceBurnedOnlyByItsAgent
=============================================================================
