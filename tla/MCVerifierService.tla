------------------------- MODULE MCVerifierService --------------------------
(***************************************************************************)
(* Two agents' requests for VerifierService: the root's own, one by way of *)
(* a sub-delegation, and requests that fail early or late.                 *)
(***************************************************************************)
EXTENDS VerifierService, TLC

Pay == [action |-> "pay", resource |-> None, amount |-> None,
        counterparty |-> None, data_categories |-> None]
PayScope == [actions |-> {"pay"}, resources |-> None, max_amount |-> None,
             allow |-> None, deny |-> None, data_categories |-> None,
             time_windows |-> None]

Root == [parses |-> TRUE, signed_by |-> "kp", delegation_id |-> "d1",
         parent_delegation_id |-> None, principal_id |-> "p",
         principal_type |-> "natural", agent_id |-> "a", agent_public_key |-> "ka",
         scope |-> PayScope, valid_from |-> 0, valid_until |-> 9,
         can_delegate |-> TRUE, max_delegation_depth |-> None]
Child == [Root EXCEPT !.signed_by = "ka", !.delegation_id = "d2",
         !.parent_delegation_id = "d1", !.agent_id = "b", !.agent_public_key = "kb"]

Msg(agent, key, at) == [parses |-> TRUE, signed_by |-> key, agent_id |-> agent,
        audience |-> "verifier", nonce |-> "n", issued_at |-> at, request |-> Pay]

Req(chain, m) == [authorized |-> TRUE, chain |-> chain, msg |-> m]

Direct == Req(<<Root>>, Msg("a", "ka", 1))
PostDated == Req(<<Root>>, Msg("a", "ka", 3))
Chained == Req(<<Child, Root>>, Msg("b", "kb", 1))

\* One from a clock that runs ahead, which may be refused first and become
\* acceptable later; it shares its nonce with the direct one.
ReplayRequests == {Direct, PostDated}

\* Chains of one and two links, a root that does not parse, a message that
\* does not, one out of scope, and callers turned away.
MCRequests ==
    ReplayRequests \cup
    {Chained,
     Req(<<Child, [Root EXCEPT !.parses = FALSE]>>, Msg("b", "kb", 1)),
     Req(<<Root>>, [Msg("a", "ka", 1) EXCEPT !.parses = FALSE]),
     Req(<<Root>>, [Msg("a", "ka", 1) EXCEPT !.request.action = "read"]),
     [Direct EXCEPT !.authorized = FALSE], Req(<<>>, Msg("a", "ka", 1))}

MCPairable == {Root, [Root EXCEPT !.delegation_id = "d3", !.signed_by = "kx"]}

MCRegistry == [p \in {"p"} |-> "kp"]
MCInstants == 0 .. 5
MCLocalMinute(zone, t) == t

HandlerSymmetry == Permutations(Handlers)

Asked == {handler[h].req : h \in Handlers} \ {None}

\* Replays across the whole retention: both delegations are stored, and the
\* same messages come again and again.
ReplayScene ==
    /\ revoked = {} /\ Asked \subseteq ReplayRequests
    /\ \A n \in DOMAIN receipts :
          \E r \in ReplayRequests : receipts[n].request_digest = r.msg
    /\ known = KnownAtStart => served = 0 /\ clock = 0

\* Two requests of every kind, while delegations are paired and revoked.
StatusScene == served <= 2 /\ clock <= 1 /\ PostDated \notin Asked

\* What is explored: either of the two, and not their product.
Scenes == ReplayScene \/ StatusScene
=============================================================================
