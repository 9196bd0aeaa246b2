-------------------------- MODULE MCVerifierCalls ---------------------------
(***************************************************************************)
(* An honest chain of three delegations and what can be wrong with it: each *)
(* presentation differs from an honest one in at most one field of one     *)
(* token, so that every early return of verify_inner is taken and each     *)
(* check is at some point the only one that stands.                        *)
(***************************************************************************)
EXTENDS VerifierCalls, TLC

Unlimited == [actions |-> {"pay", "read"}, resources |-> None,
              max_amount |-> [value |-> 2, currency |-> "EUR"],
              allow |-> None, deny |-> None, data_categories |-> None,
              time_windows |-> None]
Limited == [Unlimited EXCEPT !.actions = {"pay"}, !.max_amount.value = 1]

\* The principal's own delegation to agent a, a's to b, and b's to c.
Root == [parses |-> TRUE, signed_by |-> "kp", delegation_id |-> "d1",
         parent_delegation_id |-> None, principal_id |-> "p",
         principal_type |-> "natural", agent_id |-> "a", agent_public_key |-> "ka",
         scope |-> Unlimited, valid_from |-> 0, valid_until |-> 2,
         can_delegate |-> TRUE, max_delegation_depth |-> 2]
Child == [Root EXCEPT !.signed_by = "ka", !.delegation_id = "d2",
         !.parent_delegation_id = "d1", !.agent_id = "b", !.agent_public_key = "kb",
         !.scope = Limited, !.valid_from = 1, !.max_delegation_depth = None]
Grandchild == [Child EXCEPT !.signed_by = "kb", !.delegation_id = "d3",
         !.parent_delegation_id = "d2", !.agent_id = "c", !.agent_public_key = "kc",
         !.can_delegate = FALSE]

Pay == [action |-> "pay", resource |-> None,
        amount |-> [value |-> 1, currency |-> "EUR"],
        counterparty |-> None, data_categories |-> None]
Msg(agent, key) == [parses |-> TRUE, signed_by |-> key, agent_id |-> agent,
        audience |-> "verifier", nonce |-> "n", issued_at |-> 1, request |-> Pay]

Honest(chain, m) == [chain |-> chain, msg |-> m]

\* One field of the sub-delegation is off.
BadChild ==
    {[Child EXCEPT !.parses = FALSE], [Child EXCEPT !.signed_by = "kx"],
     [Child EXCEPT !.signed_by = "kp"], [Child EXCEPT !.parent_delegation_id = "d3"],
     [Child EXCEPT !.principal_id = "q"], [Child EXCEPT !.principal_type = "legal"],
     [Child EXCEPT !.valid_until = 3], [Child EXCEPT !.valid_from = -1],
     [Child EXCEPT !.valid_from = 2],
     [Child EXCEPT !.scope.actions = {"pay", "close"}],
     [Child EXCEPT !.scope.max_amount = None],
     [Child EXCEPT !.agent_public_key = None]}

\* One field of the root delegation is off.
BadRoot ==
    {[Root EXCEPT !.parses = FALSE], [Root EXCEPT !.signed_by = "kx"],
     [Root EXCEPT !.principal_id = "unknown"], [Root EXCEPT !.agent_public_key = "kx"],
     [Root EXCEPT !.valid_until = 0], [Root EXCEPT !.can_delegate = FALSE],
     [Root EXCEPT !.max_delegation_depth = 0],
     [Root EXCEPT !.scope.max_amount.value = 0]}

\* One field of the message is off.
BadMsg(m) ==
    {[m EXCEPT !.parses = FALSE], [m EXCEPT !.signed_by = "kx"],
     [m EXCEPT !.audience = "other"], [m EXCEPT !.agent_id = "a"],
     [m EXCEPT !.issued_at = 3], [m EXCEPT !.issued_at = 0],
     [m EXCEPT !.request.action = "read"], [m EXCEPT !.request.amount.value = 2]}

MCPresentations ==
    {Honest(<<>>, Msg("a", "ka")),
     Honest(<<Root>>, Msg("a", "ka")),
     Honest(<<Child, Root>>, Msg("b", "kb")),
     Honest(<<Grandchild, Child, Root>>, Msg("c", "kc")),
     Honest(<<Grandchild, Child, [Root EXCEPT !.max_delegation_depth = 1]>>,
            Msg("c", "kc"))}
    \cup {Honest(<<c, Root>>, Msg("b", "kb")) : c \in BadChild}
    \cup {Honest(<<Child, r>>, Msg("b", "kb")) : r \in BadRoot}
    \cup {Honest(<<Child, Root>>, m) : m \in BadMsg(Msg("b", "kb"))}
    \* Agent a lends agent b's nonce to a message b did not sign.
    \cup {Honest(<<Root>>, [Msg("b", "ka") EXCEPT !.nonce = "m"])}

\* The threads run the same code.
ThreadSymmetry == Permutations(Threads)

MCRegistry == [p \in {"p", "q", "unknown"} |->
                  IF p = "p" THEN "kp" ELSE IF p = "q" THEN "kq" ELSE None]
MCInstants == 1 .. 2
MCLocalMinute(zone, t) == t
=============================================================================
