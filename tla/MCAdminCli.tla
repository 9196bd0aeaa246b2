----------------------------- MODULE MCAdminCli -----------------------------
(***************************************************************************)
(* One pairing request that is changed from a small ceiling to a larger    *)
(* one, or to a scope that does not parse, while it is being approved.     *)
(***************************************************************************)
EXTENDS AdminCli, TLC

Asks(amount) == [agent_id |-> "phone", public_key |-> "kd",
                 scope |-> [max_amount |-> amount, rest |-> "pay"]]

MCPairingRequests == {Asks(10004), Asks(90000), [Asks(None) EXCEPT !.scope = None]}

TerminalSymmetry == Permutations(Terminals)
=============================================================================
