----------------------------- MODULE ReplayGuard ----------------------------
(***************************************************************************)
(* What a verifier promises about replays, without saying how: a message   *)
(* is granted at most once, and only at an instant at which it is fresh.   *)
(* Nonce tables, pruning and concurrent handlers are implementation.       *)
(***************************************************************************)
EXTENDS Naturals

CONSTANTS
    Messages,       \* the messages agents sign
    Fresh(_, _)     \* (message, instant): inside its freshness window

VARIABLES
    clock,      \* the verifier's clock
    granted     \* how often each message has been granted

Init == granted = [m \in Messages |-> 0]

Grant(m) ==
    /\ granted[m] = 0
    /\ Fresh(m, clock)
    /\ granted' = [granted EXCEPT ![m] = 1]
    /\ UNCHANGED clock

Pass == UNCHANGED granted

Next == Pass \/ \E m \in Messages : Grant(m)

Spec == Init /\ [][Next]_<<clock, granted>>
=============================================================================
