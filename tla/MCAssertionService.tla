------------------------- MODULE MCAssertionService -------------------------
(***************************************************************************)
(* Instances of AssertionService: a device key that is used twice for one  *)
(* counter, late and duplicate assertions, and callers turned away.        *)
(***************************************************************************)
EXTENDS AssertionService

A(device, counter, digest) ==
    [well_formed |-> TRUE, device |-> device, digest |-> digest, counter |-> counter,
     signed |-> TRUE]

\* Counters 1 and 2, each with two payloads; any order, any repetition.
MCConflicts == {A("dev", c, g) : c \in 1 .. 2, g \in {"x", "y"}}

\* Every way to be turned away early.
MCEarly ==
    {A("ghost", 1, "x"), A("foreign", 1, "x"), [A("dev", 1, "x") EXCEPT !.signed = FALSE],
     [A("dev", 1, "x") EXCEPT !.well_formed = FALSE]}

\* A counter no App Attest key signs, but the code does not refuse.
MCZero == A("dev", 0, "x")

MCRequests == MCConflicts \cup MCEarly \cup {MCZero}
=============================================================================
