---------------------------- MODULE DeviceRegister --------------------------
(***************************************************************************)
(* What the Issuer Service promises about an enrolled device: its counter  *)
(* is an atomic register that only an active device advances, and being    *)
(* flagged or revoked is final.  Handlers, row locks and transactions are  *)
(* implementation.                                                         *)
(***************************************************************************)
EXTENDS Naturals

CONSTANTS
    Devices,    \* device ids
    Counters,   \* counters an assertion may carry
    Digests,    \* payload digests
    None        \* no digest yet

VARIABLE devices    \* id -> [counter, last_payload_digest, status]

Enrolled == [counter |-> 0, last_payload_digest |-> None, status |-> "active"]

Init == devices = [d \in Devices |-> Enrolled]

Accept(d, c, g) ==
    /\ devices[d].status = "active"
    /\ devices[d].counter < c
    /\ devices' = [devices EXCEPT ![d] =
                    [counter |-> c, last_payload_digest |-> g, status |-> "active"]]

Deactivate(d, status) ==
    /\ devices[d].status = "active"
    /\ devices' = [devices EXCEPT ![d].status = status]

Next ==
    \E d \in Devices :
        \/ \E c \in Counters, g \in Digests : Accept(d, c, g)
        \/ \E status \in {"flagged", "revoked"} : Deactivate(d, status)

Spec == Init /\ [][Next]_devices
=============================================================================
