------------------------ MODULE MCEnrollmentService -------------------------
(***************************************************************************)
(* Instances of EnrollmentService: two devices, two challenges, and bodies *)
(* whose proofs are bound to something else.                               *)
(***************************************************************************)
EXTENDS EnrollmentService

\* An honest body: both proofs bound to the same challenge and keys.
Body(c, key, thumb) ==
    [well_formed |-> TRUE, challenge_id |-> c, key_id |-> key, thumbprint |-> thumb,
     pop |-> [signed |-> TRUE, purpose_ok |-> TRUE, jwk_thumbprint |-> thumb,
              challenge |-> c, key_id |-> key],
     attestation |-> [chain_ok |-> TRUE, challenge |-> c, thumbprint |-> thumb,
                      key_id |-> key, policy_ok |-> TRUE]]

\* The same device twice, and another with the same App Attest key.
MCRaces == {Body("c1", "k1", "t1"), Body("c2", "k1", "t1"), Body("c2", "k1", "t2")}

\* Proofs made for the other challenge, bad proofs, a body that does not parse.
MCMisbound ==
    {[Body("c1", "k1", "t1") EXCEPT !.challenge_id = "c2"],
     [Body("c2", "k2", "t3") EXCEPT !.attestation.challenge = "c1"],
     [Body("c1", "k1", "t1") EXCEPT !.pop.signed = FALSE],
     [Body("c1", "k1", "t1") EXCEPT !.well_formed = FALSE]}

MCRequests == MCRaces \cup MCMisbound
=============================================================================
