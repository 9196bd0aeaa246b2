---------------------------- MODULE CoreVerifier ----------------------------
(***************************************************************************)
(* The v0 trust decision (crates/core/src/verifier.rs verify_inner) as     *)
(* operators, one per group of early returns, in the code's order.  Each   *)
(* returns "ok" or the VerificationFailure the code returns first.         *)
(*                                                                         *)
(* A token is its payload plus what the cryptography says about it:        *)
(*   parses     from_jws succeeds (the payload fields mean nothing if not) *)
(*   signed_by  the key its signature verifies under, None for no key      *)
(* so verify_signature(key) succeeds iff signed_by = key.  A JWK that      *)
(* jwk_to_public_key rejects is the key None.                              *)
(*   link  [parses, signed_by, delegation_id, parent_delegation_id,        *)
(*          principal_id, principal_type, agent_id, agent_public_key,      *)
(*          scope, valid_from, valid_until, can_delegate,                  *)
(*          max_delegation_depth]                                          *)
(*   msg   [parses, signed_by, agent_id, audience, nonce, issued_at,       *)
(*          request]                                                       *)
(* A chain is leaf first: chain[1] is bound to the requesting agent and    *)
(* the last link is the one the principal issued.                          *)
(***************************************************************************)
EXTENDS Scope

CONSTANTS
    Registry,   \* principal_id -> registered key, or None
    Audience,   \* the audience this verifier answers to
    MaxAge,     \* max_message_age
    MaxSkew     \* max_clock_skew

ASSUME FreshnessAssumption == MaxAge \in Nat \ {0} /\ MaxSkew \in Nat \ {0}

\* types.rs VerificationFailure, and "ok".
Outcomes ==
    {"ok", "InvalidDelegationSignature", "InvalidAgentSignature", "AudienceMismatch",
     "NonceReplayed", "StaleMessage", "MessageFromFuture", "NotYetValid", "Expired",
     "Revoked", "ChainBroken", "ChainTooDeep", "ScopeNotNarrowed", "ScopeDenied",
     "KeyResolutionFailed"}

-----------------------------------------------------------------------------
\* token.rs: the typestate's only way from Unverified to Verified.
verify_signature(token, key) == token.parses /\ key # None /\ token.signed_by = key

\* The key a link must be signed with: the parent's agent key, peeked from the
\* unverified parent, or for the root the principal's registered key.
signer_key(chain, i) ==
    IF i < Len(chain) THEN chain[i + 1].agent_public_key
                      ELSE Registry[chain[i].principal_id]

\* Mutant: expiry is not checked.
link_failure_NoExpiry(chain, i, now, revoked) ==
    IF ~verify_signature(chain[i], signer_key(chain, i))
      THEN "InvalidDelegationSignature"
    ELSE IF chain[i].delegation_id \in revoked THEN "Revoked"
    ELSE "ok"

\* Mutant: revocation is not checked.
link_failure_NoStatus(chain, i, now, revoked) ==
    IF ~verify_signature(chain[i], signer_key(chain, i))
      THEN "InvalidDelegationSignature"
    ELSE IF now < chain[i].valid_from THEN "NotYetValid"
    ELSE IF now > chain[i].valid_until THEN "Expired"
    ELSE "ok"

\* One iteration of the signature loop.
link_failure(chain, i, now, revoked) ==
    IF ~chain[i].parses
      THEN "InvalidDelegationSignature"
    ELSE IF i < Len(chain) /\ ~chain[i + 1].parses
      THEN "ChainBroken"
    ELSE IF i = Len(chain) /\ signer_key(chain, i) = None
      THEN "KeyResolutionFailed"
    ELSE IF ~verify_signature(chain[i], signer_key(chain, i))
      THEN "InvalidDelegationSignature"
    ELSE IF now < chain[i].valid_from
      THEN "NotYetValid"
    ELSE IF now > chain[i].valid_until
      THEN "Expired"
    ELSE IF chain[i].delegation_id \in revoked
      THEN "Revoked"
    ELSE "ok"

\* One iteration of the chain integrity loop: link i against its parent.
integrity_failure(chain, i) ==
    LET child == chain[i]
        parent == chain[i + 1]
    IN  IF \/ child.parent_delegation_id # parent.delegation_id
           \/ child.principal_id # parent.principal_id
           \/ child.principal_type # parent.principal_type
           \/ child.valid_from < parent.valid_from
           \/ child.valid_until > parent.valid_until
           \/ ~parent.can_delegate
          THEN "ChainBroken"
        ELSE IF parent.max_delegation_depth # None /\ i > parent.max_delegation_depth
          THEN "ChainTooDeep"
        ELSE IF ~narrows(parent.scope, child.scope)
          THEN "ScopeNotNarrowed"
        ELSE "ok"

\* Mutant: the message may name another agent than the leaf.
message_failure_AnyAgent(leaf, msg, now) ==
    IF ~verify_signature(msg, leaf.agent_public_key) THEN "InvalidAgentSignature"
    ELSE IF msg.audience # Audience THEN "AudienceMismatch"
    ELSE IF msg.issued_at > now + MaxSkew THEN "MessageFromFuture"
    ELSE IF msg.issued_at < now - MaxAge THEN "StaleMessage"
    ELSE "ok"

\* The message checks before the nonce is consulted.
message_failure(leaf, msg, now) ==
    IF ~verify_signature(msg, leaf.agent_public_key)
      THEN "InvalidAgentSignature"
    ELSE IF msg.audience # Audience
      THEN "AudienceMismatch"
    ELSE IF msg.agent_id # leaf.agent_id
      THEN "ChainBroken"
    ELSE IF msg.issued_at > now + MaxSkew
      THEN "MessageFromFuture"
    ELSE IF msg.issued_at < now - MaxAge
      THEN "StaleMessage"
    ELSE "ok"

\* What the nonce store and the leaf scope have the last word on.
final_failure(leaf, msg, now, seen) ==
    IF seen
      THEN "NonceReplayed"
    ELSE IF ~matches(leaf.scope, msg.request, now)
      THEN "ScopeDenied"
    ELSE "ok"

-----------------------------------------------------------------------------
\* The first of the failures f[1], f[2], ... that is not "ok".
first_failure(f) ==
    LET bad == {k \in DOMAIN f : f[k] # "ok"}
    IN  IF bad = {} THEN "ok" ELSE f[CHOOSE k \in bad : \A j \in bad : k <= j]

\* The whole decision, for a caller whose stores answer from a snapshot.
verify_inner(chain, msg, now, revoked, seen) ==
    LET links == first_failure([i \in 1 .. Len(chain) |-> link_failure(chain, i, now, revoked)])
        integrity == first_failure([i \in 1 .. Len(chain) - 1 |-> integrity_failure(chain, i)])
        message == message_failure(chain[1], msg, now)
    IN  IF chain = <<>> THEN "ChainBroken"
        ELSE IF links # "ok" THEN links
        ELSE IF integrity # "ok" THEN integrity
        ELSE IF message # "ok" THEN message
        ELSE final_failure(chain[1], msg, now, seen)

\* receipt.rs / issue_receipt: signed on every decision.  A rejected receipt
\* names what could be read, unverified, off the leaf and the message.
issue_receipt(chain, msg, failure, now) ==
    LET leaf == IF chain # <<>> /\ chain[1].parses THEN {chain[1]} ELSE {}
        agents == IF msg.parses THEN {msg.agent_id} ELSE {l.agent_id : l \in leaf}
    IN  [outcome |-> failure,
         delegation_ids |->
            IF failure = "ok"
              THEN {chain[i].delegation_id : i \in 1 .. Len(chain)}
              ELSE {l.delegation_id : l \in leaf},
         agent_id |-> IF agents = {} THEN None ELSE CHOOSE a \in agents : TRUE,
         request_digest |-> msg,
         decided_at |-> now]
=============================================================================
