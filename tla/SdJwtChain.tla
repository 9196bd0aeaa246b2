----------------------------- MODULE SdJwtChain -----------------------------
(***************************************************************************)
(* Verification of an SD-JWT delegation chain (crates/sdjwt/src/verify.rs):*)
(* a root, then links that are each signed with the key the element before *)
(* them confirms and that each commit to that element by a hash.  The      *)
(* operators answer "ok" or the name of the ErrorKind, in the order of the *)
(* code's early returns.                                                   *)
(*                                                                         *)
(*   presentation  [root, links, key_binding]                              *)
(*   key_binding   None, or the final KB-JWT: [typ, signed_by, sd_hash,    *)
(*                 iat, aud, nonce, exp, nbf]                              *)
(*   element       [jwt, sd_alg, typ, signed_by, disclosures, disclosed,   *)
(*                 ...]: the disclosures it is presented with, and which   *)
(*                 elements of the delegate payload they reveal;           *)
(*     a credential root has its claims in `claims`; every other element   *)
(*     has the list `delegate_payload` of [digest, claims], where `digest` *)
(*     says that the claims are concealed until their index is disclosed,  *)
(*     and an envelope: iat, aud, nonce, exp, nbf, sd_hash,                *)
(*     issuer_jwt_hash                                                     *)
(*   claims        [exp, nbf, cnf, ...]                                    *)
(*   opts          [now, root_typ, root_form, key_binding, nonce,          *)
(*                  audience, leeway, max_age, max_future, max_links]      *)
(*                                                                         *)
(* `jwt` identifies the signed JWT, disclosures aside; a signature is the  *)
(* key it verifies under; a digest is the pair it is computed from.        *)
(***************************************************************************)
EXTENDS Integers, Sequences, FiniteSets

CONSTANTS
    None,   \* an absent claim
    Bad     \* a claim of the wrong JSON type, a key that cannot be read

KB_JWT == "kb+jwt"
KB_SD_JWT == "kb+sd-jwt"
KB_SD_JWT_KB == {"kb-sd-jwt+kb", "kb+sd-jwt+kb"}  \* draft-01 and draft-00

\* The first of the answers f[1], f[2], ... that is not "ok".
first_error(f) ==
    LET failing == {i \in DOMAIN f : f[i] # "ok"}
    IN  IF failing = {} THEN "ok" ELSE f[CHOOSE i \in failing : \A j \in failing : i <= j]

digest(alg, input) == <<alg, input>>

\* An element with the disclosures it is presented with.
serialize(e) == <<e.jwt, e.disclosures>>

-----------------------------------------------------------------------------
check_validity(claims, opts, require_exp) ==
    IF claims.exp = Bad THEN "InvalidClaim"
    ELSE IF claims.exp = None /\ require_exp THEN "MissingExp"
    ELSE IF claims.exp # None /\ opts.now >= claims.exp + opts.leeway THEN "Expired"
    ELSE IF claims.nbf = Bad THEN "InvalidClaim"
    ELSE IF claims.nbf # None /\ opts.now + opts.leeway < claims.nbf THEN "NotYetValid"
    ELSE "ok"

\* A cnf nobody needs may be one that cannot be used.
read_cnf(claims, required) ==
    IF required /\ claims.cnf = None THEN "MissingCnf"
    ELSE IF required /\ claims.cnf = Bad THEN "UnsupportedKey"
    ELSE "ok"

\* Exactly one of the two hashes, under the previous element's algorithm.
check_hash_binding(e, prev) ==
    IF (e.sd_hash = None) = (e.issuer_jwt_hash = None) THEN "AmbiguousBinding"
    ELSE IF \/ e.sd_hash # None /\ e.sd_hash # digest(prev.sd_alg, serialize(prev))
            \/ /\ e.issuer_jwt_hash # None
               /\ e.issuer_jwt_hash # digest(prev.sd_alg, prev.jwt)
      THEN "BindingMismatch"
    ELSE "ok"

check_transaction(e, opts) ==
    IF e.aud # opts.audience THEN "AudienceMismatch"
    ELSE IF e.nonce # opts.nonce THEN "NonceMismatch"
    ELSE IF e.iat < opts.now - opts.max_age \/ e.iat > opts.now + opts.max_future
      THEN "IatOutOfWindow"
    ELSE "ok"

-----------------------------------------------------------------------------
\* The elements of the delegate payload that are left after processing.
shown(e) == {i \in DOMAIN e.delegate_payload : e.delegate_payload[i].digest => i \in e.disclosed}

delegate_payload(e) == e.delegate_payload[CHOOSE i \in shown(e) : TRUE].claims

\* process, check_raw_delegate_payload and take_delegate_payload: of several
\* elements all are concealed, and one in the end is shown, which sets no hash.
delegate_payload_error(e) ==
    LET raw == e.delegate_payload
    IN  IF raw = <<>> \/ (Len(raw) > 1 /\ \E i \in DOMAIN raw : ~raw[i].digest)
          THEN "DelegatePayload"
        ELSE IF ~(e.disclosed \subseteq {i \in DOMAIN raw : raw[i].digest})
          THEN "UnreferencedDisclosure"
        ELSE IF Cardinality(shown(e)) # 1 THEN "DelegatePayload"
        ELSE IF "_sd_alg" \in DOMAIN delegate_payload(e) THEN "ReservedName"
        ELSE "ok"

verify_root(root, issuer_key, opts, needs_cnf) ==
    IF root.typ \notin opts.root_typ THEN "WrongTyp"
    ELSE IF root.signed_by # issuer_key THEN "BadSignature"
    ELSE IF opts.root_form = "Credential"
      THEN first_error(<<check_validity(root.claims, opts, TRUE),
                         read_cnf(root.claims, needs_cnf)>>)
    ELSE IF delegate_payload_error(root) # "ok" THEN delegate_payload_error(root)
    ELSE LET claims == delegate_payload(root) IN
         first_error(<<check_validity(root, opts, FALSE), check_validity(claims, opts, TRUE),
                       read_cnf(claims, needs_cnf)>>)

\* cnf is the key the previous element confirms.
verify_link(e, prev, cnf, is_last, needs_cnf, opts) ==
    LET terminal == e.typ = KB_SD_JWT
        bound == opts.key_binding = "TerminalLink" /\ is_last
        allowed == IF bound THEN {KB_SD_JWT}
                   ELSE IF is_last /\ opts.key_binding = "NotRequired"
                     THEN {KB_SD_JWT} \cup KB_SD_JWT_KB
                   ELSE KB_SD_JWT_KB
    IN  IF e.typ \notin allowed THEN "WrongTyp"
        ELSE IF e.signed_by # cnf THEN "BadSignature"
        ELSE IF check_hash_binding(e, prev) # "ok" THEN check_hash_binding(e, prev)
        ELSE IF e.iat \in {None, Bad} \/ {e.aud, e.nonce} \cap {None, Bad} # {}
          THEN "InvalidClaim"
        ELSE IF delegate_payload_error(e) # "ok" THEN delegate_payload_error(e)
        ELSE LET claims == delegate_payload(e) IN
             IF terminal /\ claims.cnf # None THEN "UnexpectedCnf"
             ELSE IF ~terminal /\ claims.cnf = None THEN "MissingCnf"
             ELSE first_error(<<
                 IF terminal THEN "ok" ELSE read_cnf(claims, needs_cnf),
                 check_validity(e, opts, FALSE),
                 check_validity(claims, opts, ~terminal),
                 IF bound THEN check_transaction(e, opts)
                 ELSE IF e.iat > opts.now + opts.max_future THEN "IatOutOfWindow" ELSE "ok">>)

\* A KB-JWT is signed by the key the last element confirms, over that element
\* with its disclosures.
verify_kb_jwt(kb, last, cnf, opts) ==
    IF kb.typ # KB_JWT THEN "WrongTyp"
    ELSE IF kb.signed_by # cnf THEN "BadSignature"
    ELSE IF kb.sd_hash \in {None, Bad} THEN "InvalidClaim"
    ELSE IF kb.sd_hash # digest(last.sd_alg, serialize(last)) THEN "BindingMismatch"
    ELSE IF kb.iat \in {None, Bad} \/ {kb.aud, kb.nonce} \cap {None, Bad} # {} THEN "InvalidClaim"
    ELSE first_error(<<check_transaction(kb, opts), check_validity(kb, opts, FALSE)>>)

-----------------------------------------------------------------------------
elements(p) == <<p.root>> \o p.links

\* The claims each element vouches for, root first.
claims_of(p, root_form) ==
    [i \in 1 .. Len(p.links) + 1 |->
        IF i = 1 /\ root_form = "Credential" THEN p.root.claims
        ELSE delegate_payload(elements(p)[i])]

\* Whether the presentation ends the way the verifier's policy wants.
shape_error(p, opts) ==
    IF Len(p.links) > opts.max_links THEN "Malformed"
    ELSE IF opts.key_binding # "KbJwt" /\ p.key_binding # None THEN "UnexpectedKeyBinding"
    ELSE IF opts.key_binding = "KbJwt" /\ p.key_binding = None THEN "MissingKeyBinding"
    ELSE IF opts.key_binding = "TerminalLink" /\ p.links = <<>> THEN "MissingKeyBinding"
    ELSE "ok"

\* Element by element; what is wrong with an element ends the loop.
verify(p, issuer_key, opts) ==
    LET n == Len(p.links)
        all == elements(p)
        kb == opts.key_binding = "KbJwt"
        claims == claims_of(p, opts.root_form)
        cnf(i) == claims[i].cnf
        upto[i \in 0 .. n] ==
            IF i = 0 THEN verify_root(p.root, issuer_key, opts, n > 0 \/ kb)
            ELSE IF upto[i - 1] # "ok" THEN upto[i - 1]
            ELSE verify_link(all[i + 1], all[i], cnf(i), i = n, i < n \/ kb, opts)
    IN  IF shape_error(p, opts) # "ok" THEN shape_error(p, opts)
        ELSE IF upto[n] # "ok" \/ ~kb THEN upto[n]
        ELSE verify_kb_jwt(p.key_binding, all[n + 1], cnf(n + 1), opts)

=============================================================================
