--------------------------- MODULE MandateDecision --------------------------
(***************************************************************************)
(* What the v1 verifier decides of a presentation, short of its stores     *)
(* (crates/authority/src/verifier.rs, check and authorize): operators that *)
(* answer "ok" or the Reason of the rejection.  MandateCalls runs them     *)
(* against the stores.                                                     *)
(*                                                                         *)
(*   request  [v, p, issuer_key, tx]: verifier, presentation, the root's   *)
(*            key and the transaction context; p = None does not parse     *)
(*   v        the Policy and which stores the verifier was given           *)
(*   tx       [nonce (None: the agent's own), checkout_jwt, merchant_key,  *)
(*            expected_checkout_hash, expected_transaction_id,             *)
(*            open_checkout_hash]                                          *)
(*   claims   [form, family, constraints, body, exp, nbf, cnf, status] of  *)
(*            a mandate, [vct, exp, nbf, cnf, status] of a credential      *)
(*   checkout JWT  [text, signed_by, payload]                              *)
(***************************************************************************)
EXTENDS Mandate

CONSTANTS
    Bad,            \* a claim of the wrong type, see SdJwtChain
    U64Max,         \* u64::MAX, the largest quantity
    Unreachable     \* entries of status lists that cannot be fetched

INSTANCE SdJwtChain

-----------------------------------------------------------------------------
(***************************************************************************)
(* check: what is decided before any store is asked.                       *)
(***************************************************************************)
root_form(v) == IF v.root = "credential" THEN "Credential" ELSE "DelegatePayload"

\* The nonce the last element must carry; read off it, unverified, when the
\* agent chose it.
nonce_of(r) == IF r.tx.nonce # None THEN r.tx.nonce ELSE elements(r.p)[Len(r.p.links) + 1].nonce

options(r, now) ==
    [now |-> now, root_typ |-> r.v.root_typ, root_form |-> root_form(r.v),
     key_binding |-> IF r.p.links = <<>> THEN "NotRequired" ELSE "TerminalLink",
     nonce |-> IF r.p.links = <<>> THEN None ELSE nonce_of(r), audience |-> r.v.audience,
     leeway |-> r.v.leeway, max_age |-> r.v.max_age, max_future |-> r.v.max_future,
     max_links |-> r.v.max_open_mandates + 1]

\* The mandates of a verified chain, the closed one last: every element, but
\* for a credential at the root.
first_mandate(v) == IF v.root = "credential" THEN 2 ELSE 1
chain_claims(r) == claims_of(r.p, root_form(r.v))
mandate_claims(r) == SubSeq(chain_claims(r), first_mandate(r.v), Len(r.p.links) + 1)
mandate_elements(r) == SubSeq(elements(r.p), first_mandate(r.v), Len(r.p.links) + 1)
open_count(r) == Len(mandate_claims(r)) - 1
leaf_claims(r) == Last(mandate_claims(r))

check_failure(r, now) ==
    IF r.p = None THEN "Credential"
    ELSE IF r.p.links # <<>> /\ nonce_of(r) = None THEN "Freshness"
    ELSE IF r.p.links = <<>> /\ ~(r.v.allow_unbound_root_mandate /\ r.v.root = "user_mandate")
      THEN "Unbound"
    ELSE IF verify(r.p, r.issuer_key, options(r, now)) # "ok" THEN "Credential"
    ELSE IF r.v.root = "credential" /\ r.p.root.claims.vct \notin r.v.vct THEN "RootNotAccepted"
    ELSE IF mandate_claims(r) = <<>> THEN "NoMandate"
    ELSE IF open_count(r) > r.v.max_open_mandates THEN "TooManyMandates"
    ELSE "ok"

-----------------------------------------------------------------------------
(***************************************************************************)
(* authorize: status, mandates, bindings.                                  *)
(***************************************************************************)
\* Mutant: a list that cannot be fetched revokes nothing.
status_failure_FailOpen(v, claims, list) ==
    IF claims.status = None \/ ~v.has_status \/ claims.status \in Unreachable THEN "ok"
    ELSE IF list[claims.status] # "Valid" THEN "Revoked" ELSE "ok"

\* check_status; NoStatusList fails for every claim it is asked about.
status_failure(v, claims, list) ==
    IF claims.status = None THEN "ok"
    ELSE IF ~v.has_status \/ claims.status \in Unreachable THEN "StatusUnavailable"
    ELSE IF list[claims.status] # "Valid" THEN "Revoked"
    ELSE "ok"

Types == ListTypes \cup Stateful \cup
    {"aap.amount", "aap.counterparties", "aap.time_windows", "aap.delegation",
     "checkout.line_items", "payment.amount_range", "payment.execution_date",
     "payment.reference"}

constraints_of(claims) == IF claims.constraints = None THEN <<>> ELSE claims.constraints

\* OpenMandate::parse, with the distinction Reason::code makes: a constraint
\* the verifier does not know, or cannot apply, leaves the mandate undecided.
open_failure(claims) ==
    LET cs == constraints_of(claims)
        answer(c) == IF c.type \notin Types THEN "MandateUnresolved"
                     ELSE IF ~parses(c) THEN "Mandate"
                     ELSE IF family(c) \notin {None, claims.family} THEN "MandateUnresolved"
                     ELSE "ok"
    IN  IF claims.form # "open" THEN "Mandate"
        ELSE IF first_error([i \in DOMAIN cs |-> answer(cs[i])]) # "ok"
          THEN first_error([i \in DOMAIN cs |-> answer(cs[i])])
        ELSE IF parse_error(claims.family, cs) THEN "Mandate"
        ELSE "ok"

\* Members a closed mandate must have; an action has no others than its own.
content_parses(fam, body) ==
    CASE fam = "authority" ->
            /\ "action" \in DOMAIN body
            /\ DOMAIN body \subseteq {"action", "resource", "amount", "counterparty",
                                      "data_categories"}
      [] fam = "checkout" -> "checkout_hash" \in DOMAIN body
      [] fam = "payment" ->
            {"transaction_id", "payee", "payment_amount", "payment_instrument"} \subseteq DOMAIN body

closed_failure(claims) ==
    IF \/ claims.form # "closed" \/ claims.constraints # None
       \/ ~content_parses(claims.family, claims.body)
    THEN "Mandate" ELSE "ok"

\* Mutant: the hash of what is presented, disclosures included.
ledger_key_Presented(e) == digest("sha-256", serialize(e))

ledger_key(e) == digest("sha-256", e.jwt)

open_of(r, i) ==
    LET claims == mandate_claims(r)[i] IN
    open_mandate(claims.family, constraints_of(claims), claims.body,
                 ledger_key(mandate_elements(r)[i]))

closed_of(r) ==
    LET claims == leaf_claims(r) IN [family |-> claims.family, claims |-> claims.body]

\* An open mandate that cannot be revoked must expire soon.
unrevocable(r, claims, now) ==
    claims.status = None /\ claims.exp - now > r.v.max_validity_without_status

-----------------------------------------------------------------------------
\* Checkout::parse: one entry per distinct item, quantities added up.
add_item(items, li) ==
    IF \E k \in DOMAIN items : items[k][1] = li[1]
    THEN [k \in DOMAIN items |->
            IF items[k][1] = li[1] THEN <<li[1], items[k][2] + li[2]>> ELSE items[k]]
    ELSE Append(items, li)

checkout_of(payload) ==
    LET items == FoldLeft(add_item, <<>>, payload.line_items)
    IN  IF \/ \E k \in DOMAIN payload.line_items : payload.line_items[k][2] = 0
           \/ \E k \in DOMAIN items : items[k][2] > U64Max
        THEN None
        ELSE [merchant |-> payload.merchant, line_items |-> items]

\* The checkout JWT a closed mandate speaks of: disclosed, or the verifier's.
checkout_jwt(c, tx) ==
    IF get(c, "checkout_jwt") # None THEN c.checkout_jwt ELSE tx.checkout_jwt

\* The content is trusted if the JWT is the verifier's or the merchant's.
content_trusted(tx) == tx.checkout_jwt # None \/ tx.merchant_key # None

bind_checkout(c, alg, tx) ==
    LET jwt == checkout_jwt(c, tx)
    IN  IF get(c, "checkout_jwt") # None /\ tx.checkout_jwt # None /\ jwt # tx.checkout_jwt
          THEN "violated"
        ELSE IF jwt = None THEN "unresolved"
        ELSE IF digest(alg, jwt.text) # c.checkout_hash THEN "violated"
        ELSE IF tx.expected_checkout_hash \notin {None, c.checkout_hash} THEN "violated"
        ELSE IF ~content_trusted(tx) THEN "ok"
        ELSE IF tx.checkout_jwt = None /\ jwt.signed_by # tx.merchant_key THEN "violated"
        ELSE IF jwt.payload = None THEN "violated"
        ELSE IF checkout_of(jwt.payload) = None THEN "violated"
        ELSE "ok"

bind_payment(c, tx) ==
    IF tx.expected_transaction_id = None THEN "unresolved"
    ELSE IF tx.expected_transaction_id # c.transaction_id THEN "violated"
    ELSE "ok"

binding(r) ==
    LET c == closed_of(r)
        leaf == mandate_elements(r)[open_count(r) + 1]
    IN  CASE c.family = "checkout" -> bind_checkout(c.claims, leaf.sd_alg, r.tx)
          [] c.family = "payment" -> bind_payment(c.claims, r.tx)
          [] OTHER -> "ok"

\* Mutant: the leaf counts as a level and is never counted.
depth_failure_OffByOne(r, i) ==
    IF open_count(r) - 1 - i > open_of(r, i).max_depth THEN "DelegationDepth" ELSE "ok"

depth_failure(r, i) ==
    IF open_count(r) - i > open_of(r, i).max_depth THEN "DelegationDepth" ELSE "ok"

\* Closed mandate, open mandates one after the other, depths, binding.
mandates_failure(r, now) ==
    LET n == open_count(r)
        all == mandate_claims(r)
        opens == first_error([i \in 1 .. n |->
                    IF open_failure(all[i]) # "ok" THEN open_failure(all[i])
                    ELSE IF unrevocable(r, all[i], now) THEN "Unrevocable"
                    ELSE "ok"])
        depths == first_error([i \in 1 .. n |-> depth_failure(r, i)])
    IN  IF closed_failure(leaf_claims(r)) # "ok" THEN closed_failure(leaf_claims(r))
        ELSE IF opens # "ok" THEN opens
        ELSE IF depths # "ok" THEN depths
        ELSE IF binding(r) = "violated" THEN "Binding"
        ELSE IF binding(r) = "unresolved" THEN "BindingUnresolved"
        ELSE "ok"

env_of(r, now, known) ==
    [now |-> now, ledger |-> IF r.v.has_ledger THEN known ELSE None,
     checkout |-> IF closed_of(r).family = "checkout" /\ content_trusted(r.tx)
                  THEN checkout_of(checkout_jwt(closed_of(r).claims, r.tx).payload) ELSE None,
     open_checkout_hash |-> r.tx.open_checkout_hash]

=============================================================================
