--------------------------- MODULE MCMandateCalls ---------------------------
(***************************************************************************)
(* Requests for MandateCalls: honest chains of every shape the verifier    *)
(* accepts, and for each check one request that differs from an honest one *)
(* in the field that check is about.                                       *)
(***************************************************************************)
EXTENDS MandateCalls, TLC

MCLocalMinute(zone, now) == now
MCInstantRange(text) == <<0, 0>>
MCAddMonths(t, n) == t

Depth(d) == [type |-> "aap.delegation", max_depth |-> d]
Actions(s) == [type |-> "aap.actions", allowed |-> s]
Budget(m) == [type |-> "payment.budget", currency |-> "EUR", max |-> m]
PayRange(m) == [type |-> "payment.amount_range", currency |-> "EUR", min |-> None, max |-> m]
Payees(s) == [type |-> "payment.allowed_payees", allowed |-> s]

None_ == [x \in {} |-> None]

\* Claims of credentials, open and closed mandates.
User == [vct |-> "user", exp |-> 9, nbf |-> None, cnf |-> "u", status |-> "s1"]
Open(fam, cs, key) == [form |-> "open", family |-> fam, constraints |-> cs, body |-> None_,
                       exp |-> 3, nbf |-> None, cnf |-> key, status |-> None]
Closed(fam, body) == [form |-> "closed", family |-> fam, constraints |-> None, body |-> body,
                      exp |-> None, nbf |-> None, cnf |-> None, status |-> None]

\* Elements.  `made_over` is the element the signer had before it.
Credential(claims) == [jwt |-> "cred", sd_alg |-> "sha-256", typ |-> "dc+sd-jwt",
                       signed_by |-> "iss", disclosures |-> {}, disclosed |-> {}, claims |-> claims]
Plain(claims) == <<[digest |-> FALSE, claims |-> claims]>>
Element(jwt, typ, key, payload, disclosed, nonce) ==
    [jwt |-> jwt, sd_alg |-> "sha-256", typ |-> typ, signed_by |-> key,
     disclosures |-> disclosed, disclosed |-> disclosed,
     delegate_payload |-> payload, iat |-> 1, aud |-> "rp", nonce |-> nonce, exp |-> None,
     nbf |-> None, sd_hash |-> None, issuer_jwt_hash |-> None, made_over |-> None]
Over(e, prev) == [e EXCEPT !.made_over = prev.jwt, !.sd_hash = digest(prev.sd_alg, serialize(prev))]
OverJwt(e, prev) == [e EXCEPT !.made_over = prev.jwt, !.issuer_jwt_hash = digest(prev.sd_alg, prev.jwt)]
DelegationLink(jwt, key, claims) == Element(jwt, "kb-sd-jwt+kb", key, Plain(claims), {}, "x")
Terminal(jwt, key, claims, nonce) == Element(jwt, KB_SD_JWT, key, Plain(claims), {}, nonce)

Policy == [audience |-> "rp", root |-> "credential", root_typ |-> {"dc+sd-jwt"}, vct |-> {"user"},
           leeway |-> 0, max_age |-> 1, max_future |-> 1, max_open_mandates |-> 2,
           max_validity_without_status |-> 3, allow_unbound_root_mandate |-> FALSE,
           has_status |-> TRUE, has_nonces |-> TRUE, has_ledger |-> TRUE]
UserPolicy == [Policy EXCEPT !.root = "user_mandate", !.root_typ = {"JWT"}, !.max_open_mandates = 1]

Tx == [nonce |-> None, checkout_jwt |-> None, merchant_key |-> None,
       expected_checkout_hash |-> None, expected_transaction_id |-> "t1",
       open_checkout_hash |-> None]

Request(v, root, links, key, tx) ==
    [v |-> v, p |-> [root |-> root, links |-> links, key_binding |-> None],
     issuer_key |-> key, tx |-> tx]

-----------------------------------------------------------------------------
\* An action under credential, mandate and sub-mandate.
Cred == Credential(User)
Act == Closed("authority", [action |-> "read"])
Open1 == Over(DelegationLink("o1", "u", Open("authority", <<Actions({"read"}), Depth(1)>>, "a")), Cred)
Open2 == Over(DelegationLink("o2", "a", Open("authority", <<Actions({"read", "pay"})>>, "b")), Open1)
LeafA == Over(Terminal("c1", "a", Act, "n1"), Open1)
LeafB == Over(Terminal("c2", "b", Act, "n1"), Open2)

Short == Request(Policy, Cred, <<Open1, LeafA>>, "iss", Tx)
Long == Request(Policy, Cred, <<Open1, Open2, LeafB>>, "iss", Tx)

\* Payments of two agents under one user-signed mandate with two alternatives,
\* of which each presentation discloses one.
Pay(n) == Closed("payment", [transaction_id |-> "t1", payee |-> [id |-> "m1"],
    payment_amount |-> [minor |-> n, currency |-> "EUR"], payment_instrument |-> [id |-> "i"]])
Choice(m, key) == [digest |-> TRUE, claims |->
    Open("payment", <<PayRange(2), Budget(2), Payees({"m1", m})>>, key)]
PayRoot(d) == Element("p1", "JWT", "u", <<Choice("m2", "a"), Choice("m3", "a")>>, {d}, "x")
PayLeaf(jwt, n, nonce) == OverJwt(Terminal(jwt, "a", Pay(n), nonce), PayRoot(1))
Payment(d, jwt, n, nonce) == Request(UserPolicy, PayRoot(d), <<PayLeaf(jwt, n, nonce)>>, "u", Tx)

\* A checkout whose JWT the mandate discloses and the merchant signed.
Cart == [text |-> "j1", signed_by |-> "m",
         payload |-> [merchant |-> "m1", line_items |-> <<<<"x", 1>>, <<"x", 1>>>>]]
Buy == Closed("checkout", [checkout_hash |-> digest("sha-256", "j1"), checkout_jwt |-> Cart])
BuyOpen == [type |-> "checkout.line_items",
            items |-> <<[id |-> "r", acceptable |-> {"x"}, quantity |-> 2]>>]
BuyRoot == Element("k1", "JWT", "u", Plain(Open("checkout", <<BuyOpen>>, "a")), {}, "x")
Purchase(tx) == Request(UserPolicy, BuyRoot, <<Over(Terminal("k2", "a", Buy, "n3"), BuyRoot)>>, "u", tx)
BuyTx == [Tx EXCEPT !.merchant_key = "m", !.nonce = "n3"]

\* A closed mandate the user signed, the whole presentation.
Present == Request([UserPolicy EXCEPT !.allow_unbound_root_mandate = TRUE],
    Element("h1", "JWT", "u", Plain([Act EXCEPT !.exp = 2]), {}, None), <<>>, "u", Tx)

Honest == {Short, Long, Payment(1, "q1", 1, "n2"), Payment(2, "q2", 2, "n4"),
           Purchase(BuyTx), Present}

-----------------------------------------------------------------------------
\* The last link of Short, the root of Short and the payment, changed.
Leaf(e) == Request(Policy, Cred, <<Open1, e>>, "iss", Tx)
Root(claims) == LET c == Credential(claims) IN Request(Policy, c, <<Over(Open1, c), LeafA>>, "iss", Tx)
Mid(claims) ==
    LET e == Over(DelegationLink("o1", "u", claims), Cred)
    IN  Request(Policy, Cred, <<e, Over(Terminal("c1", "a", Act, "n1"), e)>>, "iss", Tx)
MidClaims == Open("authority", <<Actions({"read"})>>, "a")

\* Turned away by `check`.
Refused ==
    {[Short EXCEPT !.p = None], [Short EXCEPT !.p.key_binding = "kb"], [Short EXCEPT !.issuer_key = "x"],
     [Short EXCEPT !.p.links = <<>>], [Short EXCEPT !.v.root_typ = {"JWT"}],
     [Short EXCEPT !.v.vct = {"other"}], [Short EXCEPT !.v.audience = "other"],
     [Short EXCEPT !.tx.nonce = "other"], [Short EXCEPT !.p.links = <<LeafA>>],
     [Short EXCEPT !.v.max_open_mandates = 0],
     Leaf([LeafA EXCEPT !.nonce = None]), Leaf([LeafA EXCEPT !.iat = 5]), Leaf([LeafA EXCEPT !.iat = Bad]),
     Leaf([LeafA EXCEPT !.signed_by = "b"]), Leaf([LeafA EXCEPT !.typ = "kb-sd-jwt+kb"]),
     Leaf([LeafA EXCEPT !.sd_hash = None]), Leaf([LeafA EXCEPT !.exp = 0]),
     Leaf([LeafA EXCEPT !.sd_hash = digest("sha-512", serialize(Open1)), !.jwt = "c3"]),
     Leaf([LeafA EXCEPT !.delegate_payload = <<>>]),
     Leaf([LeafA EXCEPT !.delegate_payload = Plain(Act @@ "_sd_alg" :> "sha-512")]),
     [Short EXCEPT !.p.links = <<Open1, LeafB>>],
     Root([User EXCEPT !.exp = None]), Root([User EXCEPT !.nbf = 8]), Root([User EXCEPT !.cnf = Bad]),
     Mid([MidClaims EXCEPT !.cnf = None]), Mid([MidClaims EXCEPT !.form = "closed"])}

\* Turned away later, by what has nothing to do with the time.
RefusedLater ==
    {[Short EXCEPT !.v.has_status = FALSE], [Short EXCEPT !.v.has_nonces = FALSE],
     Leaf([LeafA EXCEPT !.delegate_payload = Plain([Act EXCEPT !.cnf = "c"])]),
     Leaf([LeafA EXCEPT !.delegate_payload = Plain([Act EXCEPT !.constraints = <<>>])]),
     Leaf([LeafA EXCEPT !.delegate_payload = Plain(Closed("authority", [action |-> "pay"]))]),
     Leaf([LeafA EXCEPT !.delegate_payload = Plain(Closed("authority", [resource |-> "r"]))]),
     Root([User EXCEPT !.status = "s3"]),
     Mid([MidClaims EXCEPT !.exp = 8]), Mid([MidClaims EXCEPT !.constraints = None]),
     Mid([MidClaims EXCEPT !.constraints = <<[type |-> "aap.rate"]>>]),
     Mid([MidClaims EXCEPT !.constraints = <<Budget(1)>>]),
     [Payment(1, "q1", 1, "n2") EXCEPT !.tx.expected_transaction_id = None],
     [Payment(1, "q1", 1, "n2") EXCEPT !.tx.expected_transaction_id = "t2"],
     [Payment(1, "q1", 1, "n2") EXCEPT !.v.has_ledger = FALSE],
     [Payment(1, "q1", 3, "n2") EXCEPT !.tx.nonce = "n2"],
     Purchase([BuyTx EXCEPT !.merchant_key = None]), Purchase([BuyTx EXCEPT !.merchant_key = "z"]),
     Purchase([BuyTx EXCEPT !.checkout_jwt = [Cart EXCEPT !.text = "j2"]]),
     Purchase([BuyTx EXCEPT !.expected_checkout_hash = "other"])}

\* They are good for the first instant only, which keeps the states few.
Brief(r) == [r EXCEPT !.p.links[Len(r.p.links)].exp = 1]

\* Two links where the mandate allows none to follow, and two open mandates
\* below a user-signed one where the policy allows one.
TooDeep ==
    LET o1 == Over(DelegationLink("o1", "u", MidClaims), Cred)
        o2 == Over(DelegationLink("o2", "a", Open("authority", <<Actions({"read"})>>, "b")), o1)
    IN  Request(Policy, Cred, <<o1, o2, Over(Terminal("c2", "b", Act, "n1"), o2)>>, "iss", Tx)

\* A name of its own lets TLC evaluate the set once.
AllRequests == Honest \cup Refused \cup {Brief(r) : r \in RefusedLater \cup {TooDeep}}
MCRequests == AllRequests
ReplayRequests == {Short}
Symmetry == Permutations(Threads)
=============================================================================
