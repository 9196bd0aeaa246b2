----------------------------- MODULE SdJwtHolder ----------------------------
(***************************************************************************)
(* The way of a presentation from its issuer through the hands of several  *)
(* holders to a verifier, in crates/sdjwt: SdJwtBuilder::sign, then any    *)
(* sequence of Presentation::select, delegate and bind, the compact        *)
(* serialization, and Unverified::verify at the end.  A holder with other  *)
(* software may drop any disclosure.                                       *)
(*                                                                         *)
(* What conceal.rs, process.rs and SdJwt::select do with claim sets is     *)
(* given by constants, so that what the signatures protect can be told     *)
(* apart from it: SdJwtSelection puts the code's own in their place.       *)
(*                                                                         *)
(*   presentation  None or [root, links, key_binding]                      *)
(*   element       [jwt, sd_alg, typ, signed_by, payload, disclosures,     *)
(*                 iat, aud, nonce, exp, nbf, sd_hash, issuer_jwt_hash];   *)
(*                 `payload` is the value that was signed                  *)
(***************************************************************************)
EXTENDS SdJwtChain, ClaimTrees

CONSTANTS
    Build(_, _, _),     \* the [doc, disclosures] of an SdPayload, a hash, a salt
    SaltsOf(_),         \* how many salts that takes
    Process(_, _, _),   \* [errors, claims, ...] of a payload, disclosures, a hash
    Selectable(_, _),   \* whether the view and the pointers allow a selection
    SelectFrom(_, _, _),    \* of disclosures, the view and the pointers: what is kept
    PlaceOf(_, _, _, _),    \* where a path was before some paths were hidden
    PathsOf(_)          \* the paths into a value

CONSTANTS
    Roots,          \* [form, payload, typ, sd_alg] that the issuer may sign
    LinkPayloads,   \* sequences of SdPayloads that a holder may delegate
    LinkAlg,        \* the hash of links
    MaxLinks,       \* bound on links
    MaxPointers,    \* bound on the pointers of one selection
    MaxSteps        \* bound on delegations, selections and losses

ASSUME HolderBounds == {MaxLinks, MaxPointers, MaxSteps} \subseteq Nat

VARIABLES
    presentation,
    made,       \* history, per element: [claims, concealed, issued, origin,
                \* shown, sealed]: the claims in plain, the paths that were
                \* concealed, the disclosures as issued and the path of each,
                \* the paths disclosed now, and the disclosures over which
                \* a hash was signed, a set of one list at most
    salt,       \* random_salt: fresh numbers
    steps       \* delegations, selections and losses so far

vars == <<presentation, made, salt, steps>>

Init == presentation = None /\ made = <<>> /\ salt = 1 /\ steps = 0

-----------------------------------------------------------------------------
(***************************************************************************)
(* Elements                                                                *)
(***************************************************************************)
Delegated == Key("delegate_payload")
wrapped(items) == Object([n \in {"delegate_payload"} |-> Array(items)])

has_cnf(payload) == "cnf" \in DOMAIN payload.claims.obj

Element(jwt, alg, typ, signer, payload, disclosures) ==
    [jwt |-> jwt, sd_alg |-> alg, typ |-> typ, signed_by |-> signer,
     payload |-> payload, disclosures |-> disclosures, iat |-> 1, aud |-> "rp", nonce |-> "n",
     exp |-> None, nbf |-> None, sd_hash |-> None, issuer_jwt_hash |-> None]

\* The paths of a payload's disclosures, in the order in which they are made.
origins(payload) ==
    LET ops == SelectSeq(SetToSortSeq(operations(payload), sooner), LAMBDA o : o.op = "conceal")
    IN  [k \in 1 .. Len(ops) |-> ops[k].at]

\* History of an element as it was made.
Made(claims, disclosures, origin) ==
    [claims |-> claims, concealed |-> ToSet(origin), issued |-> disclosures, origin |-> origin,
     shown |-> ToSet(origin), sealed |-> {}]

below(s, paths) == [k \in DOMAIN paths |-> <<Delegated, s>> \o paths[k]]

\* A delegate payload and its disclosures, the wrapper first.
Wrapped(b, alg, s) ==
    LET wrapper == new_element(s, b.doc)
    IN  [digest |-> [digest |-> digest_of(alg, wrapper)], disclosures |-> <<wrapper>> \o b.disclosures]

\* SdJwtBuilder::sign
Issue(r) ==
    /\ presentation = None
    /\ \E b \in Build(r.payload, r.sd_alg, salt) :
          LET s == salt + SaltsOf(r.payload)
              w == Wrapped(b, r.sd_alg, s)
              origin == <<<<Delegated, Index(1)>>>> \o below(Index(1), origins(r.payload))
              plain == r.form = "Credential"
              payload == IF plain THEN b.doc ELSE wrapped(<<w.digest>>)
              ds == IF plain THEN b.disclosures ELSE w.disclosures
          IN  /\ presentation' = [root |-> Element(salt, r.sd_alg, r.typ, "iss", payload, ds),
                                  links |-> <<>>, key_binding |-> None]
              /\ made' = IF plain THEN <<Made(r.payload.claims, ds, origins(r.payload))>>
                         ELSE <<Made(wrapped(<<r.payload.claims>>), ds, origin)>>
              /\ salt' = s + 1
    /\ UNCHANGED steps

-----------------------------------------------------------------------------
elements_of == <<presentation.root>> \o presentation.links
last_element == Last(elements_of)

open_ended == presentation # None /\ presentation.key_binding = None

\* The signer is the holder of a key the last element confirms, if any.
bodies(v) == IF "delegate_payload" \in DOMAIN v.obj THEN ToSet(v.obj["delegate_payload"].arr) ELSE {v}
holders ==
    LET keys == UNION {{b.obj[n].leaf : n \in DOMAIN b.obj \cap {"cnf"}} : b \in bodies(Last(made).claims)}
    IN  IF keys = {} THEN {"nobody"} ELSE keys

\* The last element is sealed as it is shown now.
seal == [made EXCEPT ![Len(made)].sealed = {last_element.disclosures}]

\* Mutant: hashed with the link's own algorithm.
bound_OwnAlg(e, prev, binding) ==
    IF binding = "SdHash" THEN [e EXCEPT !.sd_hash = digest(e.sd_alg, serialize(prev))]
                          ELSE [e EXCEPT !.issuer_jwt_hash = digest(e.sd_alg, prev.jwt)]

\* HashBinding, under the previous element's algorithm.
bound(e, prev, binding) ==
    IF binding = "SdHash" THEN [e EXCEPT !.sd_hash = digest(prev.sd_alg, serialize(prev))]
                          ELSE [e EXCEPT !.issuer_jwt_hash = digest(prev.sd_alg, prev.jwt)]

\* Where the salts of the payloads of a link begin, and the next one after them.
salt_of(payloads, k, first) ==
    LET at[i \in 1 .. Len(payloads) + 1] ==
            IF i = 1 THEN first ELSE at[i - 1] + SaltsOf(payloads[i - 1]) + 1
    IN  at[k]

\* The builds of all payloads of a link, each with salts of its own.
built(payloads, first) ==
    LET choices(k) ==
            LET s == salt_of(payloads, k, first)
            IN  {Wrapped(b, LinkAlg, s + SaltsOf(payloads[k])) : b \in Build(payloads[k], LinkAlg, s)}
        indices == DOMAIN payloads
    IN  {ws \in [indices -> UNION {choices(k) : k \in indices}] :
            \A k \in indices : ws[k] \in choices(k)}

\* LinkBuilder::sign and Presentation::delegate: all payloads or none confirm a
\* key, and their digests are sorted, which is any order.
Delegate(payloads, binding, signer) ==
    LET n == Len(payloads)
        with_cnf == {i \in 1 .. n : has_cnf(payloads[i])}
        typ == IF with_cnf = {} THEN KB_SD_JWT ELSE "kb-sd-jwt+kb"
    IN  /\ open_ended /\ Len(presentation.links) < MaxLinks
        /\ with_cnf \in {{}, 1 .. n}
        /\ \E ws \in built(payloads, salt), order \in {f \in [1 .. n -> 1 .. n] : IsInjective(f)} :
              LET at(i) == CHOOSE k \in 1 .. n : order[k] = i
                  item(i) == <<<<Delegated, Index(at(i))>>>> \o below(Index(at(i)), origins(payloads[i]))
                  ds == FlattenSeq([i \in 1 .. n |-> ws[i].disclosures])
                  e == Element(salt, LinkAlg, typ, signer, wrapped([k \in 1 .. n |-> ws[order[k]].digest]), ds)
                  m == Made(wrapped([k \in 1 .. n |-> payloads[order[k]].claims]), ds,
                            FlattenSeq([i \in 1 .. n |-> item(i)]))
              IN  /\ presentation' = [presentation EXCEPT !.links =
                                          Append(@, bound(e, last_element, binding))]
                  /\ made' = Append(IF binding = "SdHash" THEN seal ELSE made, m)
                  /\ salt' = salt_of(payloads, n + 1, salt)
        /\ steps' = steps + 1

KeyBinding(signer, sd_hash) ==
    [typ |-> KB_JWT, signed_by |-> signer, iat |-> 1, aud |-> "rp", nonce |-> "n",
     exp |-> None, nbf |-> None, sd_hash |-> sd_hash]

\* Presentation::bind
Bind(signer) ==
    /\ open_ended
    /\ presentation' = [presentation EXCEPT !.key_binding =
           KeyBinding(signer, digest(last_element.sd_alg, serialize(last_element)))]
    /\ made' = seal
    /\ UNCHANGED <<salt, steps>>

-----------------------------------------------------------------------------
view(e) == Process(e.payload, e.disclosures, e.sd_alg)

\* element_mut
put(i, ds) ==
    IF i = 1 THEN [presentation EXCEPT !.root.disclosures = ds]
             ELSE [presentation EXCEPT !.links[i - 1].disclosures = ds]

hidden(m) == m.concealed \ m.shown

\* Presentation::select of element i: any pointers into what is shown.
Select(i, pointers) ==
    LET e == elements_of[i]
        meant == {PlaceOf(made[i].claims, hidden(made[i]), <<>>, w) : w \in pointers}
    IN  /\ open_ended
        /\ Selectable(view(e), pointers)
        /\ presentation' = put(i, SelectFrom(e.disclosures, view(e), pointers))
        /\ made' = [made EXCEPT ![i].shown = {c \in @ : \E w \in meant : comparable(c, w)}]
        /\ steps' = steps + 1
        /\ UNCHANGED salt

\* External: a holder with other software leaves out one disclosure.
Drop(i, k) ==
    LET e == elements_of[i]
        origin == made[i].origin[CHOOSE j \in DOMAIN made[i].issued :
                                    made[i].issued[j] = e.disclosures[k]]
    IN  /\ presentation' = put(i, RemoveAt(e.disclosures, k))
        /\ made' = [made EXCEPT ![i].shown = @ \ {origin}]
        /\ steps' = steps + 1
        /\ UNCHANGED salt

Pointers(e) == {ps \in SUBSET PathsOf(view(e).claims) : Cardinality(ps) <= MaxPointers}

Next ==
    \/ \E r \in Roots : Issue(r)
    \/ /\ open_ended
       /\ \E signer \in holders :
             \/ /\ steps < MaxSteps
                /\ \E ps \in LinkPayloads, b \in {"SdHash", "IssuerJwtHash"} : Delegate(ps, b, signer)
             \/ Bind(signer)
    \/ /\ presentation # None /\ steps < MaxSteps
       /\ \E i \in DOMAIN elements_of :
             \/ \E ps \in Pointers(elements_of[i]) : Select(i, ps)
             \/ \E k \in DOMAIN elements_of[i].disclosures : Drop(i, k)

Spec == Init /\ [][Next]_vars

-----------------------------------------------------------------------------
(***************************************************************************)
(* What the verifier makes of it                                           *)
(***************************************************************************)
claim(v, n) == IF n \in DOMAIN v.obj THEN v.obj[n].leaf ELSE None
claims_record(v) == [exp |-> claim(v, "exp"), nbf |-> claim(v, "nbf"), cnf |-> claim(v, "cnf")]

\* An element as verify.rs reads it, once its disclosures are processed.
received(e) ==
    LET v == view(e)
        raw == e.payload.obj["delegate_payload"].arr
        revealed == {i \in DOMAIN raw :
                        \E d \in ToSet(e.disclosures) : digest_of(e.sd_alg, d) = raw[i].digest}
        item(i) == claims_record(v.claims.obj["delegate_payload"].arr[index(revealed, i)])
        plain == "delegate_payload" \notin DOMAIN e.payload.obj
    IN  [jwt |-> e.jwt, sd_alg |-> e.sd_alg, typ |-> e.typ, signed_by |-> e.signed_by,
         disclosures |-> e.disclosures, iat |-> e.iat, aud |-> e.aud, nonce |-> e.nonce,
         exp |-> e.exp, nbf |-> e.nbf, sd_hash |-> e.sd_hash, issuer_jwt_hash |-> e.issuer_jwt_hash,
         form |-> IF plain THEN "Credential" ELSE "DelegatePayload",
         claims |-> IF plain THEN claims_record(v.claims) ELSE None,
         disclosed |-> IF plain THEN {} ELSE revealed,
         delegate_payload |-> IF plain THEN <<>> ELSE
             [i \in DOMAIN raw |->
                 [digest |-> TRUE, claims |-> IF i \in revealed THEN item(i) ELSE None]]]

arrived == [root |-> received(presentation.root),
            links |-> [i \in DOMAIN presentation.links |-> received(presentation.links[i])],
            key_binding |-> presentation.key_binding]

\* What process has nothing to say against.
readable == \A i \in DOMAIN elements_of : view(elements_of[i]).errors = {}

options(policy, root) ==
    [now |-> 1, root_typ |-> {root.typ}, root_form |-> root.form, key_binding |-> policy,
     nonce |-> "n", audience |-> "rp", leeway |-> 0, max_age |-> 1, max_future |-> 0,
     max_links |-> MaxLinks]

verifies(p, policy) == verify(p, "iss", options(policy, p.root)) = "ok"

-----------------------------------------------------------------------------
(***************************************************************************)
(* Presentation::serialize and Presentation::parse, on the components      *)
(* between the tildes.                                                     *)
(***************************************************************************)
Jwt(x) == [kind |-> "jwt", of |-> x]
Disclosed(d) == [kind |-> "disclosure", of |-> d]
Empty == [kind |-> "empty"]
Odd == [kind |-> "odd"]

\* An element's JWT and disclosures, each followed by a tilde.
joined(e) == <<e.jwt>> \o e.disclosures

\* One more tilde before each link.
chained(elems) ==
    FlattenSeq([i \in DOMAIN elems |-> (IF i = 1 THEN <<>> ELSE <<Empty>>) \o joined(elems[i])])

\* The KB-JWT, or nothing, at the end.
components(p) == chained(p.elements) \o (IF p.key_binding = <<>> THEN <<Empty>> ELSE p.key_binding)

\* Mutant: a KB-JWT may be followed by something.
kb_allowed_Anywhere(i, n) == TRUE

kb_allowed(i, n) == i = n

\* The loop over the components, at the i-th of n: a JWT begins an element,
\* disclosures follow, up to a KB-JWT or an empty component.
parse_step(st, c, i, n) ==
    LET malformed == [st EXCEPT !.next = "malformed"] IN
    CASE st.next = "jwt" ->
            IF c.kind = "jwt"
              THEN [st EXCEPT !.elements = Append(@, [jwt |-> c, disclosures |-> <<>>]), !.next = "more"]
              ELSE malformed
      [] st.next = "more" ->
            CASE c.kind = "empty" -> [st EXCEPT !.next = "jwt"]
              [] c.kind = "disclosure" ->
                    [st EXCEPT !.elements[Len(st.elements)].disclosures = Append(@, c)]
              [] c.kind = "jwt" ->
                    IF kb_allowed(i, n) THEN [st EXCEPT !.key_binding = <<c>>, !.next = "end"] ELSE malformed
              [] OTHER -> malformed
      [] OTHER -> st

parse(cs) ==
    LET n == Len(cs)
        st[i \in 0 .. n] ==
            IF i = 0 THEN [elements |-> <<>>, key_binding |-> <<>>, next |-> "jwt"]
            ELSE parse_step(st[i - 1], cs[i], i, n)
    IN  st[n]

\* The text ends with a KB-JWT, or with the tilde after an element.
well_formed(st) == st.next = "end" \/ (st.next = "jwt" /\ st.elements # <<>>)

\* The presentation as it is sent.
sent ==
    [elements |-> [i \in DOMAIN elements_of |->
         [jwt |-> Jwt(elements_of[i].jwt),
          disclosures |-> [k \in DOMAIN elements_of[i].disclosures |->
                              Disclosed(elements_of[i].disclosures[k].salt)]]],
     key_binding |-> IF presentation.key_binding = None THEN <<>> ELSE <<Jwt(0)>>]

\* The text with one component lost, repeated or replaced.
damaged(cs) ==
    {RemoveAt(cs, i) : i \in DOMAIN cs} \cup {InsertAt(cs, i, cs[i]) : i \in DOMAIN cs}
        \cup {[cs EXCEPT ![i] = x] : i \in DOMAIN cs, x \in {Empty, Odd}}

-----------------------------------------------------------------------------
\* The same presentation with every hash made over what is shown now.
rebound(p) ==
    LET all == <<p.root>> \o p.links
        over(i) == digest(all[i].sd_alg, serialize(all[i]))
        link(i) == IF p.links[i].sd_hash = None THEN p.links[i]
                   ELSE [p.links[i] EXCEPT !.sd_hash = over(i)]
    IN  [root |-> p.root, links |-> [i \in DOMAIN p.links |-> link(i)],
         key_binding |-> IF p.key_binding = None THEN None
                         ELSE [p.key_binding EXCEPT !.sd_hash = over(Len(p.links) + 1)]]

Policies == {"NotRequired", "KbJwt", "TerminalLink"}

\* presentation.rs: "An earlier element can be reduced only if the link after it
\* binds with issuer_jwt_hash; otherwise that link's sd_hash no longer matches
\* and verification fails, as it should": a presentation verifies exactly if
\* nothing sealed by a later signature has changed since, and nothing else is
\* wrong with it.
VerifiesIfSealsHold ==
    presentation # None =>
        LET p == arrived
            processed == readable
        IN  \A policy \in Policies :
                processed /\ verifies(p, policy) <=>
                    /\ processed
                    /\ \A i \in DOMAIN made : made[i].sealed \subseteq {elements_of[i].disclosures}
                    /\ verifies(rebound(p), policy)

\* presentation.rs: the text of a presentation is parsed into what was
\* serialized, and a text that lost, repeats or has other components is refused
\* unless it is itself the text of what it is parsed into.
reads_as(cs, p) ==
    LET st == parse(cs) IN
    well_formed(st) /\ st.elements = p.elements /\ st.key_binding = p.key_binding

TextIsUnambiguous ==
    presentation # None =>
        LET cs == components(sent)
        IN  /\ reads_as(cs, sent)
            /\ \A x \in damaged(cs) : well_formed(parse(x)) => components(parse(x)) = x
=============================================================================
