------------------------- MODULE SdJwtHolderProofs --------------------------
(***************************************************************************)
(* What signatures protect on the way of a presentation through the hands  *)
(* of its holders, and that its text has one reading: for any number of    *)
(* links, any sequence of operations, and whatever the processing of       *)
(* claim sets does with the disclosures it is given.                       *)
(***************************************************************************)
EXTENDS SdJwtHolder, WellFoundedInduction, SequenceTheorems, TLAPS

\* Every non-empty set of naturals has a least element; the inductions over
\* data below take the least counterexample.
LEMMA LeastNatural ==
    ASSUME NEW S, S \subseteq Nat, S # {}
    PROVE  \E k \in S : \A j \in S : k <= j
<1>1. PICK k \in S : \A j \in S : ~(<<j, k>> \in OpToRel(<, Nat))
    BY NatLessThanWellFounded, WFMin
<1>2. \A j \in S : ~(j < k)
    BY <1>1 DEF OpToRel
<1>3. QED  BY <1>2

-----------------------------------------------------------------------------
(***************************************************************************)
(* verify, element by element                                              *)
(***************************************************************************)
keyed(opts) == opts.key_binding = "KbJwt"

root_answer(p, key, opts) ==
    verify_root(p.root, key, opts, Len(p.links) > 0 \/ keyed(opts))

link_answer(p, i, opts) ==
    verify_link(elements(p)[i + 1], elements(p)[i], claims_of(p, opts.root_form)[i].cnf,
                i = Len(p.links), i < Len(p.links) \/ keyed(opts), opts)

kb_answer(p, opts) ==
    verify_kb_jwt(p.key_binding, elements(p)[Len(p.links) + 1],
                  claims_of(p, opts.root_form)[Len(p.links) + 1].cnf, opts)

\* verify says "ok" exactly if nothing is wrong with the shape, the root, any
\* link and the KB-JWT, if there is to be one.
LEMMA VerifiedElementwise ==
    ASSUME NEW p, NEW key, NEW opts, Len(p.links) \in Nat
    PROVE  verify(p, key, opts) = "ok" <=>
            /\ shape_error(p, opts) = "ok"
            /\ root_answer(p, key, opts) = "ok"
            /\ \A i \in 1 .. Len(p.links) : link_answer(p, i, opts) = "ok"
            /\ keyed(opts) => kb_answer(p, opts) = "ok"
<1> DEFINE n == Len(p.links)
           root == root_answer(p, key, opts)
           link(i) == link_answer(p, i, opts)
           step(f, i) == IF i = 0 THEN root ELSE IF f[i - 1] # "ok" THEN f[i - 1] ELSE link(i)
           runs(f, k) == f = [i \in 0 .. k |-> step(f, i)]
           T == {k \in Nat : ~ \E f : runs(f, k)}
           upto == CHOOSE f : runs(f, n)
<1>0. root = root_answer(p, key, opts) /\ \A i \in 1 .. n : link(i) = link_answer(p, i, opts)
    OBVIOUS
<1>1. verify(p, key, opts) =
        IF shape_error(p, opts) # "ok" THEN shape_error(p, opts)
        ELSE IF upto[n] # "ok" \/ ~keyed(opts) THEN upto[n]
        ELSE kb_answer(p, opts)
    BY DEF verify, root_answer, link_answer, kb_answer, keyed
<1> HIDE DEF root, link
<1>2. \A k \in Nat : \E f : runs(f, k)
    <2> SUFFICES ASSUME T # {} PROVE FALSE
        OBVIOUS
    <2>1. PICK k \in T : \A m \in T : k <= m
        <3>1. T \subseteq Nat  OBVIOUS
        <3>2. QED  BY <3>1, LeastNatural
    <2>2. k \in Nat /\ ~ \E f : runs(f, k)
        OBVIOUS
    <2>3. CASE k = 0
        <3>1. runs([i \in 0 .. 0 |-> root], 0)
            OBVIOUS
        <3>2. QED  BY <2>2, <2>3, <3>1
    <2>4. CASE k # 0
        <3>1. k - 1 \in Nat /\ ~ (k <= k - 1)
            BY <2>2, <2>4
        <3>2. k - 1 \notin T
            <4> HIDE DEF T
            <4>1. QED  BY <2>1, <3>1
        <3>3. PICK g : runs(g, k - 1)
            BY <3>1, <3>2
        <3> DEFINE f == [i \in 0 .. k |-> IF i = k THEN step(g, k) ELSE g[i]]
        <3>4. \A i \in 0 .. k : i # 0 => f[i - 1] = g[i - 1]
            BY <2>2
        <3>5. \A i \in 0 .. k : f[i] = step(f, i)
            BY <2>2, <2>4, <3>3, <3>4
        <3>6. runs(f, k)
            BY <3>5
        <3>7. QED  BY <2>2, <3>6
    <2>5. QED  BY <2>3, <2>4
<1>3. n \in Nat /\ runs(upto, n)
    BY <1>2
<1>4. \A i \in 0 .. n : upto[i] = step(upto, i)
    BY <1>3
<1> HIDE DEF upto, n
<1>5. ASSUME upto[n] = "ok" PROVE \A i \in 0 .. n : upto[i] = "ok"
    <2> DEFINE B == {m \in Nat : m <= n /\ upto[n - m] # "ok"}
    <2> SUFFICES ASSUME B # {} PROVE FALSE
        <3>1. ASSUME NEW i \in 0 .. n, upto[i] # "ok" PROVE n - i \in B
            <4>1. n - i \in Nat /\ n - i <= n /\ n - (n - i) = i
                BY <1>3
            <4>2. QED  BY <3>1, <4>1
        <3>2. QED  BY <3>1
    <2>1. B \subseteq Nat
        OBVIOUS
    <2>2. PICK m \in B : \A j \in B : m <= j
        <3> HIDE DEF B
        <3>1. QED  BY <2>1, LeastNatural
    <2>3. m \in Nat /\ m <= n /\ upto[n - m] # "ok" /\ m # 0
        BY <1>3, <1>5
    <2> DEFINE i == (n - m) + 1
    <2>4. i \in 0 .. n /\ i # 0 /\ i - 1 = n - m /\ n - (m - 1) = i
        BY <1>3, <2>3
    <2>5. upto[i] # "ok"
        BY <1>4, <2>3, <2>4
    <2>6. m - 1 \in Nat /\ m - 1 <= n /\ ~(m <= m - 1)
        BY <1>3, <2>3
    <2>7. m - 1 \in B
        BY <2>4, <2>5, <2>6
    <2>8. QED
        <3> HIDE DEF B
        <3>1. QED  BY <2>2, <2>6, <2>7
<1>6. ASSUME root = "ok", \A i \in 1 .. n : link(i) = "ok" PROVE upto[n] = "ok"
    <2> DEFINE B == {m \in Nat : m <= n /\ upto[m] # "ok"}
    <2> SUFFICES ASSUME B # {} PROVE FALSE
        <3>1. upto[n] # "ok" => n \in B
            BY <1>3
        <3>2. QED  BY <3>1
    <2>1. B \subseteq Nat
        OBVIOUS
    <2>2. PICK m \in B : \A j \in B : m <= j
        <3> HIDE DEF B
        <3>1. QED  BY <2>1, LeastNatural
    <2>3. m \in 0 .. n /\ upto[m] # "ok" /\ m # 0
        BY <1>3, <1>4, <1>6
    <2>4. m - 1 \in Nat /\ m - 1 <= n /\ ~(m <= m - 1) /\ m \in 1 .. n
        BY <1>3, <2>3
    <2>5. m - 1 \notin B
        <3> HIDE DEF B
        <3>1. QED  BY <2>2, <2>4
    <2>6. upto[m - 1] = "ok"
        BY <2>4, <2>5
    <2>7. upto[m] = link(m)
        BY <1>4, <2>3, <2>6
    <2>8. QED  BY <1>6, <2>3, <2>4, <2>7
<1>7. upto[n] = "ok" <=> root = "ok" /\ \A i \in 1 .. n : link(i) = "ok"
    <2>1. ASSUME upto[n] = "ok" PROVE root = "ok" /\ \A i \in 1 .. n : link(i) = "ok"
        <3>1. upto[0] = root /\ upto[0] = "ok"
            BY <1>3, <1>4, <1>5, <2>1
        <3>2. ASSUME NEW i \in 1 .. n PROVE link(i) = "ok"
            <4>1. i \in 0 .. n /\ i - 1 \in 0 .. n /\ i # 0
                BY <1>3
            <4>2. QED  BY <1>4, <1>5, <2>1, <4>1
        <3>3. QED  BY <3>1, <3>2
    <2>2. QED  BY <1>6, <2>1
<1>8. n = Len(p.links)
    BY DEF n
<1>9. QED
    <2> HIDE DEF n
    <2>1. shape_error(p, opts) = "ok" =>
            (verify(p, key, opts) = "ok" <=> upto[n] = "ok" /\ (keyed(opts) => kb_answer(p, opts) = "ok"))
        BY <1>1
    <2>2. shape_error(p, opts) # "ok" => verify(p, key, opts) # "ok"
        BY <1>1
    <2>3. upto[n] = "ok" <=>
            root_answer(p, key, opts) = "ok" /\ \A i \in 1 .. Len(p.links) : link_answer(p, i, opts) = "ok"
        BY <1>0, <1>7, <1>8
    <2>4. QED  BY <2>1, <2>2, <2>3

\* Elements that differ in the hash they carry at most.
alike(e, f) ==
    /\ e.typ = f.typ /\ e.signed_by = f.signed_by
    /\ e.iat = f.iat /\ e.aud = f.aud /\ e.nonce = f.nonce /\ e.exp = f.exp /\ e.nbf = f.nbf
    /\ e.disclosed = f.disclosed /\ e.delegate_payload = f.delegate_payload

\* What verify_link says beside the hash does not depend on it, nor on the
\* element before.
LEMMA HashBesideTheRest ==
    ASSUME NEW e, NEW f, NEW prev, NEW last, NEW cnf, NEW is_last, NEW needs, NEW opts,
           alike(e, f), check_hash_binding(f, last) = "ok"
    PROVE  verify_link(e, prev, cnf, is_last, needs, opts) = "ok" <=>
            /\ check_hash_binding(e, prev) = "ok"
            /\ verify_link(f, last, cnf, is_last, needs, opts) = "ok"
<1>1. shown(e) = shown(f)
    BY DEF alike, shown
<1>2. delegate_payload_error(e) = delegate_payload_error(f) /\ delegate_payload(e) = delegate_payload(f)
    BY <1>1 DEF alike, delegate_payload_error, delegate_payload
<1>3. check_validity(e, opts, FALSE) = check_validity(f, opts, FALSE)
    BY DEF alike, check_validity
<1>4. check_transaction(e, opts) = check_transaction(f, opts)
    BY DEF alike, check_transaction
<1>5. /\ e.typ = f.typ /\ e.signed_by = f.signed_by
      /\ e.iat = f.iat /\ e.aud = f.aud /\ e.nonce = f.nonce
    BY DEF alike
<1> DEFINE rest(g) ==
        IF g.iat \in {None, Bad} \/ {g.aud, g.nonce} \cap {None, Bad} # {} THEN "InvalidClaim"
        ELSE IF delegate_payload_error(g) # "ok" THEN delegate_payload_error(g)
        ELSE LET claims == delegate_payload(g)
                 terminal == g.typ = KB_SD_JWT
                 bound1 == opts.key_binding = "TerminalLink" /\ is_last
             IN
             IF terminal /\ claims.cnf # None THEN "UnexpectedCnf"
             ELSE IF ~terminal /\ claims.cnf = None THEN "MissingCnf"
             ELSE first_error(<<
                 IF terminal THEN "ok" ELSE read_cnf(claims, needs),
                 check_validity(g, opts, FALSE),
                 check_validity(claims, opts, ~terminal),
                 IF bound1 THEN check_transaction(g, opts)
                 ELSE IF g.iat > opts.now + opts.max_future THEN "IatOutOfWindow" ELSE "ok">>)
       first(g) ==
        LET bound1 == opts.key_binding = "TerminalLink" /\ is_last
            allowed == IF bound1 THEN {KB_SD_JWT}
                       ELSE IF is_last /\ opts.key_binding = "NotRequired"
                         THEN {KB_SD_JWT} \cup KB_SD_JWT_KB
                       ELSE KB_SD_JWT_KB
        IN  IF g.typ \notin allowed THEN "WrongTyp"
            ELSE IF g.signed_by # cnf THEN "BadSignature" ELSE "ok"
<1>6. rest(e) = rest(f) /\ first(e) = first(f)
    BY <1>2, <1>3, <1>4, <1>5
<1>7. ASSUME NEW g, NEW h
      PROVE  verify_link(g, h, cnf, is_last, needs, opts) =
                IF first(g) # "ok" THEN first(g)
                ELSE IF check_hash_binding(g, h) # "ok" THEN check_hash_binding(g, h)
                ELSE rest(g)
    BY DEF verify_link
<1> HIDE DEF rest, first
<1>8. verify_link(e, prev, cnf, is_last, needs, opts) = "ok" <=>
        first(e) = "ok" /\ check_hash_binding(e, prev) = "ok" /\ rest(e) = "ok"
    BY <1>7
<1>9. verify_link(f, last, cnf, is_last, needs, opts) = "ok" <=>
        first(f) = "ok" /\ check_hash_binding(f, last) = "ok" /\ rest(f) = "ok"
    BY <1>7
<1>10. QED  BY <1>6, <1>8, <1>9

\* The same of verify_kb_jwt.
LEMMA KbHashBesideTheRest ==
    ASSUME NEW signer, NEW h, NEW last, NEW cnf, NEW opts, h \notin {None, Bad},
           digest(last.sd_alg, serialize(last)) \notin {None, Bad}
    PROVE  verify_kb_jwt(KeyBinding(signer, h), last, cnf, opts) = "ok" <=>
            /\ h = digest(last.sd_alg, serialize(last))
            /\ verify_kb_jwt(KeyBinding(signer, digest(last.sd_alg, serialize(last))),
                             last, cnf, opts) = "ok"
<1> DEFINE g == digest(last.sd_alg, serialize(last))
<1> HIDE DEF g
<1>1. check_validity(KeyBinding(signer, h), opts, FALSE) = check_validity(KeyBinding(signer, g), opts, FALSE)
    BY DEF check_validity, KeyBinding
<1>2. check_transaction(KeyBinding(signer, h), opts) = check_transaction(KeyBinding(signer, g), opts)
    BY DEF check_transaction, KeyBinding
<1>3. ASSUME NEW x
      PROVE verify_kb_jwt(KeyBinding(signer, x), last, cnf, opts) =
        IF signer # cnf THEN "BadSignature"
        ELSE IF x \in {None, Bad} THEN "InvalidClaim"
        ELSE IF x # g THEN "BindingMismatch"
        ELSE IF 1 \in {None, Bad} \/ {"rp", "n"} \cap {None, Bad} # {} THEN "InvalidClaim"
        ELSE first_error(<<check_transaction(KeyBinding(signer, x), opts),
                           check_validity(KeyBinding(signer, x), opts, FALSE)>>)
    BY DEF verify_kb_jwt, KeyBinding, g, KB_JWT
<1>4. QED  BY <1>1, <1>2, <1>3 DEF g

-----------------------------------------------------------------------------
(***************************************************************************)
(* Lists of whatever elements                                              *)
(***************************************************************************)
IsList(s) == s \in Seq(ToSet(s))

\* A sequence is a list.
LEMMA ListOf == ASSUME NEW S, NEW s \in Seq(S) PROVE IsList(s)
<1>1. Len(s) \in Nat /\ DOMAIN s = 1 .. Len(s) /\ s \in [1 .. Len(s) -> S]
    BY LenProperties
<1>2. \A i \in 1 .. Len(s) : s[i] \in ToSet(s)
    BY <1>1 DEF ToSet
<1>3. s \in [1 .. Len(s) -> ToSet(s)]
    BY <1>1, <1>2
<1>4. QED  BY <1>1, <1>3 DEF IsList

\* A list has a length and an item at every place.
LEMMA ListParts ==
    ASSUME NEW s, IsList(s)
    PROVE  /\ Len(s) \in Nat /\ DOMAIN s = 1 .. Len(s)
           /\ \A i \in 1 .. Len(s) : s[i] \in ToSet(s)
<1>1. Len(s) \in Nat /\ DOMAIN s = 1 .. Len(s) /\ s \in [1 .. Len(s) -> ToSet(s)]
    BY LenProperties DEF IsList
<1>2. QED  BY <1>1

\* A function on 1 .. n is a list.
LEMMA EnumerationIsList ==
    ASSUME NEW n \in Nat, NEW f, DOMAIN f = 1 .. n, f = [i \in 1 .. n |-> f[i]]
    PROVE  IsList(f) /\ Len(f) = n
<1>1. f \in [1 .. n -> ToSet(f)]
    BY DEF ToSet
<1>2. f \in Seq(ToSet(f)) /\ Len(f) = n
    BY <1>1
<1>3. QED  BY <1>2 DEF IsList

\* A list with one more item at its end.
LEMMA AppendList ==
    ASSUME NEW s, IsList(s), NEW x
    PROVE  /\ IsList(Append(s, x)) /\ Len(Append(s, x)) = Len(s) + 1
           /\ \A i \in 1 .. Len(s) : Append(s, x)[i] = s[i]
           /\ Append(s, x)[Len(s) + 1] = x
<1> DEFINE S == ToSet(s) \cup {x}
<1>1. s \in Seq(S) /\ x \in S
    BY SeqMonotonic DEF IsList
<1> HIDE DEF S
<1>2. /\ Append(s, x) \in Seq(S) /\ Len(Append(s, x)) = Len(s) + 1
      /\ \A i \in 1 .. Len(s) : Append(s, x)[i] = s[i]
      /\ Append(s, x)[Len(s) + 1] = x
    BY <1>1, AppendProperties
<1>3. QED  BY <1>2, ListOf

\* Two lists one after the other.
LEMMA ConcatList ==
    ASSUME NEW s, IsList(s), NEW t, IsList(t)
    PROVE  /\ IsList(s \o t) /\ Len(s \o t) = Len(s) + Len(t)
           /\ \A i \in 1 .. Len(s) : (s \o t)[i] = s[i]
           /\ \A i \in 1 .. Len(t) : (s \o t)[Len(s) + i] = t[i]
<1> DEFINE S == ToSet(s) \cup ToSet(t)
<1>1. s \in Seq(S) /\ t \in Seq(S)
    BY SeqMonotonic DEF IsList
<1> HIDE DEF S
<1>2. /\ s \o t \in Seq(S) /\ Len(s \o t) = Len(s) + Len(t)
      /\ \A i \in 1 .. Len(s) + Len(t) :
            (s \o t)[i] = IF i <= Len(s) THEN s[i] ELSE t[i - Len(s)]
    BY <1>1, ConcatProperties
<1>3. Len(s) \in Nat /\ Len(t) \in Nat
    BY ListParts
<1>4. \A i \in 1 .. Len(s) : (s \o t)[i] = s[i]
    BY <1>2, <1>3
<1>5. \A i \in 1 .. Len(t) : (s \o t)[Len(s) + i] = t[i]
    <2> SUFFICES ASSUME NEW i \in 1 .. Len(t) PROVE (s \o t)[Len(s) + i] = t[i]
        OBVIOUS
    <2>1. Len(s) + i \in 1 .. Len(s) + Len(t) /\ ~(Len(s) + i <= Len(s)) /\ (Len(s) + i) - Len(s) = i
        BY <1>3
    <2>2. QED  BY <1>2, <2>1
<1>6. QED  BY <1>2, <1>4, <1>5, ListOf

\* A list with one item replaced.
LEMMA ReplaceInList ==
    ASSUME NEW s, IsList(s), NEW k \in 1 .. Len(s), NEW x, NEW t, t = [s EXCEPT ![k] = x]
    PROVE  /\ IsList(t) /\ Len(t) = Len(s)
           /\ \A i \in 1 .. Len(s) : t[i] = IF i = k THEN x ELSE s[i]
<1> DEFINE S == ToSet(s) \cup {x}
<1>1. s \in Seq(S) /\ x \in S
    BY SeqMonotonic DEF IsList
<1> HIDE DEF S
<1>2. /\ t \in Seq(S) /\ Len(t) = Len(s)
      /\ \A i \in 1 .. Len(s) : t[i] = IF i = k THEN x ELSE s[i]
    BY <1>1, ExceptSeq
<1>3. QED  BY <1>2, ListOf

\* A list of one item.
LEMMA SingletonList == ASSUME NEW x PROVE IsList(<<x>>) /\ Len(<<x>>) = 1 /\ <<x>>[1] = x
<1>1. <<x>> \in Seq({x})  OBVIOUS
<1>2. QED  BY <1>1, ListOf

\* The list without items.
LEMMA EmptyList == IsList(<<>>) /\ Len(<<>>) = 0
<1>1. <<>> \in Seq({})  OBVIOUS
<1>2. QED  BY <1>1, ListOf

\* Lists with the same items are the same.
LEMMA SameList ==
    ASSUME NEW s, IsList(s), NEW t, IsList(t), Len(s) = Len(t),
           \A i \in 1 .. Len(s) : s[i] = t[i]
    PROVE  s = t
<1> DEFINE S == ToSet(s) \cup ToSet(t)
<1>1. s \in Seq(S) /\ t \in Seq(S)
    BY SeqMonotonic DEF IsList
<1> HIDE DEF S
<1>2. QED  BY <1>1, SeqEqual

-----------------------------------------------------------------------------
(***************************************************************************)
(* What the hashes of a presentation were made over                        *)
(***************************************************************************)
IsElement(e) ==
    e = [jwt |-> e.jwt, sd_alg |-> e.sd_alg, typ |-> e.typ, signed_by |-> e.signed_by,
         payload |-> e.payload, disclosures |-> e.disclosures, iat |-> e.iat, aud |-> e.aud,
         nonce |-> e.nonce, exp |-> e.exp, nbf |-> e.nbf, sd_hash |-> e.sd_hash,
         issuer_jwt_hash |-> e.issuer_jwt_hash]

IsEntry(m) ==
    m = [claims |-> m.claims, concealed |-> m.concealed, issued |-> m.issued,
         origin |-> m.origin, shown |-> m.shown, sealed |-> m.sealed]

Elem(p, i) == IF i = 1 THEN p.root ELSE p.links[i - 1]

\* A presentation and its history are lists of such, an entry per element.
Shaped(p, mm) ==
    /\ p = [root |-> p.root, links |-> p.links, key_binding |-> p.key_binding]
    /\ IsList(p.links) /\ IsList(mm) /\ Len(mm) = Len(p.links) + 1
    /\ \A i \in 1 .. Len(mm) : IsElement(Elem(p, i)) /\ IsEntry(mm[i])

hash_over(e, ds) == digest(e.sd_alg, <<e.jwt, ds>>)

\* A link carries one hash: over the disclosures that were sealed in the
\* element before it, or over that element's JWT alone, and nothing is sealed.
SealedBy(e, o, m) ==
    \/ /\ e.issuer_jwt_hash = None
       /\ \E ds : m.sealed = {ds} /\ e.sd_hash = hash_over(o, ds)
    \/ /\ e.sd_hash = None
       /\ m.sealed = {}
       /\ e.issuer_jwt_hash = digest(o.sd_alg, o.jwt)

LinkSeals(p, mm, i) == SealedBy(p.links[i], Elem(p, i), mm[i])

\* The last element is sealed by the KB-JWT, if there is one.
EndSeals(p, mm) ==
    LET n == Len(mm) IN
    \/ p.key_binding = None /\ mm[n].sealed = {}
    \/ \E signer, ds : /\ mm[n].sealed = {ds}
                       /\ p.key_binding = KeyBinding(signer, hash_over(Elem(p, n), ds))

Sealing(p, mm) ==
    /\ Shaped(p, mm)
    /\ \A i \in 1 .. Len(p.links) : LinkSeals(p, mm, i)
    /\ EndSeals(p, mm)

\* An absent claim is told from a hash, and an absent KB-JWT from one.
NoneIsAbsent ==
    /\ \A alg, input : digest(alg, input) \notin {None, Bad}
    /\ \A signer, h : KeyBinding(signer, h) # None

SealInv ==
    \/ presentation = None /\ made = <<>>
    \/ Sealing(presentation, made)

\* The elements in order, and the last one.
LEMMA ElementsInOrder ==
    ASSUME NEW p, IsList(p.links)
    PROVE  LET all == <<p.root>> \o p.links
               n == Len(p.links) + 1
           IN  /\ IsList(all) /\ Len(all) = n /\ DOMAIN all = 1 .. n /\ n \in Nat
               /\ \A i \in 1 .. n : all[i] = Elem(p, i)
               /\ Last(all) = Elem(p, n)
<1> DEFINE all == <<p.root>> \o p.links
           n == Len(p.links) + 1
<1>1. Len(p.links) \in Nat
    BY ListParts
<1>2. IsList(<<p.root>>) /\ Len(<<p.root>>) = 1 /\ <<p.root>>[1] = p.root
    BY SingletonList
<1>3. /\ IsList(all) /\ Len(all) = 1 + Len(p.links)
      /\ all[1] = p.root
      /\ \A i \in 1 .. Len(p.links) : all[1 + i] = p.links[i]
    <2> HIDE DEF all
    <2>1. QED
        <3>1. /\ IsList(all) /\ Len(all) = Len(<<p.root>>) + Len(p.links)
              /\ \A i \in 1 .. Len(<<p.root>>) : all[i] = <<p.root>>[i]
              /\ \A i \in 1 .. Len(p.links) : all[Len(<<p.root>>) + i] = p.links[i]
            BY <1>2, ConcatList DEF all
        <3>2. QED  BY <1>2, <3>1
<1> HIDE DEF all
<1>4. Len(all) = n /\ n \in Nat /\ DOMAIN all = 1 .. n
    BY <1>1, <1>3, ListParts
<1>5. ASSUME NEW i \in 1 .. n PROVE all[i] = Elem(p, i)
    <2>1. CASE i = 1  BY <1>3, <2>1 DEF Elem
    <2>2. CASE i # 1
        <3>1. i - 1 \in 1 .. Len(p.links) /\ 1 + (i - 1) = i
            BY <1>1, <2>2
        <3>2. QED  BY <1>3, <2>2, <3>1 DEF Elem
    <2>3. QED  BY <2>1, <2>2
<1>6. Last(all) = Elem(p, n)
    BY <1>1, <1>4, <1>5 DEF Last
<1>7. QED  BY <1>3, <1>4, <1>5, <1>6 DEF all

SameBut(q, p, k, ds) ==
    /\ Len(q.links) = Len(p.links)
    /\ \A i \in 1 .. Len(p.links) + 1 : Elem(q, i).disclosures = IF i = k THEN ds ELSE Elem(p, i).disclosures

\* Other disclosures for an element change no hash.
LEMMA NewDisclosuresSeal ==
    ASSUME NEW p, NEW mm, Sealing(p, mm), NEW k \in 1 .. Len(mm), NEW ds, NEW f,
           NEW q, q = IF k = 1 THEN [p EXCEPT !.root.disclosures = ds]
                      ELSE [p EXCEPT !.links[k - 1].disclosures = ds],
           NEW nn, nn = [mm EXCEPT ![k].shown = f]
    PROVE  Sealing(q, nn) /\ SameBut(q, p, k, ds)
<1>1. /\ Shaped(p, mm)
      /\ p = [root |-> p.root, links |-> p.links, key_binding |-> p.key_binding]
      /\ IsList(p.links) /\ IsList(mm) /\ Len(mm) = Len(p.links) + 1
      /\ \A i \in 1 .. Len(mm) : IsElement(Elem(p, i)) /\ IsEntry(mm[i])
    BY DEF Sealing, Shaped
<1>2. Len(p.links) \in Nat
    BY <1>1, ListParts
<1> DEFINE e == [Elem(p, k) EXCEPT !.disclosures = ds]
           m == [mm[k] EXCEPT !.shown = f]
<1>3. /\ nn = [mm EXCEPT ![k] = m]
      /\ IsList(nn) /\ Len(nn) = Len(mm)
      /\ \A i \in 1 .. Len(mm) : nn[i] = IF i = k THEN m ELSE mm[i]
    <2>1. nn = [mm EXCEPT ![k] = m]
        OBVIOUS
    <2> HIDE DEF m
    <2>2. IsList(mm) /\ k \in 1 .. Len(mm)
        BY <1>1
    <2>3. IsList(nn) /\ Len(nn) = Len(mm)
        BY ONLY <2>1, <2>2, ReplaceInList
    <2>4. DOMAIN mm = 1 .. Len(mm)
        BY <2>2, ListParts
    <2>5. QED  BY <2>1, <2>3, <2>4
<1>4. IsEntry(m) /\ m.sealed = mm[k].sealed
    <2>1. mm[k] = [claims |-> mm[k].claims, concealed |-> mm[k].concealed, issued |-> mm[k].issued,
                   origin |-> mm[k].origin, shown |-> mm[k].shown, sealed |-> mm[k].sealed]
        BY <1>1 DEF IsEntry
    <2>2. m = [claims |-> mm[k].claims, concealed |-> mm[k].concealed, issued |-> mm[k].issued,
               origin |-> mm[k].origin, shown |-> f, sealed |-> mm[k].sealed]
        BY <2>1
    <2> HIDE DEF m
    <2>3. QED  BY <2>2 DEF IsEntry
<1>5. /\ IsElement(e) /\ e.jwt = Elem(p, k).jwt /\ e.sd_alg = Elem(p, k).sd_alg
      /\ e.sd_hash = Elem(p, k).sd_hash /\ e.issuer_jwt_hash = Elem(p, k).issuer_jwt_hash
      /\ e.disclosures = ds
    <2> DEFINE o == Elem(p, k)
    <2>1. o = [jwt |-> o.jwt, sd_alg |-> o.sd_alg, typ |-> o.typ, signed_by |-> o.signed_by,
               payload |-> o.payload, disclosures |-> o.disclosures, iat |-> o.iat, aud |-> o.aud,
               nonce |-> o.nonce, exp |-> o.exp, nbf |-> o.nbf, sd_hash |-> o.sd_hash,
               issuer_jwt_hash |-> o.issuer_jwt_hash]
        BY <1>1 DEF IsElement
    <2> HIDE DEF o
    <2>2. [o EXCEPT !.disclosures = ds] =
              [jwt |-> o.jwt, sd_alg |-> o.sd_alg, typ |-> o.typ, signed_by |-> o.signed_by,
               payload |-> o.payload, disclosures |-> ds, iat |-> o.iat, aud |-> o.aud,
               nonce |-> o.nonce, exp |-> o.exp, nbf |-> o.nbf, sd_hash |-> o.sd_hash,
               issuer_jwt_hash |-> o.issuer_jwt_hash]
        BY <2>1
    <2>3. QED  BY <2>2 DEF IsElement, o
<1>6. /\ q = [root |-> q.root, links |-> q.links, key_binding |-> q.key_binding]
      /\ q.key_binding = p.key_binding
      /\ q.root = IF k = 1 THEN e ELSE p.root
      /\ q.links = IF k = 1 THEN p.links ELSE [p.links EXCEPT ![k - 1] = e]
    <2>1. CASE k = 1
        <3>1. q = [root |-> [p.root EXCEPT !.disclosures = ds], links |-> p.links,
                   key_binding |-> p.key_binding]
            BY <1>1, <2>1
        <3>2. QED  BY <2>1, <3>1 DEF Elem
    <2>2. CASE k # 1
        <3>1. q = [root |-> p.root,
                   links |-> [p.links EXCEPT ![k - 1] = [p.links[k - 1] EXCEPT !.disclosures = ds]],
                   key_binding |-> p.key_binding]
            BY <1>1, <2>2
        <3>2. QED  BY <2>2, <3>1 DEF Elem
    <2>3. QED  BY <2>1, <2>2
<1> HIDE DEF e, m
<1>7. /\ IsList(q.links) /\ Len(q.links) = Len(p.links)
      /\ \A i \in 1 .. Len(mm) : Elem(q, i) = IF i = k THEN e ELSE Elem(p, i)
    <2>1. CASE k = 1
        BY <1>1, <1>6, <2>1 DEF Elem
    <2>2. CASE k # 1
        <3>1. k - 1 \in 1 .. Len(p.links)
            BY <1>1, <1>2, <2>2
        <3>2. /\ IsList(q.links) /\ Len(q.links) = Len(p.links)
              /\ \A i \in 1 .. Len(p.links) : q.links[i] = IF i = k - 1 THEN e ELSE p.links[i]
            <4>1. IsList(p.links) /\ q.links = [p.links EXCEPT ![k - 1] = e]
                BY <1>1, <1>6, <2>2
            <4>2. IsList(q.links) /\ Len(q.links) = Len(p.links)
                <5> DEFINE l == p.links
                           j == k - 1
                           o == q.links
                <5>1. IsList(l) /\ j \in 1 .. Len(l) /\ o = [l EXCEPT ![j] = e]
                    BY <3>1, <4>1
                <5> HIDE DEF l, j, o
                <5>2. IsList(o) /\ Len(o) = Len(l)
                    BY ONLY <5>1, ReplaceInList
                <5>3. QED  BY <5>2 DEF l, o
            <4>3. DOMAIN p.links = 1 .. Len(p.links)
                BY <4>1, ListParts
            <4>4. QED  BY <4>1, <4>2, <4>3
        <3>3. ASSUME NEW i \in 1 .. Len(mm), i # 1
              PROVE  i - 1 \in 1 .. Len(p.links) /\ (i - 1 = k - 1 <=> i = k)
            BY <1>1, <1>2, <3>3
        <3>4. QED  BY <1>6, <2>2, <3>2, <3>3 DEF Elem
    <2>3. QED  BY <2>1, <2>2
<1>8. Shaped(q, nn)
    BY <1>1, <1>3, <1>4, <1>5, <1>6, <1>7 DEF Shaped
<1>9. /\ \A i \in 1 .. Len(mm) : nn[i].sealed = mm[i].sealed
      /\ \A i \in 1 .. Len(mm) :
            /\ Elem(q, i).jwt = Elem(p, i).jwt /\ Elem(q, i).sd_alg = Elem(p, i).sd_alg
            /\ Elem(q, i).sd_hash = Elem(p, i).sd_hash
            /\ Elem(q, i).issuer_jwt_hash = Elem(p, i).issuer_jwt_hash
    BY <1>3, <1>4, <1>5, <1>7
<1>10. ASSUME NEW i \in 1 .. Len(q.links) PROVE LinkSeals(q, nn, i)
    <2>1. i \in 1 .. Len(mm) /\ i + 1 \in 1 .. Len(mm) /\ i + 1 # 1 /\ (i + 1) - 1 = i
        BY <1>1, <1>2, <1>7
    <2>2. q.links[i] = Elem(q, i + 1) /\ p.links[i] = Elem(p, i + 1)
        BY <2>1 DEF Elem
    <2>3. LinkSeals(p, mm, i)
        BY <1>7, <1>10 DEF Sealing
    <2> DEFINE a == p.links[i]
               b == q.links[i]
               o == Elem(p, i)
               u == Elem(q, i)
    <2>4. b.sd_hash = a.sd_hash /\ b.issuer_jwt_hash = a.issuer_jwt_hash
        BY <1>9, <2>1, <2>2
    <2>5. u.jwt = o.jwt /\ u.sd_alg = o.sd_alg /\ nn[i].sealed = mm[i].sealed
        BY <1>9, <2>1
    <2>6. SealedBy(a, o, mm[i])
        BY <2>3 DEF LinkSeals
    <2> HIDE DEF a, b, o, u
    <2>7. SealedBy(b, u, nn[i])
        BY ONLY <2>4, <2>5, <2>6 DEF SealedBy, hash_over
    <2>8. QED  BY <2>7 DEF LinkSeals, b, u
<1>11. EndSeals(q, nn)
    <2>1. EndSeals(p, mm)
        BY DEF Sealing
    <2>2. Len(mm) \in 1 .. Len(mm) /\ Len(nn) = Len(mm)
        BY <1>1, <1>2, <1>3
    <2> DEFINE n == Len(mm)
    <2>3. /\ nn[n].sealed = mm[n].sealed
          /\ Elem(q, n).jwt = Elem(p, n).jwt /\ Elem(q, n).sd_alg = Elem(p, n).sd_alg
        BY <1>9, <2>2
    <2>4. \A ds2 : hash_over(Elem(q, n), ds2) = hash_over(Elem(p, n), ds2)
        BY <2>3 DEF hash_over
    <2>5. QED  BY <1>6, <2>1, <2>2, <2>3, <2>4 DEF EndSeals
<1>12. Sealing(q, nn)
    BY <1>8, <1>10, <1>11 DEF Sealing
<1>13. SameBut(q, p, k, ds)
    BY <1>1, <1>5, <1>7 DEF SameBut
<1>14. QED  BY <1>12, <1>13

\* An element as it is signed first carries no hash of another one.
LEMMA ElementIsElement ==
    ASSUME NEW jwt, NEW alg, NEW typ, NEW signer, NEW payload, NEW ds,
           NEW e, e = Element(jwt, alg, typ, signer, payload, ds)
    PROVE  IsElement(e) /\ e.sd_hash = None /\ e.issuer_jwt_hash = None /\ e.disclosures = ds
BY DEF Element, IsElement

\* The history of a new element: nothing of it is sealed yet.
LEMMA MadeIsEntry ==
    ASSUME NEW claims, NEW ds, NEW origin
    PROVE  IsEntry(Made(claims, ds, origin)) /\ Made(claims, ds, origin).sealed = {}
BY DEF Made, IsEntry

\* An entry is sealed over the disclosures its element has.
LEMMA SealedEntry ==
    ASSUME NEW mm, IsList(mm), NEW n \in 1 .. Len(mm), NEW ds,
           \A i \in 1 .. Len(mm) : IsEntry(mm[i]),
           NEW nn, nn = [mm EXCEPT ![n].sealed = {ds}]
    PROVE  /\ IsList(nn) /\ Len(nn) = Len(mm)
           /\ \A i \in 1 .. Len(mm) :
                IsEntry(nn[i]) /\ nn[i].sealed = IF i = n THEN {ds} ELSE mm[i].sealed
<1> DEFINE m == [mm[n] EXCEPT !.sealed = {ds}]
<1>1. nn = [mm EXCEPT ![n] = m] /\ IsList(mm) /\ n \in 1 .. Len(mm)
    OBVIOUS
<1>2. IsEntry(m) /\ m.sealed = {ds}
    <2> DEFINE o == mm[n]
    <2>1. o = [claims |-> o.claims, concealed |-> o.concealed, issued |-> o.issued,
               origin |-> o.origin, shown |-> o.shown, sealed |-> o.sealed]
        BY DEF IsEntry
    <2>2. m = [o EXCEPT !.sealed = {ds}]
        OBVIOUS
    <2> HIDE DEF o, m
    <2>3. m = [claims |-> o.claims, concealed |-> o.concealed, issued |-> o.issued,
               origin |-> o.origin, shown |-> o.shown, sealed |-> {ds}]
        BY ONLY <2>1, <2>2
    <2>4. QED  BY ONLY <2>3 DEF IsEntry
<1> HIDE DEF m
<1>3. IsList(nn) /\ Len(nn) = Len(mm)
    BY ONLY <1>1, ReplaceInList
<1>4. DOMAIN mm = 1 .. Len(mm)
    BY ListParts
<1>5. \A i \in 1 .. Len(mm) : nn[i] = IF i = n THEN m ELSE mm[i]
    BY ONLY <1>1, <1>4
<1>6. \A i \in 1 .. Len(mm) : IsEntry(mm[i])
    OBVIOUS
<1>7. QED  BY ONLY <1>2, <1>3, <1>5, <1>6

\* The link a holder adds carries one hash over the last element.
LEMMA BoundLink ==
    ASSUME NEW e, IsElement(e), e.sd_hash = None, e.issuer_jwt_hash = None,
           NEW prev, NEW binding, NEW f, f = bound(e, prev, binding)
    PROVE  /\ IsElement(f) /\ f.disclosures = e.disclosures
           /\ binding = "SdHash" =>
                f.issuer_jwt_hash = None /\ f.sd_hash = hash_over(prev, prev.disclosures)
           /\ binding # "SdHash" =>
                f.sd_hash = None /\ f.issuer_jwt_hash = digest(prev.sd_alg, prev.jwt)
<1>1. e = [jwt |-> e.jwt, sd_alg |-> e.sd_alg, typ |-> e.typ, signed_by |-> e.signed_by,
           payload |-> e.payload, disclosures |-> e.disclosures, iat |-> e.iat, aud |-> e.aud,
           nonce |-> e.nonce, exp |-> e.exp, nbf |-> e.nbf, sd_hash |-> e.sd_hash,
           issuer_jwt_hash |-> e.issuer_jwt_hash]
    BY DEF IsElement
<1> DEFINE h == IF binding = "SdHash" THEN hash_over(prev, prev.disclosures) ELSE e.sd_hash
           j == IF binding = "SdHash" THEN e.issuer_jwt_hash ELSE digest(prev.sd_alg, prev.jwt)
<1>2. f = IF binding = "SdHash" THEN [e EXCEPT !.sd_hash = hash_over(prev, prev.disclosures)]
          ELSE [e EXCEPT !.issuer_jwt_hash = digest(prev.sd_alg, prev.jwt)]
    BY DEF bound, hash_over, serialize
<1>3. f = [jwt |-> e.jwt, sd_alg |-> e.sd_alg, typ |-> e.typ, signed_by |-> e.signed_by,
           payload |-> e.payload, disclosures |-> e.disclosures, iat |-> e.iat, aud |-> e.aud,
           nonce |-> e.nonce, exp |-> e.exp, nbf |-> e.nbf, sd_hash |-> h, issuer_jwt_hash |-> j]
    BY ONLY <1>1, <1>2
<1>4. e.sd_hash = None /\ e.issuer_jwt_hash = None
    OBVIOUS
<1> DEFINE k == h
           l == j
<1>5. /\ IsElement(f) /\ f.sd_hash = k /\ f.issuer_jwt_hash = l /\ f.disclosures = e.disclosures
    <2> HIDE DEF h, j
    <2>1. QED  BY ONLY <1>3 DEF IsElement
<1>6. QED  BY ONLY <1>4, <1>5

OneMore(q, p, mm, e) ==
    /\ Len(q.links) = Len(p.links) + 1
    /\ \A i \in 1 .. Len(mm) : Elem(q, i) = Elem(p, i)
    /\ Elem(q, Len(mm) + 1).disclosures = e.disclosures

\* delegate: a link with sd_hash seals the disclosures of the one before it, a link
\* with issuer_jwt_hash its JWT only; the seals made earlier stay.
LEMMA LinkAddedSeals ==
    ASSUME NoneIsAbsent, NEW p, NEW mm, Sealing(p, mm), p.key_binding = None,
           NEW e, IsElement(e), e.sd_hash = None, e.issuer_jwt_hash = None,
           NEW m, IsEntry(m), m.sealed = {}, NEW binding,
           NEW last, last = Elem(p, Len(mm)),
           NEW ll, ll = IF binding = "SdHash" THEN [mm EXCEPT ![Len(mm)].sealed = {last.disclosures}]
                        ELSE mm,
           NEW q, q = [p EXCEPT !.links = Append(p.links, bound(e, last, binding))],
           NEW nn, nn = Append(ll, m)
    PROVE  Sealing(q, nn) /\ OneMore(q, p, mm, e)
<1> DEFINE n == Len(mm)
           f == bound(e, last, binding)
<1>1. /\ p = [root |-> p.root, links |-> p.links, key_binding |-> p.key_binding]
      /\ IsList(p.links) /\ IsList(mm) /\ n = Len(p.links) + 1
      /\ \A i \in 1 .. n : IsElement(Elem(p, i)) /\ IsEntry(mm[i])
      /\ \A i \in 1 .. Len(p.links) : LinkSeals(p, mm, i)
      /\ EndSeals(p, mm)
    BY DEF Sealing, Shaped
<1>2. Len(p.links) \in Nat /\ n \in 1 .. n /\ n \in Nat
    BY <1>1, ListParts
<1>3. /\ IsElement(f) /\ f.disclosures = e.disclosures
      /\ binding = "SdHash" =>
            f.issuer_jwt_hash = None /\ f.sd_hash = hash_over(last, last.disclosures)
      /\ binding # "SdHash" =>
            f.sd_hash = None /\ f.issuer_jwt_hash = digest(last.sd_alg, last.jwt)
    <2>1. IsElement(e) /\ e.sd_hash = None /\ e.issuer_jwt_hash = None
        OBVIOUS
    <2>2. QED  BY ONLY <2>1, BoundLink
<1> HIDE DEF f
<1>4. q = [root |-> p.root, links |-> Append(p.links, f), key_binding |-> p.key_binding]
    BY <1>1 DEF f
<1>5. q.root = p.root /\ q.links = Append(p.links, f) /\ q.key_binding = None
    BY <1>4
<1>6. /\ IsList(ll) /\ Len(ll) = n
      /\ \A i \in 1 .. n :
            /\ IsEntry(ll[i])
            /\ ll[i].sealed = IF i = n /\ binding = "SdHash" THEN {last.disclosures} ELSE mm[i].sealed
    <2>1. CASE binding = "SdHash"
        <3>1. ll = [mm EXCEPT ![n].sealed = {last.disclosures}]
            BY <2>1
        <3>2. IsList(mm) /\ n \in 1 .. n /\ \A i \in 1 .. n : IsEntry(mm[i])
            BY ONLY <1>1, <1>2
        <3>3. IsList(ll)
            BY ONLY <3>1, <3>2, SealedEntry
        <3>4. Len(ll) = n
            BY ONLY <3>1, <3>2, SealedEntry
        <3>5. \A i \in 1 .. n : IsEntry(ll[i])
            BY ONLY <3>1, <3>2, SealedEntry
        <3>6. \A i \in 1 .. n : ll[i].sealed = IF i = n THEN {last.disclosures} ELSE mm[i].sealed
            BY ONLY <3>1, <3>2, SealedEntry
        <3>7. QED  BY ONLY <2>1, <3>3, <3>4, <3>5, <3>6
    <2>2. CASE binding # "SdHash"
        <3>1. ll = mm
            BY <2>2
        <3>2. QED  BY ONLY <1>1, <2>2, <3>1
    <2>3. QED  BY ONLY <2>1, <2>2
<1>7. nn = Append(ll, m) /\ IsEntry(m) /\ m.sealed = {}
    OBVIOUS
<1>8. /\ IsList(nn) /\ Len(nn) = n + 1
      /\ \A i \in 1 .. n : nn[i] = ll[i]
      /\ nn[n + 1] = m
    BY ONLY <1>6, <1>7, AppendList
<1>9. /\ IsList(q.links) /\ Len(q.links) = n
      /\ \A i \in 1 .. Len(p.links) : q.links[i] = p.links[i]
      /\ q.links[n] = f
    BY ONLY <1>1, <1>5, AppendList
<1>10. Elem(q, n + 1) = f /\ \A i \in 1 .. n : Elem(q, i) = Elem(p, i)
    <2>1. n + 1 # 1 /\ (n + 1) - 1 = n
        BY ONLY <1>2
    <2>2. Elem(q, n + 1) = f
        BY ONLY <1>9, <2>1 DEF Elem
    <2>3. ASSUME NEW i \in 1 .. n PROVE Elem(q, i) = Elem(p, i)
        <3>1. i # 1 => i - 1 \in 1 .. Len(p.links)
            BY ONLY <1>1, <1>2, <2>3
        <3>2. QED  BY ONLY <1>5, <1>9, <3>1 DEF Elem
    <2>4. QED  BY ONLY <2>2, <2>3
<1>11. q = [root |-> q.root, links |-> q.links, key_binding |-> q.key_binding]
    BY ONLY <1>4
<1>12. \A i \in 1 .. n + 1 : i \in 1 .. n \/ i = n + 1
    BY ONLY <1>2
<1>13. Shaped(q, nn)
    <2>1. ASSUME NEW i \in 1 .. Len(nn) PROVE IsElement(Elem(q, i)) /\ IsEntry(nn[i])
        <3>1. CASE i \in 1 .. n
            BY ONLY <1>1, <1>6, <1>8, <1>10, <3>1
        <3>2. CASE i = n + 1
            BY ONLY <1>3, <1>7, <1>8, <1>10, <3>2
        <3>3. QED  BY ONLY <1>8, <1>12, <2>1, <3>1, <3>2
    <2>2. QED  BY ONLY <1>8, <1>9, <1>11, <2>1 DEF Shaped
<1>14. last = Elem(p, n)
    OBVIOUS
<1>15. mm[n].sealed = {}
    <2>1. p.key_binding = None /\ NoneIsAbsent
        OBVIOUS
    <2>2. EndSeals(p, mm)
        BY ONLY <1>1
    <2>3. QED  BY ONLY <2>1, <2>2 DEF EndSeals, NoneIsAbsent
<1>16. ASSUME NEW i \in 1 .. Len(q.links) PROVE LinkSeals(q, nn, i)
    <2>1. i \in 1 .. n /\ (i \in 1 .. Len(p.links) \/ i = n)
        BY ONLY <1>1, <1>2, <1>9, <1>16
    <2>2. CASE i = n
        <3>1. q.links[i] = f /\ Elem(q, i) = last /\ nn[i] = ll[i]
            BY ONLY <1>8, <1>9, <1>10, <1>14, <2>1, <2>2
        <3>2. ll[i].sealed = IF binding = "SdHash" THEN {last.disclosures} ELSE {}
            BY ONLY <1>6, <1>15, <2>1, <2>2
        <3>3. QED  BY ONLY <1>3, <3>1, <3>2 DEF LinkSeals, SealedBy
    <2>3. CASE i # n
        <3>1. q.links[i] = p.links[i] /\ Elem(q, i) = Elem(p, i) /\ nn[i].sealed = mm[i].sealed
            BY ONLY <1>6, <1>8, <1>9, <1>10, <2>1, <2>3
        <3>2. LinkSeals(p, mm, i)
            BY ONLY <1>1, <2>1, <2>3
        <3>3. QED  BY ONLY <3>1, <3>2 DEF LinkSeals, SealedBy
    <2>4. QED  BY ONLY <2>2, <2>3
<1>17. EndSeals(q, nn)
    BY ONLY <1>5, <1>7, <1>8 DEF EndSeals
<1>18. Sealing(q, nn)
    BY ONLY <1>13, <1>16, <1>17 DEF Sealing
<1>19. Len(q.links) = Len(p.links) + 1
    BY ONLY <1>1, <1>9
<1>20. OneMore(q, p, mm, e)
    BY ONLY <1>3, <1>10, <1>19 DEF OneMore
<1>21. QED  BY ONLY <1>18, <1>20

\* bind: the KB-JWT seals the disclosures of the last element.
LEMMA BindingSeals ==
    ASSUME NEW p, NEW mm, Sealing(p, mm), NEW signer,
           NEW last, last = Elem(p, Len(mm)),
           NEW q, q = [p EXCEPT !.key_binding = KeyBinding(signer, hash_over(last, last.disclosures))],
           NEW nn, nn = [mm EXCEPT ![Len(mm)].sealed = {last.disclosures}]
    PROVE  Sealing(q, nn)
<1> DEFINE n == Len(mm)
           kb == KeyBinding(signer, hash_over(last, last.disclosures))
<1>1. /\ p = [root |-> p.root, links |-> p.links, key_binding |-> p.key_binding]
      /\ IsList(p.links) /\ IsList(mm) /\ n = Len(p.links) + 1
      /\ \A i \in 1 .. n : IsElement(Elem(p, i)) /\ IsEntry(mm[i])
      /\ \A i \in 1 .. Len(p.links) : LinkSeals(p, mm, i)
    BY DEF Sealing, Shaped
<1>2. Len(p.links) \in Nat /\ n \in 1 .. n /\ n \in Nat
    BY <1>1, ListParts
<1>3. nn = [mm EXCEPT ![n].sealed = {last.disclosures}] /\ last = Elem(p, n)
    OBVIOUS
<1>4. q = [p EXCEPT !.key_binding = kb]
    OBVIOUS
<1> HIDE DEF kb
<1>5. q = [root |-> p.root, links |-> p.links, key_binding |-> kb]
    BY ONLY <1>1, <1>4
<1>6. /\ q = [root |-> q.root, links |-> q.links, key_binding |-> q.key_binding]
      /\ q.links = p.links /\ q.root = p.root /\ q.key_binding = kb
    BY ONLY <1>5
<1>7. \A i : Elem(q, i) = Elem(p, i)
    BY ONLY <1>6 DEF Elem
<1>8. IsList(mm) /\ n \in 1 .. n /\ \A i \in 1 .. n : IsEntry(mm[i])
    BY ONLY <1>1, <1>2
<1>9. IsList(nn)
    BY ONLY <1>3, <1>8, SealedEntry
<1>10. Len(nn) = n
    BY ONLY <1>3, <1>8, SealedEntry
<1>11. \A i \in 1 .. n : IsEntry(nn[i])
    BY ONLY <1>3, <1>8, SealedEntry
<1>12. \A i \in 1 .. n : nn[i].sealed = IF i = n THEN {last.disclosures} ELSE mm[i].sealed
    BY ONLY <1>3, <1>8, SealedEntry
<1>13. Shaped(q, nn)
    <2>1. \A i \in 1 .. Len(nn) : IsElement(Elem(q, i)) /\ IsEntry(nn[i])
        BY ONLY <1>1, <1>7, <1>10, <1>11
    <2>2. IsList(q.links) /\ Len(nn) = Len(q.links) + 1
        BY ONLY <1>1, <1>6, <1>10
    <2>3. QED  BY ONLY <1>6, <1>9, <2>1, <2>2 DEF Shaped
<1>14. ASSUME NEW i \in 1 .. Len(q.links) PROVE LinkSeals(q, nn, i)
    <2>1. i \in 1 .. n /\ i # n /\ i \in 1 .. Len(p.links)
        BY ONLY <1>1, <1>2, <1>6, <1>14
    <2>2. nn[i].sealed = mm[i].sealed /\ q.links[i] = p.links[i] /\ Elem(q, i) = Elem(p, i)
        BY ONLY <1>6, <1>7, <1>12, <2>1
    <2>3. LinkSeals(p, mm, i)
        BY ONLY <1>1, <2>1
    <2>4. QED  BY ONLY <2>2, <2>3 DEF LinkSeals, SealedBy
<1>15. EndSeals(q, nn)
    <2>1. nn[n].sealed = {last.disclosures}
        BY ONLY <1>2, <1>12
    <2>2. q.key_binding = KeyBinding(signer, hash_over(Elem(q, n), last.disclosures))
        BY <1>3, <1>6, <1>7 DEF kb
    <2>3. \E ds : nn[n].sealed = {ds} /\ q.key_binding = KeyBinding(signer, hash_over(Elem(q, n), ds))
        BY ONLY <2>1, <2>2
    <2>4. QED  BY ONLY <1>10, <2>3 DEF EndSeals
<1>16. QED  BY ONLY <1>13, <1>14, <1>15 DEF Sealing

\* A root of its own seals nothing.
LEMMA RootSeals ==
    ASSUME NEW e, IsElement(e), NEW m, IsEntry(m), m.sealed = {},
           NEW p, p = [root |-> e, links |-> <<>>, key_binding |-> None]
    PROVE  Sealing(p, <<m>>)
<1>1. p.root = e /\ p.links = <<>> /\ p.key_binding = None
    OBVIOUS
<1>2. IsList(<<>>) /\ Len(<<>>) = 0
    BY EmptyList
<1>3. IsList(<<m>>) /\ Len(<<m>>) = 1 /\ <<m>>[1] = m
    BY SingletonList
<1>4. \A i \in 1 .. 1 : i = 1
    OBVIOUS
<1>5. Shaped(p, <<m>>)
    <2>1. \A i \in 1 .. Len(<<m>>) : IsElement(Elem(p, i)) /\ IsEntry(<<m>>[i])
        BY <1>1, <1>3, <1>4 DEF Elem
    <2>2. IsList(p.links) /\ Len(<<m>>) = Len(p.links) + 1
        BY <1>1, <1>2, <1>3
    <2>3. QED  BY <1>1, <1>3, <2>1, <2>2 DEF Shaped
<1>6. EndSeals(p, <<m>>)
    BY <1>1, <1>3 DEF EndSeals
<1>7. \A i \in 1 .. Len(p.links) : FALSE
    BY <1>1, <1>2
<1>8. QED  BY <1>5, <1>6, <1>7 DEF Sealing

-----------------------------------------------------------------------------
\* Every operation of a holder keeps the hashes and the history in step.
LEMMA SealStep ==
    ASSUME NoneIsAbsent, SealInv, [Next]_vars
    PROVE  SealInv'
<1>1. ASSUME NEW r \in Roots, Issue(r) PROVE SealInv'
    <2>1. PICK b \in Build(r.payload, r.sd_alg, salt) :
            LET s == salt + SaltsOf(r.payload)
                w == Wrapped(b, r.sd_alg, s)
                origin == <<<<Delegated, Index(1)>>>> \o below(Index(1), origins(r.payload))
                plain == r.form = "Credential"
                payload == IF plain THEN b.doc ELSE wrapped(<<w.digest>>)
                ds == IF plain THEN b.disclosures ELSE w.disclosures
            IN  /\ presentation' = [root |-> Element(salt, r.sd_alg, r.typ, "iss", payload, ds),
                                    links |-> <<>>, key_binding |-> None]
                /\ made' = IF plain THEN <<Made(r.payload.claims, ds, origins(r.payload))>>
                           ELSE <<Made(wrapped(<<r.payload.claims>>), ds, origin)>>
        BY <1>1 DEF Issue
    <2>2. \E e, m : /\ IsElement(e) /\ IsEntry(m) /\ m.sealed = {}
                    /\ presentation' = [root |-> e, links |-> <<>>, key_binding |-> None]
                    /\ made' = <<m>>
        <3> DEFINE w == Wrapped(b, r.sd_alg, salt + SaltsOf(r.payload))
                   plain == r.form = "Credential"
                   payload == IF plain THEN b.doc ELSE wrapped(<<w.digest>>)
                   ds == IF plain THEN b.disclosures ELSE w.disclosures
                   e == Element(salt, r.sd_alg, r.typ, "iss", payload, ds)
                   origin == <<<<Delegated, Index(1)>>>> \o below(Index(1), origins(r.payload))
                   m == IF plain THEN Made(r.payload.claims, ds, origins(r.payload))
                        ELSE Made(wrapped(<<r.payload.claims>>), ds, origin)
        <3>1. presentation' = [root |-> e, links |-> <<>>, key_binding |-> None] /\ made' = <<m>>
            BY <2>1
        <3>2. IsEntry(m) /\ m.sealed = {}
            <4> HIDE DEF w, plain, ds, origin
            <4>1. QED  BY MadeIsEntry
        <3>3. IsElement(e)
            <4> HIDE DEF payload, ds
            <4>1. QED  BY ElementIsElement
        <3> HIDE DEF e, m
        <3>4. QED  BY <3>1, <3>2, <3>3
    <2>3. Sealing(presentation, made)'
        <3>1. PICK e, m : /\ IsElement(e) /\ IsEntry(m) /\ m.sealed = {}
                          /\ presentation' = [root |-> e, links |-> <<>>, key_binding |-> None]
                          /\ made' = <<m>>
            BY ONLY <2>2
        <3>2. Sealing(presentation', <<m>>)
            BY ONLY <3>1, RootSeals
        <3>3. QED  BY ONLY <3>1, <3>2
    <2>4. QED  BY ONLY <2>3 DEF SealInv
<1>2. ASSUME open_ended \/ presentation # None
      PROVE  /\ Sealing(presentation, made)
             /\ DOMAIN elements_of = 1 .. Len(made)
             /\ Len(made) \in 1 .. Len(made)
             /\ last_element = Elem(presentation, Len(made))
             /\ \A i \in 1 .. Len(made) : elements_of[i] = Elem(presentation, i)
    <2>1. Sealing(presentation, made)
        BY <1>2 DEF SealInv, open_ended
    <2>2. IsList(presentation.links) /\ Len(made) = Len(presentation.links) + 1
        BY <2>1 DEF Sealing, Shaped
    <2>3. Len(presentation.links) \in Nat
        BY <2>2, ListParts
    <2>4. QED  BY <2>1, <2>2, <2>3, ElementsInOrder DEF elements_of, last_element
<1>3. ASSUME NEW ps, NEW binding, NEW signer, Delegate(ps, binding, signer) PROVE SealInv'
    <2>1. open_ended /\ presentation.key_binding = None /\ NoneIsAbsent
        BY <1>3 DEF Delegate, open_ended
    <2>2. \E e, m : /\ IsElement(e) /\ e.sd_hash = None /\ e.issuer_jwt_hash = None
                    /\ IsEntry(m) /\ m.sealed = {}
                    /\ presentation' = [presentation EXCEPT !.links =
                                            Append(@, bound(e, last_element, binding))]
                    /\ made' = Append(IF binding = "SdHash" THEN seal ELSE made, m)
        <3>1. PICK ws \in built(ps, salt), order \in {f \in [1 .. Len(ps) -> 1 .. Len(ps)] : IsInjective(f)} :
              LET n == Len(ps)
                  with_cnf == {i \in 1 .. n : has_cnf(ps[i])}
                  typ == IF with_cnf = {} THEN KB_SD_JWT ELSE "kb-sd-jwt+kb"
                  at(i) == CHOOSE k \in 1 .. n : order[k] = i
                  item(i) == <<<<Delegated, Index(at(i))>>>> \o below(Index(at(i)), origins(ps[i]))
                  ds == FlattenSeq([i \in 1 .. n |-> ws[i].disclosures])
                  e == Element(salt, LinkAlg, typ, signer, wrapped([k \in 1 .. n |-> ws[order[k]].digest]), ds)
                  m == Made(wrapped([k \in 1 .. n |-> ps[order[k]].claims]), ds,
                            FlattenSeq([i \in 1 .. n |-> item(i)]))
              IN  /\ presentation' = [presentation EXCEPT !.links =
                                          Append(@, bound(e, last_element, binding))]
                  /\ made' = Append(IF binding = "SdHash" THEN seal ELSE made, m)
            BY ONLY <1>3 DEF Delegate
        <3> DEFINE n == Len(ps)
                   with_cnf == {i \in 1 .. n : has_cnf(ps[i])}
                   typ == IF with_cnf = {} THEN KB_SD_JWT ELSE "kb-sd-jwt+kb"
                   at(i) == CHOOSE k \in 1 .. n : order[k] = i
                   item(i) == <<<<Delegated, Index(at(i))>>>> \o below(Index(at(i)), origins(ps[i]))
                   ds == FlattenSeq([i \in 1 .. n |-> ws[i].disclosures])
                   body == wrapped([k \in 1 .. n |-> ws[order[k]].digest])
                   claims == wrapped([k \in 1 .. n |-> ps[order[k]].claims])
                   origin == FlattenSeq([i \in 1 .. n |-> item(i)])
                   e == Element(salt, LinkAlg, typ, signer, body, ds)
                   m == Made(claims, ds, origin)
        <3>2. /\ presentation' = [presentation EXCEPT !.links =
                                      Append(@, bound(e, last_element, binding))]
              /\ made' = Append(IF binding = "SdHash" THEN seal ELSE made, m)
            BY <3>1
        <3>3. IsEntry(m) /\ m.sealed = {}
            <4> HIDE DEF claims, ds, origin
            <4>1. QED  BY ONLY MadeIsEntry DEF m
        <3>4. IsElement(e) /\ e.sd_hash = None /\ e.issuer_jwt_hash = None
            <4> HIDE DEF typ, body, ds
            <4>1. QED  BY ONLY ElementIsElement DEF e
        <3> HIDE DEF e, m
        <3>5. QED  BY ONLY <3>2, <3>3, <3>4
    <2>3. PICK e, m : /\ IsElement(e) /\ e.sd_hash = None /\ e.issuer_jwt_hash = None
                      /\ IsEntry(m) /\ m.sealed = {}
                      /\ presentation' = [presentation EXCEPT !.links =
                                              Append(@, bound(e, last_element, binding))]
                      /\ made' = Append(IF binding = "SdHash" THEN seal ELSE made, m)
        BY ONLY <2>2
    <2>4. Sealing(presentation, made) /\ last_element = Elem(presentation, Len(made))
        BY ONLY <1>2, <2>1
    <2> DEFINE ll == IF binding = "SdHash" THEN seal ELSE made
               p == presentation
               last == last_element
               f == bound(e, last_element, binding)
               q == presentation'
               nn == made'
    <2>5. ll = IF binding = "SdHash" THEN [made EXCEPT ![Len(made)].sealed = {last.disclosures}]
               ELSE made
        BY DEF seal
    <2>6. q = [p EXCEPT !.links = Append(p.links, f)] /\ f = bound(e, last, binding)
        BY ONLY <2>3
    <2>7. nn = Append(ll, m)
        BY ONLY <2>3
    <2>8. Sealing(p, made) /\ last = Elem(p, Len(made)) /\ p.key_binding = None
        BY ONLY <2>1, <2>4
    <2>9. IsElement(e) /\ e.sd_hash = None /\ e.issuer_jwt_hash = None /\ IsEntry(m) /\ m.sealed = {}
        BY ONLY <2>3
    <2> HIDE DEF ll, p, last, f, q, nn
    <2>10. q = [p EXCEPT !.links = Append(p.links, bound(e, last, binding))]
        BY ONLY <2>6
    <2>11. Sealing(q, nn)
        BY ONLY <2>1, <2>5, <2>7, <2>8, <2>9, <2>10, LinkAddedSeals
    <2>12. Sealing(presentation', made')
        BY ONLY <2>11 DEF q, nn
    <2>13. QED  BY ONLY <2>12 DEF SealInv
<1>4. ASSUME NEW signer, Bind(signer) PROVE SealInv'
    <2>1. /\ open_ended
          /\ presentation' = [presentation EXCEPT !.key_binding =
                KeyBinding(signer, hash_over(last_element, last_element.disclosures))]
          /\ made' = [made EXCEPT ![Len(made)].sealed = {last_element.disclosures}]
        BY <1>4 DEF Bind, seal, hash_over, serialize
    <2>2. Sealing(presentation, made) /\ last_element = Elem(presentation, Len(made))
        BY ONLY <1>2, <2>1
    <2>3. Sealing(presentation', made')
        BY ONLY <2>1, <2>2, BindingSeals
    <2>4. QED  BY ONLY <2>3 DEF SealInv
<1>5. ASSUME presentation # None, NEW i \in DOMAIN elements_of, NEW ds, NEW f,
             presentation' = put(i, ds), made' = [made EXCEPT ![i].shown = f]
      PROVE  SealInv'
    <2>1. Sealing(presentation, made) /\ i \in 1 .. Len(made)
        BY <1>2, <1>5
    <2>2. /\ presentation' = IF i = 1 THEN [presentation EXCEPT !.root.disclosures = ds]
                             ELSE [presentation EXCEPT !.links[i - 1].disclosures = ds]
          /\ made' = [made EXCEPT ![i].shown = f]
        BY <1>5 DEF put
    <2> DEFINE q == presentation'
               nn == made'
    <2>3. Sealing(presentation', made')
        <3>1. q = IF i = 1 THEN [presentation EXCEPT !.root.disclosures = ds]
                  ELSE [presentation EXCEPT !.links[i - 1].disclosures = ds]
            BY ONLY <2>2
        <3>2. nn = [made EXCEPT ![i].shown = f]
            BY ONLY <2>2
        <3> HIDE DEF q, nn
        <3>3. Sealing(q, nn)
            BY ONLY <2>1, <3>1, <3>2, NewDisclosuresSeal
        <3>4. QED  BY ONLY <3>3 DEF q, nn
    <2>4. QED  BY ONLY <2>3 DEF SealInv
<1>6. ASSUME NEW i \in DOMAIN elements_of, NEW ps, presentation # None, Select(i, ps) PROVE SealInv'
    <2> DEFINE meant == {PlaceOf(made[i].claims, hidden(made[i]), <<>>, w) : w \in ps}
               f == {c \in made[i].shown : \E w \in meant : comparable(c, w)}
               ds == SelectFrom(elements_of[i].disclosures, view(elements_of[i]), ps)
    <2>1. presentation' = put(i, ds) /\ made' = [made EXCEPT ![i].shown = f]
        BY <1>6 DEF Select
    <2> HIDE DEF f, ds
    <2>2. QED  BY <1>5, <1>6, <2>1
<1>7. ASSUME NEW i \in DOMAIN elements_of, NEW k, presentation # None, Drop(i, k) PROVE SealInv'
    <2> DEFINE origin == made[i].origin[CHOOSE j \in DOMAIN made[i].issued :
                            made[i].issued[j] = elements_of[i].disclosures[k]]
               f == made[i].shown \ {origin}
               ds == RemoveAt(elements_of[i].disclosures, k)
    <2>1. presentation' = put(i, ds) /\ made' = [made EXCEPT ![i].shown = f]
        BY <1>7 DEF Drop
    <2> HIDE DEF f, ds
    <2>2. QED  BY <1>5, <1>7, <2>1
<1>8. ASSUME UNCHANGED vars PROVE SealInv'
    BY <1>8 DEF SealInv, vars
<1>9. QED  BY <1>1, <1>3, <1>4, <1>6, <1>7, <1>8 DEF Next

\* The seals of a presentation are an invariant.
LEMMA SealsKept ==
    ASSUME NoneIsAbsent
    PROVE  Spec => []SealInv
<1>1. Init => SealInv
    BY DEF Init, SealInv
<1>2. SealInv /\ [Next]_vars => SealInv'
    BY SealStep
<1>3. QED  BY <1>1, <1>2, PTL DEF Spec

-----------------------------------------------------------------------------
(***************************************************************************)
(* The presentation a verifier gets, and the same with fresh hashes        *)
(***************************************************************************)
IsReceived(g) ==
    g = [jwt |-> g.jwt, sd_alg |-> g.sd_alg, typ |-> g.typ, signed_by |-> g.signed_by,
         disclosures |-> g.disclosures, iat |-> g.iat, aud |-> g.aud, nonce |-> g.nonce,
         exp |-> g.exp, nbf |-> g.nbf, sd_hash |-> g.sd_hash, issuer_jwt_hash |-> g.issuer_jwt_hash,
         form |-> g.form, claims |-> g.claims, disclosed |-> g.disclosed,
         delegate_payload |-> g.delegate_payload]

\* What a verifier receives of an element has its JWT, disclosures and hashes.
LEMMA ReceivedFields ==
    ASSUME NEW e
    PROVE  /\ IsReceived(received(e))
           /\ received(e).jwt = e.jwt /\ received(e).sd_alg = e.sd_alg
           /\ received(e).disclosures = e.disclosures
           /\ received(e).sd_hash = e.sd_hash /\ received(e).issuer_jwt_hash = e.issuer_jwt_hash
<1> DEFINE v == view(e)
           raw == e.payload.obj["delegate_payload"].arr
           revealed == {i \in DOMAIN raw :
                           \E d \in ToSet(e.disclosures) : digest_of(e.sd_alg, d) = raw[i].digest}
           item(i) == claims_record(v.claims.obj["delegate_payload"].arr[index(revealed, i)])
           plain == "delegate_payload" \notin DOMAIN e.payload.obj
           form == IF plain THEN "Credential" ELSE "DelegatePayload"
           claims == IF plain THEN claims_record(v.claims) ELSE None
           disclosed == IF plain THEN {} ELSE revealed
           payloads == IF plain THEN <<>> ELSE
             [i \in DOMAIN raw |->
                 [digest |-> TRUE, claims |-> IF i \in revealed THEN item(i) ELSE None]]
           g == received(e)
<1>1. g = [jwt |-> e.jwt, sd_alg |-> e.sd_alg, typ |-> e.typ, signed_by |-> e.signed_by,
         disclosures |-> e.disclosures, iat |-> e.iat, aud |-> e.aud, nonce |-> e.nonce,
         exp |-> e.exp, nbf |-> e.nbf, sd_hash |-> e.sd_hash, issuer_jwt_hash |-> e.issuer_jwt_hash,
         form |-> form, claims |-> claims, disclosed |-> disclosed, delegate_payload |-> payloads]
    BY DEF received
<1> HIDE DEF form, claims, disclosed, payloads, g
<1>2. /\ IsReceived(g)
      /\ g.jwt = e.jwt /\ g.sd_alg = e.sd_alg /\ g.disclosures = e.disclosures
      /\ g.sd_hash = e.sd_hash /\ g.issuer_jwt_hash = e.issuer_jwt_hash
    BY ONLY <1>1 DEF IsReceived
<1>3. QED  BY ONLY <1>2 DEF g

\* An element with another hash over the element before.
LEMMA Rehashed ==
    ASSUME NEW g, IsReceived(g), NEW h, NEW f, f = [g EXCEPT !.sd_hash = h]
    PROVE  /\ alike(g, f) /\ f.sd_hash = h /\ f.issuer_jwt_hash = g.issuer_jwt_hash
           /\ f.jwt = g.jwt /\ f.sd_alg = g.sd_alg /\ f.disclosures = g.disclosures
<1>1. f = [jwt |-> g.jwt, sd_alg |-> g.sd_alg, typ |-> g.typ, signed_by |-> g.signed_by,
         disclosures |-> g.disclosures, iat |-> g.iat, aud |-> g.aud, nonce |-> g.nonce,
         exp |-> g.exp, nbf |-> g.nbf, sd_hash |-> h, issuer_jwt_hash |-> g.issuer_jwt_hash,
         form |-> g.form, claims |-> g.claims, disclosed |-> g.disclosed,
         delegate_payload |-> g.delegate_payload]
    BY DEF IsReceived
<1>2. QED  BY ONLY <1>1 DEF alike

\* The presentation arrives element by element as it was sent.
LEMMA ArrivedElements ==
    ASSUME IsList(presentation.links)
    PROVE  LET p == arrived IN
           /\ IsList(p.links) /\ Len(p.links) = Len(presentation.links)
           /\ p.key_binding = presentation.key_binding
           /\ \A i \in 1 .. Len(p.links) + 1 : Elem(p, i) = received(Elem(presentation, i))
<1> DEFINE links == presentation.links
           n == Len(links)
           all == [i \in DOMAIN links |-> received(links[i])]
<1>1. n \in Nat /\ DOMAIN links = 1 .. n
    BY ListParts
<1>2. DOMAIN all = 1 .. n /\ all = [i \in 1 .. n |-> all[i]] /\ \A i \in 1 .. n : all[i] = received(links[i])
    BY <1>1
<1>3. arrived.root = received(presentation.root) /\ arrived.links = all
      /\ arrived.key_binding = presentation.key_binding
    BY DEF arrived
<1> HIDE DEF all, n
<1>4. IsList(all) /\ Len(all) = n
    BY ONLY <1>1, <1>2, EnumerationIsList
<1>5. ASSUME NEW i \in 1 .. n + 1 PROVE Elem(arrived, i) = received(Elem(presentation, i))
    <2>1. i = 1 \/ (i # 1 /\ i - 1 \in 1 .. n)
        BY <1>1
    <2>2. QED  BY <1>2, <1>3, <2>1 DEF Elem
<1>6. QED  BY <1>3, <1>4, <1>5 DEF n

\* Hashes made afresh over what is there change nothing else.
LEMMA ReboundElements ==
    ASSUME NEW p, IsList(p.links), \A i \in 1 .. Len(p.links) : IsReceived(p.links[i]),
           NEW q, q = rebound(p)
    PROVE  /\ IsList(q.links) /\ Len(q.links) = Len(p.links) /\ q.root = p.root
           /\ q.key_binding = IF p.key_binding = None THEN None
                              ELSE [p.key_binding EXCEPT !.sd_hash =
                                       hash_over(Elem(p, Len(p.links) + 1), Elem(p, Len(p.links) + 1).disclosures)]
           /\ \A i \in 1 .. Len(p.links) :
                 /\ alike(p.links[i], q.links[i])
                 /\ q.links[i].issuer_jwt_hash = p.links[i].issuer_jwt_hash
                 /\ q.links[i].sd_hash = IF p.links[i].sd_hash = None THEN None
                                         ELSE hash_over(Elem(p, i), Elem(p, i).disclosures)
                 /\ q.links[i].jwt = p.links[i].jwt /\ q.links[i].sd_alg = p.links[i].sd_alg
                 /\ q.links[i].disclosures = p.links[i].disclosures
<1> DEFINE n == Len(p.links)
           over(i) == hash_over(Elem(p, i), Elem(p, i).disclosures)
           link(i) == IF p.links[i].sd_hash = None THEN p.links[i]
                      ELSE [p.links[i] EXCEPT !.sd_hash = over(i)]
           all == <<p.root>> \o p.links
           links == [i \in 1 .. n |-> link(i)]
<1>1. n \in Nat /\ DOMAIN p.links = 1 .. n
    BY ListParts
<1>2. \A i \in 1 .. n + 1 : all[i] = Elem(p, i)
    BY ElementsInOrder
<1>3. \A i \in 1 .. n : i \in 1 .. n + 1
    BY <1>1
<1>4. n + 1 \in 1 .. n + 1
    BY <1>1
<1> HIDE DEF all
<1>5. \A i \in 1 .. n + 1 : digest(all[i].sd_alg, serialize(all[i])) = over(i)
    BY <1>2 DEF hash_over, serialize
<1> DEFINE link1(i) == IF p.links[i].sd_hash = None THEN p.links[i]
                       ELSE [p.links[i] EXCEPT !.sd_hash = digest(all[i].sd_alg, serialize(all[i]))]
<1>6. q = [root |-> p.root, links |-> [i \in DOMAIN p.links |-> link1(i)],
           key_binding |-> IF p.key_binding = None THEN None
                           ELSE [p.key_binding EXCEPT !.sd_hash =
                                    digest(all[n + 1].sd_alg, serialize(all[n + 1]))]]
    BY DEF rebound, all
<1>7. \A i \in 1 .. n : link1(i) = link(i)
    BY <1>3, <1>5
<1> HIDE DEF over
<1>8. /\ q.root = p.root
      /\ q.key_binding = IF p.key_binding = None THEN None
                         ELSE [p.key_binding EXCEPT !.sd_hash = over(n + 1)]
    <2>1. digest(all[n + 1].sd_alg, serialize(all[n + 1])) = over(n + 1)
        BY <1>4, <1>5
    <2> HIDE DEF link1
    <2>2. QED  BY ONLY <1>6, <2>1
<1>9. q.links = [i \in 1 .. n |-> link1(i)]
    <2> HIDE DEF link1
    <2>1. QED  BY ONLY <1>1, <1>6
<1> HIDE DEF link, link1, n
<1>10. q.links = [i \in 1 .. n |-> link(i)]
    BY ONLY <1>7, <1>9
<1>11. /\ DOMAIN q.links = 1 .. n /\ q.links = [i \in 1 .. n |-> q.links[i]]
       /\ \A i \in 1 .. n : q.links[i] = link(i)
    BY ONLY <1>10
<1>12. IsList(q.links) /\ Len(q.links) = n
    BY ONLY <1>1, <1>11, EnumerationIsList
<1>13. ASSUME NEW i \in 1 .. n
       PROVE  /\ alike(p.links[i], q.links[i])
              /\ q.links[i].issuer_jwt_hash = p.links[i].issuer_jwt_hash
              /\ q.links[i].sd_hash = IF p.links[i].sd_hash = None THEN None ELSE over(i)
              /\ q.links[i].jwt = p.links[i].jwt /\ q.links[i].sd_alg = p.links[i].sd_alg
              /\ q.links[i].disclosures = p.links[i].disclosures
    <2> DEFINE g == p.links[i]
               f == q.links[i]
    <2>1. IsReceived(g)
        BY DEF n
    <2>2. f = IF g.sd_hash = None THEN g ELSE [g EXCEPT !.sd_hash = over(i)]
        BY <1>11 DEF link
    <2> HIDE DEF g, f
    <2>3. CASE g.sd_hash = None
        BY ONLY <2>2, <2>3 DEF alike, f, g
    <2>4. CASE g.sd_hash # None
        <3>1. f = [g EXCEPT !.sd_hash = over(i)]
            BY ONLY <2>2, <2>4
        <3>2. /\ alike(g, f) /\ f.sd_hash = over(i) /\ f.issuer_jwt_hash = g.issuer_jwt_hash
              /\ f.jwt = g.jwt /\ f.sd_alg = g.sd_alg /\ f.disclosures = g.disclosures
            BY ONLY <2>1, <3>1, Rehashed
        <3>3. QED  BY ONLY <2>4, <3>2 DEF f, g
    <2>5. QED  BY ONLY <2>3, <2>4
<1>14. QED  BY <1>8, <1>12, <1>13 DEF n, over

\* A link's hash fits the element before it exactly if what was sealed there is
\* what is shown.
LEMMA SealedLinkFits ==
    ASSUME NoneIsAbsent, NEW mm, NEW e, NEW o, NEW prev, NEW last, NEW f,
           prev.jwt = o.jwt, prev.sd_alg = o.sd_alg, prev.disclosures = o.disclosures,
           last.jwt = o.jwt, last.sd_alg = o.sd_alg, last.disclosures = o.disclosures,
           SealedBy(e, o, mm), f.issuer_jwt_hash = e.issuer_jwt_hash,
           f.sd_hash = IF e.sd_hash = None THEN None ELSE hash_over(o, o.disclosures)
    PROVE  /\ check_hash_binding(f, last) = "ok"
           /\ check_hash_binding(e, prev) = "ok" <=> mm.sealed \subseteq {o.disclosures}
<1> DEFINE was == o.disclosures
<1>1. \A alg, input : digest(alg, input) # None
    BY DEF NoneIsAbsent
<1>2. \A ds : hash_over(o, ds) # None
    BY <1>1 DEF hash_over
<1>3. /\ digest(prev.sd_alg, serialize(prev)) = hash_over(o, was)
      /\ digest(last.sd_alg, serialize(last)) = hash_over(o, was)
      /\ digest(prev.sd_alg, prev.jwt) = digest(o.sd_alg, o.jwt)
      /\ digest(last.sd_alg, last.jwt) = digest(o.sd_alg, o.jwt)
    BY DEF hash_over, serialize
<1>4. \A ds : hash_over(o, ds) = hash_over(o, was) <=> ds = was
    BY DEF hash_over, digest
<1>5. CASE e.issuer_jwt_hash = None /\ \E ds : mm.sealed = {ds} /\ e.sd_hash = hash_over(o, ds)
    <2>1. PICK ds : mm.sealed = {ds} /\ e.sd_hash = hash_over(o, ds)
        BY <1>5
    <2>2. f.sd_hash = hash_over(o, was) /\ f.issuer_jwt_hash = None
        BY <1>2, <1>5, <2>1
    <2>3. check_hash_binding(f, last) = "ok"
        BY <1>2, <1>3, <2>2 DEF check_hash_binding
    <2>4. check_hash_binding(e, prev) = "ok" <=> hash_over(o, ds) = hash_over(o, was)
        BY <1>2, <1>3, <1>5, <2>1 DEF check_hash_binding
    <2>5. mm.sealed \subseteq {was} <=> ds = was
        BY <2>1
    <2>6. QED  BY <1>4, <2>3, <2>4, <2>5
<1>6. CASE /\ e.sd_hash = None
           /\ mm.sealed = {}
           /\ e.issuer_jwt_hash = digest(o.sd_alg, o.jwt)
    <2>1. f.sd_hash = None /\ f.issuer_jwt_hash = digest(o.sd_alg, o.jwt)
        BY <1>6
    <2>2. check_hash_binding(f, last) = "ok" /\ check_hash_binding(e, prev) = "ok"
        BY <1>1, <1>3, <1>6, <2>1 DEF check_hash_binding
    <2>3. QED  BY <1>6, <2>2
<1>7. QED  BY <1>5, <1>6 DEF SealedBy

\* The claims that are read do not depend on the hashes.
LEMMA SameClaims ==
    ASSUME NEW p, NEW q, IsList(p.links), IsList(q.links), Len(q.links) = Len(p.links),
           q.root = p.root, \A i \in 1 .. Len(p.links) : alike(p.links[i], q.links[i]), NEW form
    PROVE  claims_of(q, form) = claims_of(p, form)
<1> DEFINE n == Len(p.links) + 1
<1>1. Len(p.links) \in Nat
    BY ListParts
<1>2. \A i \in 1 .. n : elements(p)[i] = Elem(p, i)
    BY ElementsInOrder DEF elements
<1>3. \A i \in 1 .. n : elements(q)[i] = Elem(q, i)
    BY ElementsInOrder DEF elements
<1>4. ASSUME NEW i \in 1 .. n
      PROVE  delegate_payload(elements(q)[i]) = delegate_payload(elements(p)[i])
    <2>1. CASE i = 1
        BY <1>2, <1>3, <2>1 DEF Elem
    <2>2. CASE i # 1
        <3>1. i - 1 \in 1 .. Len(p.links)
            BY <1>1, <2>2
        <3> DEFINE e == p.links[i - 1]
                   f == q.links[i - 1]
        <3>2. e.disclosed = f.disclosed /\ e.delegate_payload = f.delegate_payload
            BY <3>1 DEF alike
        <3>3. elements(p)[i] = e /\ elements(q)[i] = f
            BY <1>2, <1>3, <2>2 DEF Elem
        <3>4. shown(e) = shown(f)
            BY <3>2 DEF shown
        <3>5. QED  BY <3>2, <3>3, <3>4 DEF delegate_payload
    <2>3. QED  BY <2>1, <2>2
<1>5. QED  BY <1>4 DEF claims_of

\* verify: the checks of form look at the number of links and whether there is a
\* KB-JWT only.
LEMMA SameShape ==
    ASSUME NEW p, NEW q, IsList(p.links), IsList(q.links), Len(q.links) = Len(p.links),
           q.key_binding = None <=> p.key_binding = None, NEW opts
    PROVE  shape_error(q, opts) = shape_error(p, opts)
<1>1. IsList(<<>>) /\ Len(<<>>) = 0
    BY EmptyList
<1>2. \A s : IsList(s) /\ Len(s) = 0 => s = <<>>
    <2> SUFFICES ASSUME NEW s, IsList(s), Len(s) = 0 PROVE s = <<>>
        OBVIOUS
    <2>1. \A i \in 1 .. Len(s) : s[i] = <<>>[i]
        OBVIOUS
    <2>2. QED  BY <1>1, <2>1, SameList
<1>3. q.links = <<>> <=> p.links = <<>>
    BY <1>1, <1>2
<1>4. QED  BY <1>3 DEF shape_error

\* verify accepts a presentation exactly if it would accept it with fresh
\* hashes and every seal is over what is shown.
LEMMA SealsDecide ==
    ASSUME NoneIsAbsent, Sealing(presentation, made), NEW opts
    PROVE  LET p == arrived
               q == rebound(p)
           IN  verify(p, "iss", opts) = "ok" <=>
                /\ \A i \in 1 .. Len(made) : made[i].sealed \subseteq {Elem(presentation, i).disclosures}
                /\ verify(q, "iss", opts) = "ok"
<1> DEFINE p == arrived
           q == rebound(p)
           n == Len(presentation.links)
           at(i) == Elem(presentation, i)
           holds(i) == made[i].sealed \subseteq {at(i).disclosures}
<1>1. /\ IsList(presentation.links) /\ IsList(made) /\ Len(made) = n + 1
      /\ \A i \in 1 .. n : LinkSeals(presentation, made, i)
      /\ EndSeals(presentation, made)
    BY DEF Sealing, Shaped
<1>2. n \in Nat
    BY <1>1, ListParts
<1>3. /\ IsList(p.links) /\ Len(p.links) = n
      /\ p.key_binding = presentation.key_binding
      /\ \A i \in 1 .. n + 1 : Elem(p, i) = received(at(i))
    BY <1>1, ArrivedElements
<1>4. \A i \in 1 .. n : p.links[i] = Elem(p, i + 1) /\ i \in 1 .. n + 1 /\ i + 1 \in 1 .. n + 1
    BY <1>2 DEF Elem
<1>5. \A i \in 1 .. n : presentation.links[i] = at(i + 1)
    BY <1>2 DEF Elem
<1> HIDE DEF p, n, at
<1>6. \A i \in 1 .. n + 1 :
        /\ Elem(p, i).jwt = at(i).jwt /\ Elem(p, i).sd_alg = at(i).sd_alg
        /\ Elem(p, i).disclosures = at(i).disclosures
        /\ Elem(p, i).sd_hash = at(i).sd_hash /\ Elem(p, i).issuer_jwt_hash = at(i).issuer_jwt_hash
    BY <1>3, ReceivedFields
<1>7. \A i \in 1 .. Len(p.links) : IsReceived(p.links[i])
    BY <1>3, <1>4, ReceivedFields
<1>8. IsList(p.links) /\ q = rebound(p)
    BY <1>3
<1> HIDE DEF q
<1>9. /\ IsList(q.links) /\ Len(q.links) = n /\ q.root = p.root
      /\ q.key_binding = IF p.key_binding = None THEN None
                         ELSE [p.key_binding EXCEPT !.sd_hash = hash_over(Elem(p, n + 1), Elem(p, n + 1).disclosures)]
      /\ \A i \in 1 .. n :
            /\ alike(p.links[i], q.links[i])
            /\ q.links[i].issuer_jwt_hash = p.links[i].issuer_jwt_hash
            /\ q.links[i].sd_hash = IF p.links[i].sd_hash = None THEN None
                                    ELSE hash_over(Elem(p, i), Elem(p, i).disclosures)
            /\ q.links[i].jwt = p.links[i].jwt /\ q.links[i].sd_alg = p.links[i].sd_alg
            /\ q.links[i].disclosures = p.links[i].disclosures
    <2>1. Len(p.links) = n
        BY <1>3
    <2>2. QED  BY ONLY <1>7, <1>8, <2>1, ReboundElements
<1>10. \A i \in 1 .. n + 1 :
        Elem(q, i).jwt = at(i).jwt /\ Elem(q, i).sd_alg = at(i).sd_alg
        /\ Elem(q, i).disclosures = at(i).disclosures
    <2> SUFFICES ASSUME NEW i \in 1 .. n + 1
                 PROVE  Elem(q, i).jwt = at(i).jwt /\ Elem(q, i).sd_alg = at(i).sd_alg
                        /\ Elem(q, i).disclosures = at(i).disclosures
        OBVIOUS
    <2>1. CASE i = 1
        BY <1>6, <1>9, <2>1 DEF Elem
    <2>2. CASE i # 1
        <3>1. i - 1 \in 1 .. n
            BY <1>2, <2>2
        <3>2. Elem(q, i) = q.links[i - 1] /\ Elem(p, i) = p.links[i - 1]
            BY <2>2 DEF Elem
        <3>3. QED  BY <1>6, <1>9, <3>1, <3>2
    <2>3. QED  BY <2>1, <2>2
<1>11. \A i \in 1 .. n + 1 : elements(p)[i] = Elem(p, i) /\ elements(q)[i] = Elem(q, i)
    <2>1. Len(p.links) = n /\ Len(q.links) = n /\ IsList(p.links) /\ IsList(q.links)
        BY <1>3, <1>9
    <2>2. QED  BY <2>1, ElementsInOrder DEF elements
<1>12. \A form : claims_of(q, form) = claims_of(p, form)
    <2>1. /\ IsList(p.links) /\ IsList(q.links) /\ Len(q.links) = Len(p.links) /\ q.root = p.root
          /\ \A i \in 1 .. Len(p.links) : alike(p.links[i], q.links[i])
        BY <1>3, <1>9
    <2>2. QED  BY ONLY <2>1, SameClaims
<1>13. root_answer(q, "iss", opts) = root_answer(p, "iss", opts)
    BY <1>3, <1>9 DEF root_answer
<1>14. ASSUME NEW i \in 1 .. n
       PROVE  link_answer(p, i, opts) = "ok" <=> holds(i) /\ link_answer(q, i, opts) = "ok"
    <2> DEFINE e == p.links[i]
               f == q.links[i]
               o == at(i)
               prev == elements(p)[i]
               last == elements(q)[i]
               m == made[i]
    <2>1. i \in 1 .. n + 1 /\ i + 1 \in 1 .. n + 1
        BY <1>2
    <2>2. prev = Elem(p, i) /\ last = Elem(q, i)
        BY <1>11, <2>1
    <2>3. e = Elem(p, i + 1) /\ elements(p)[i + 1] = e /\ elements(q)[i + 1] = f
        <3>1. i + 1 # 1 /\ (i + 1) - 1 = i
            BY <1>2
        <3>2. QED  BY <1>11, <2>1, <3>1 DEF Elem
    <2>4. e.sd_hash = presentation.links[i].sd_hash /\ e.issuer_jwt_hash = presentation.links[i].issuer_jwt_hash
        BY <1>5, <1>6, <2>1, <2>3
    <2>5. SealedBy(e, o, m)
        BY <1>1, <2>4 DEF LinkSeals, SealedBy, at
    <2>6. /\ prev.jwt = o.jwt /\ prev.sd_alg = o.sd_alg /\ prev.disclosures = o.disclosures
          /\ last.jwt = o.jwt /\ last.sd_alg = o.sd_alg /\ last.disclosures = o.disclosures
        BY <1>6, <1>10, <2>1, <2>2
    <2>7. /\ f.issuer_jwt_hash = e.issuer_jwt_hash
          /\ f.sd_hash = IF e.sd_hash = None THEN None ELSE hash_over(Elem(p, i), Elem(p, i).disclosures)
          /\ alike(e, f)
        BY <1>9
    <2>8. hash_over(Elem(p, i), Elem(p, i).disclosures) = hash_over(o, o.disclosures)
        BY <2>2, <2>6 DEF hash_over
    <2>9. NoneIsAbsent
        OBVIOUS
    <2> DEFINE cnf == claims_of(p, opts.root_form)[i].cnf
               is_last == i = n
               needs == i < n \/ keyed(opts)
    <2>10. /\ link_answer(p, i, opts) = verify_link(e, prev, cnf, is_last, needs, opts)
           /\ link_answer(q, i, opts) = verify_link(f, last, cnf, is_last, needs, opts)
        BY <1>3, <1>9, <1>12, <2>3 DEF link_answer
    <2>11. holds(i) <=> m.sealed \subseteq {o.disclosures}
        OBVIOUS
    <2> HIDE DEF e, f, o, prev, last, m, cnf, is_last, needs, holds
    <2>12. f.sd_hash = IF e.sd_hash = None THEN None ELSE hash_over(o, o.disclosures)
        BY ONLY <2>7, <2>8
    <2>13. /\ check_hash_binding(f, last) = "ok"
           /\ check_hash_binding(e, prev) = "ok" <=> m.sealed \subseteq {o.disclosures}
        <3>1. f.issuer_jwt_hash = e.issuer_jwt_hash
            BY ONLY <2>7
        <3>2. QED  BY ONLY <2>5, <2>6, <2>9, <2>12, <3>1, SealedLinkFits
    <2>14. verify_link(e, prev, cnf, is_last, needs, opts) = "ok" <=>
            /\ check_hash_binding(e, prev) = "ok"
            /\ verify_link(f, last, cnf, is_last, needs, opts) = "ok"
        BY ONLY <2>7, <2>13, HashBesideTheRest
    <2>15. QED  BY ONLY <2>10, <2>11, <2>13, <2>14
<1>15. q.key_binding = None <=> p.key_binding = None
    <2>1. CASE p.key_binding = None
        BY <1>9, <2>1
    <2>2. CASE p.key_binding # None
        <3>1. PICK signer, ds : p.key_binding = KeyBinding(signer, hash_over(at(Len(made)), ds))
            BY <1>1, <1>3, <2>2 DEF EndSeals, at
        <3>2. q.key_binding = [p.key_binding EXCEPT !.sd_hash =
                                  hash_over(Elem(p, n + 1), Elem(p, n + 1).disclosures)]
            BY <1>9, <2>2
        <3> DEFINE h == hash_over(Elem(p, n + 1), Elem(p, n + 1).disclosures)
                   g == hash_over(at(Len(made)), ds)
        <3>3. q.key_binding = [KeyBinding(signer, g) EXCEPT !.sd_hash = h]
            BY <3>1, <3>2
        <3> HIDE DEF h, g
        <3>4. q.key_binding = KeyBinding(signer, h)
            BY ONLY <3>3 DEF KeyBinding
        <3>5. QED  BY <3>4, <2>2 DEF NoneIsAbsent
    <2>3. QED  BY <2>1, <2>2
<1>16. shape_error(q, opts) = shape_error(p, opts)
    <2>1. IsList(p.links) /\ IsList(q.links) /\ Len(q.links) = Len(p.links)
        BY <1>3, <1>9
    <2>2. QED  BY ONLY <1>15, <2>1, SameShape
<1>17. ASSUME shape_error(p, opts) = "ok"
       PROVE  (keyed(opts) => kb_answer(p, opts) = "ok") <=>
                holds(n + 1) /\ (keyed(opts) => kb_answer(q, opts) = "ok")
    <2>1. keyed(opts) <=> p.key_binding # None
        BY <1>17 DEF shape_error, keyed
    <2>2. CASE p.key_binding = None
        <3>1. made[n + 1].sealed = {}
            BY <1>1, <1>3, <2>2 DEF EndSeals, NoneIsAbsent
        <3>2. QED  BY <2>1, <2>2, <3>1
    <2>3. CASE p.key_binding # None
        <3> DEFINE o == at(n + 1)
                   m == made[n + 1]
                   prev == elements(p)[n + 1]
                   last == elements(q)[n + 1]
                   cnf == claims_of(p, opts.root_form)[n + 1].cnf
                   h == hash_over(o, o.disclosures)
        <3>1. PICK signer, ds : m.sealed = {ds} /\ p.key_binding = KeyBinding(signer, hash_over(o, ds))
            BY <1>1, <1>3, <2>3 DEF EndSeals, at
        <3>2. n + 1 \in 1 .. n + 1
            BY <1>2
        <3>3. /\ prev.jwt = o.jwt /\ prev.sd_alg = o.sd_alg /\ prev.disclosures = o.disclosures
              /\ last.jwt = o.jwt /\ last.sd_alg = o.sd_alg /\ last.disclosures = o.disclosures
            BY <1>6, <1>10, <1>11, <3>2
        <3>4. /\ kb_answer(p, opts) = verify_kb_jwt(p.key_binding, prev, cnf, opts)
              /\ kb_answer(q, opts) = verify_kb_jwt(q.key_binding, last, cnf, opts)
            BY <1>3, <1>9, <1>12 DEF kb_answer
        <3>5. q.key_binding = [p.key_binding EXCEPT !.sd_hash =
                                  hash_over(Elem(p, n + 1), Elem(p, n + 1).disclosures)]
            BY <1>9, <2>3
        <3>6. hash_over(Elem(p, n + 1), Elem(p, n + 1).disclosures) = h
            BY <1>6, <3>2 DEF hash_over
        <3>7. digest(prev.sd_alg, serialize(prev)) = h /\ digest(last.sd_alg, serialize(last)) = h
            BY <3>3 DEF hash_over, serialize
        <3>8. h = hash_over(o, o.disclosures)
            OBVIOUS
        <3> DEFINE g == hash_over(o, ds)
        <3>9. g \notin {None, Bad} /\ h \notin {None, Bad}
            BY DEF NoneIsAbsent, hash_over
        <3>10. g = h <=> ds = o.disclosures
            BY DEF hash_over, digest
        <3>11. holds(n + 1) <=> ds = o.disclosures
            BY <3>1
        <3>12. p.key_binding = KeyBinding(signer, g)
            BY <3>1
        <3> HIDE DEF o, m, prev, last, cnf, h, g, holds
        <3>13. q.key_binding = KeyBinding(signer, h)
            <4>1. q.key_binding = [KeyBinding(signer, g) EXCEPT !.sd_hash = h]
                BY ONLY <3>5, <3>6, <3>12
            <4>2. QED  BY ONLY <4>1 DEF KeyBinding
        <3>14. verify_kb_jwt(KeyBinding(signer, g), prev, cnf, opts) = "ok" <=>
                g = h /\ verify_kb_jwt(KeyBinding(signer, h), prev, cnf, opts) = "ok"
            BY ONLY <3>7, <3>9, KbHashBesideTheRest
        <3>15. verify_kb_jwt(KeyBinding(signer, h), prev, cnf, opts)
                    = verify_kb_jwt(KeyBinding(signer, h), last, cnf, opts)
            BY ONLY <3>7 DEF verify_kb_jwt
        <3>16. QED  BY ONLY <2>1, <2>3, <3>4, <3>10, <3>11, <3>12, <3>13, <3>14, <3>15
    <2>4. QED  BY <2>2, <2>3
<1>18. verify(p, "iss", opts) = "ok" <=>
            /\ shape_error(p, opts) = "ok"
            /\ root_answer(p, "iss", opts) = "ok"
            /\ \A i \in 1 .. n : link_answer(p, i, opts) = "ok"
            /\ keyed(opts) => kb_answer(p, opts) = "ok"
    <2>1. Len(p.links) \in Nat /\ Len(p.links) = n
        BY <1>2, <1>3
    <2>2. QED  BY ONLY <2>1, VerifiedElementwise
<1>19. verify(q, "iss", opts) = "ok" <=>
            /\ shape_error(q, opts) = "ok"
            /\ root_answer(q, "iss", opts) = "ok"
            /\ \A i \in 1 .. n : link_answer(q, i, opts) = "ok"
            /\ keyed(opts) => kb_answer(q, opts) = "ok"
    <2>1. Len(q.links) \in Nat /\ Len(q.links) = n
        BY <1>2, <1>9
    <2>2. QED  BY ONLY <2>1, VerifiedElementwise
<1> HIDE DEF holds
<1>20. (\A i \in 1 .. n + 1 : holds(i)) <=> (\A i \in 1 .. n : holds(i)) /\ holds(n + 1)
    <2>1. \A i : i \in 1 .. n + 1 <=> i \in 1 .. n \/ i = n + 1
        BY ONLY <1>2
    <2>2. QED  BY ONLY <2>1
<1>21. verify(p, "iss", opts) = "ok" <=>
            (\A i \in 1 .. n + 1 : holds(i)) /\ verify(q, "iss", opts) = "ok"
    BY ONLY <1>13, <1>14, <1>16, <1>17, <1>18, <1>19, <1>20
<1>22. QED  BY ONLY <1>1, <1>21 DEF p, q, at, holds

\* presentation.rs: no seal can be broken unnoticed and none stands in the way
\* that is not there.  Whatever holders select, leave out, delegate and bind,
\* verification accepts a presentation exactly if every hash that was signed is
\* over the disclosures shown now and nothing else is wrong with it.
THEOREM VerifiesExactlyIfSealsHold ==
    ASSUME NoneIsAbsent
    PROVE  Spec => []VerifiesIfSealsHold
<1>1. ASSUME SealInv PROVE VerifiesIfSealsHold
    <2>1. CASE presentation = None
        BY <2>1 DEF VerifiesIfSealsHold
    <2>2. CASE Sealing(presentation, made) /\ presentation # None
        <3>1. IsList(presentation.links) /\ IsList(made) /\ Len(made) = Len(presentation.links) + 1
            BY <2>2 DEF Sealing, Shaped
        <3>2. DOMAIN made = 1 .. Len(made)
            BY <3>1, ListParts
        <3>3. \A i \in 1 .. Len(made) : elements_of[i] = Elem(presentation, i)
            BY <3>1, ElementsInOrder DEF elements_of
        <3>4. rebound(arrived).root = arrived.root
            BY DEF rebound
        <3> DEFINE holds == \A i \in DOMAIN made : made[i].sealed \subseteq {elements_of[i].disclosures}
                   holds1 == \A i \in 1 .. Len(made) : made[i].sealed \subseteq {Elem(presentation, i).disclosures}
        <3>5. holds <=> holds1
            BY <3>2, <3>3
        <3> HIDE DEF holds
        <3>6. ASSUME NEW policy
              PROVE  verifies(arrived, policy) <=> holds /\ verifies(rebound(arrived), policy)
            <4> DEFINE opts == options(policy, arrived.root)
            <4>1. verifies(arrived, policy) <=> verify(arrived, "iss", opts) = "ok"
                BY DEF verifies
            <4>2. verifies(rebound(arrived), policy) <=> verify(rebound(arrived), "iss", opts) = "ok"
                BY <3>4 DEF verifies
            <4> HIDE DEF opts
            <4>3. verify(arrived, "iss", opts) = "ok" <=> holds1 /\ verify(rebound(arrived), "iss", opts) = "ok"
                <5>1. NoneIsAbsent /\ Sealing(presentation, made)
                    BY <2>2
                <5>2. QED  BY ONLY <5>1, SealsDecide
            <4> HIDE DEF holds1
            <4>4. QED  BY ONLY <3>5, <4>1, <4>2, <4>3
        <3>7. QED  BY <3>6 DEF VerifiesIfSealsHold, holds
    <2>3. QED  BY <1>1, <2>1, <2>2 DEF SealInv
<1>2. QED  BY <1>1, SealsKept, PTL

-----------------------------------------------------------------------------
(***************************************************************************)
(* Lists of lists                                                          *)
(***************************************************************************)
Flattening(f, ss) ==
    f = [i \in 1 .. Len(ss) |-> IF i = 1 THEN ss[i] ELSE f[i - 1] \o ss[i]]

\* The flattening of a list of lists takes one of them after the other.
LEMMA FlattenSteps ==
    ASSUME NEW ss, IsList(ss)
    PROVE  \E f : /\ \A i \in 1 .. Len(ss) : f[i] = IF i = 1 THEN ss[i] ELSE f[i - 1] \o ss[i]
                  /\ FlattenSeq(ss) = IF Len(ss) = 0 THEN ss ELSE f[Len(ss)]
<1> DEFINE n == Len(ss)
           joint(a, b) == a \o b
           step(f, i) == IF i = 1 THEN ss[i] ELSE joint(f[i - 1], ss[i])
           runs(f, k) == f = [i \in 1 .. k |-> step(f, i)]
           T == {k \in Nat : ~ \E f : runs(f, k)}
           flatten == CHOOSE f : runs(f, n)
<1>1. n \in Nat
    BY ListParts
<1>2. FlattenSeq(ss) = IF n = 0 THEN ss ELSE flatten[n]
    BY DEF FlattenSeq
<1>3. \A k \in Nat : \E f : runs(f, k)
    <2> SUFFICES ASSUME T # {} PROVE FALSE
        OBVIOUS
    <2>1. PICK k \in T : \A m \in T : k <= m
        <3>1. T \subseteq Nat  OBVIOUS
        <3>2. QED  BY <3>1, LeastNatural
    <2>2. k \in Nat /\ ~ \E f : runs(f, k)
        OBVIOUS
    <2>3. CASE k = 0
        <3>1. runs([i \in 1 .. 0 |-> ss], 0)
            OBVIOUS
        <3>2. QED  BY <2>2, <2>3, <3>1
    <2>4. CASE k # 0
        <3>1. k - 1 \in Nat /\ ~ (k <= k - 1)
            BY <2>2, <2>4
        <3>2. k - 1 \notin T
            <4> HIDE DEF T
            <4>1. QED  BY <2>1, <3>1
        <3>3. PICK g : runs(g, k - 1)
            BY <3>1, <3>2
        <3> DEFINE f == [i \in 1 .. k |-> IF i = k THEN step(g, k) ELSE g[i]]
        <3>4. \A i \in 1 .. k : i # 1 => f[i - 1] = g[i - 1]
            BY <2>2
        <3>5. \A i \in 1 .. k : f[i] = step(f, i)
            <4> HIDE DEF joint
            <4>1. QED  BY <2>2, <2>4, <3>3, <3>4
        <3>6. runs(f, k)
            BY <3>5
        <3>7. QED  BY <2>2, <3>6
    <2>5. QED  BY <2>3, <2>4
<1>4. runs(flatten, n)
    BY <1>1, <1>3
<1>5. \A i \in 1 .. n : flatten[i] = step(flatten, i)
    BY <1>4
<1> HIDE DEF flatten
<1>6. QED  BY <1>2, <1>5

\* Lists one after the other make a list of what is in them.
LEMMA FlattenIn ==
    ASSUME NEW ss, IsList(ss), NEW C, \A i \in 1 .. Len(ss) : ss[i] \in Seq(C)
    PROVE  FlattenSeq(ss) \in Seq(C)
<1> DEFINE n == Len(ss)
<1>1. n \in Nat
    BY ListParts
<1>2. PICK f : /\ \A i \in 1 .. n : f[i] = IF i = 1 THEN ss[i] ELSE f[i - 1] \o ss[i]
               /\ FlattenSeq(ss) = IF n = 0 THEN ss ELSE f[n]
    BY FlattenSteps
<1> DEFINE B == {i \in Nat : i \in 1 .. n /\ f[i] \notin Seq(C)}
<1>3. B = {}
    <2> SUFFICES ASSUME B # {} PROVE FALSE
        OBVIOUS
    <2>1. B \subseteq Nat
        OBVIOUS
    <2>2. PICK k \in B : \A m \in B : k <= m
        <3> HIDE DEF B
        <3>1. QED  BY <2>1, LeastNatural
    <2>3. k \in 1 .. n /\ f[k] \notin Seq(C)
        OBVIOUS
    <2>4. CASE k = 1
        BY <1>2, <2>3, <2>4
    <2>5. CASE k # 1
        <3>1. k - 1 \in 1 .. n /\ k - 1 \in Nat /\ ~(k <= k - 1)
            BY <1>1, <2>3, <2>5
        <3>2. k - 1 \notin B
            <4> HIDE DEF B
            <4>1. QED  BY <2>2, <3>1
        <3>3. f[k - 1] \in Seq(C) /\ ss[k] \in Seq(C)
            BY <2>3, <3>1, <3>2
        <3>4. f[k - 1] \o ss[k] \in Seq(C)
            BY ONLY <3>3, ConcatProperties
        <3>5. f[k] = f[k - 1] \o ss[k]
            BY <1>2, <2>3, <2>5
        <3>6. QED  BY ONLY <2>3, <3>4, <3>5
    <2>6. QED  BY <2>4, <2>5
<1>4. ASSUME n # 0 PROVE f[n] \in Seq(C)
    <2>1. n \in 1 .. n /\ n \in Nat
        BY <1>1, <1>4
    <2>2. QED  BY <1>3, <2>1
<1>5. CASE n = 0
    <2>1. IsList(<<>>) /\ Len(<<>>) = 0
        BY EmptyList
    <2>2. \A i \in 1 .. Len(ss) : ss[i] = <<>>[i]
        BY <1>5
    <2>3. ss = <<>>
        BY <1>5, <2>1, <2>2, SameList
    <2>4. QED  BY <1>2, <1>5, <2>3
<1>6. QED  BY <1>2, <1>4, <1>5

\* Lists flattened are a list.
LEMMA FlattenIsList ==
    ASSUME NEW ss, IsList(ss), \A i \in 1 .. Len(ss) : IsList(ss[i])
    PROVE  IsList(FlattenSeq(ss))
<1> DEFINE C == UNION {ToSet(ss[i]) : i \in 1 .. Len(ss)}
<1>1. \A i \in 1 .. Len(ss) : ss[i] \in Seq(C)
    BY SeqMonotonic DEF IsList
<1> HIDE DEF C
<1>2. FlattenSeq(ss) \in Seq(C)
    BY <1>1, FlattenIn
<1>3. QED  BY <1>2, ListOf

\* One more list at the end.
LEMMA FlattenAppend ==
    ASSUME NEW ss, IsList(ss), NEW x, NEW tt, tt = Append(ss, x)
    PROVE  FlattenSeq(tt) = IF ss = <<>> THEN x ELSE FlattenSeq(ss) \o x
<1> DEFINE n == Len(ss)
<1>1. n \in Nat
    BY ListParts
<1>2. /\ IsList(tt) /\ Len(tt) = n + 1
      /\ \A i \in 1 .. n : tt[i] = ss[i]
      /\ tt[n + 1] = x
    BY AppendList
<1>3. PICK f : /\ \A i \in 1 .. n : f[i] = IF i = 1 THEN ss[i] ELSE f[i - 1] \o ss[i]
               /\ FlattenSeq(ss) = IF n = 0 THEN ss ELSE f[n]
    BY FlattenSteps
<1>4. PICK g : /\ \A i \in 1 .. n + 1 : g[i] = IF i = 1 THEN tt[i] ELSE g[i - 1] \o tt[i]
               /\ FlattenSeq(tt) = g[n + 1]
    <2>1. n + 1 # 0
        BY <1>1
    <2>2. PICK g : /\ \A i \in 1 .. Len(tt) : g[i] = IF i = 1 THEN tt[i] ELSE g[i - 1] \o tt[i]
                   /\ FlattenSeq(tt) = IF Len(tt) = 0 THEN tt ELSE g[Len(tt)]
        <3>1. IsList(tt)
            BY <1>2
        <3>2. QED  BY ONLY <3>1, FlattenSteps
    <2>3. Len(tt) = n + 1
        BY <1>2
    <2>4. QED  BY ONLY <2>1, <2>2, <2>3
<1> DEFINE B == {i \in Nat : i \in 1 .. n /\ g[i] # f[i]}
<1>5. B = {}
    <2> SUFFICES ASSUME B # {} PROVE FALSE
        OBVIOUS
    <2>1. B \subseteq Nat
        OBVIOUS
    <2>2. PICK k \in B : \A m \in B : k <= m
        <3> HIDE DEF B
        <3>1. QED  BY <2>1, LeastNatural
    <2>3. k \in 1 .. n /\ k \in 1 .. n + 1 /\ g[k] # f[k]
        BY <1>1
    <2>4. CASE k = 1
        <3>1. f[k] = ss[k] /\ g[k] = tt[k] /\ tt[k] = ss[k]
            BY <1>2, <1>3, <1>4, <2>3, <2>4
        <3>2. QED  BY <2>3, <3>1
    <2>5. CASE k # 1
        <3>1. k - 1 \in 1 .. n /\ k - 1 \in Nat /\ ~(k <= k - 1)
            BY <1>1, <2>3, <2>5
        <3>2. k - 1 \notin B
            <4> HIDE DEF B
            <4>1. QED  BY <2>2, <3>1
        <3>3. g[k - 1] = f[k - 1]
            BY <3>1, <3>2
        <3>4. f[k] = f[k - 1] \o ss[k] /\ g[k] = g[k - 1] \o tt[k] /\ tt[k] = ss[k]
            BY <1>2, <1>3, <1>4, <2>3, <2>5
        <3>5. QED  BY <2>3, <3>3, <3>4
    <2>6. QED  BY <2>4, <2>5
<1>6. n = 0 <=> ss = <<>>
    <2>1. IsList(<<>>) /\ Len(<<>>) = 0
        BY EmptyList
    <2>2. n = 0 => \A i \in 1 .. Len(ss) : ss[i] = <<>>[i]
        OBVIOUS
    <2>3. QED  BY <2>1, <2>2, SameList
<1>7. CASE n = 0
    <2>1. n + 1 = 1 /\ n + 1 \in 1 .. n + 1
        BY <1>7
    <2>2. g[n + 1] = tt[n + 1]
        BY <1>4, <2>1
    <2>3. QED  BY <1>2, <1>4, <1>6, <1>7, <2>2
<1>8. CASE n # 0
    <2>1. n + 1 # 1 /\ n + 1 \in 1 .. n + 1 /\ (n + 1) - 1 = n /\ n \in 1 .. n
        BY <1>1, <1>8
    <2>2. g[n + 1] = g[n] \o tt[n + 1]
        BY <1>4, <2>1
    <2>3. g[n] = f[n]
        BY <1>1, <1>5, <2>1
    <2>4. QED  BY <1>2, <1>3, <1>4, <1>6, <1>8, <2>2, <2>3
<1>9. QED  BY <1>7, <1>8

\* A list without a length is the empty one.
LEMMA NoItems ==
    ASSUME NEW s, IsList(s)
    PROVE  s = <<>> <=> Len(s) = 0
<1>1. IsList(<<>>) /\ Len(<<>>) = 0
    BY EmptyList
<1>2. Len(s) = 0 => \A i \in 1 .. Len(s) : s[i] = <<>>[i]
    OBVIOUS
<1>3. QED  BY <1>1, <1>2, SameList

\* A list with items is a list and a last item.
LEMMA LastApart ==
    ASSUME NEW s, IsList(s), s # <<>>
    PROVE  \E t, x : IsList(t) /\ s = Append(t, x)
<1>1. \E t \in Seq(ToSet(s)), x \in ToSet(s) : s = Append(t, x)
    BY SequenceEmptyOrAppend DEF IsList
<1>2. QED  BY <1>1, ListOf

\* Nothing before or after a list.
LEMMA ConcatNothing ==
    ASSUME NEW s, IsList(s)
    PROVE  s \o <<>> = s /\ <<>> \o s = s
BY ConcatEmptySeq DEF IsList

\* Concatenation and one more item.
LEMMA AppendAfterConcat ==
    ASSUME NEW s, IsList(s), NEW t, IsList(t), NEW x
    PROVE  s \o Append(t, x) = Append(s \o t, x)
<1> DEFINE S == ToSet(s) \cup ToSet(t) \cup {x}
<1>1. s \in Seq(S) /\ t \in Seq(S) /\ x \in S /\ <<x>> \in Seq(S)
    BY SeqMonotonic DEF IsList
<1> HIDE DEF S
<1>2. s \o t \in Seq(S)
    BY ONLY <1>1, ConcatProperties
<1>3. Append(t, x) = t \o <<x>> /\ Append(s \o t, x) = (s \o t) \o <<x>>
    BY ONLY <1>1, <1>2, AppendIsConcat
<1>4. (s \o t) \o <<x>> = s \o (t \o <<x>>)
    BY ONLY <1>1, ConcatAssociative
<1>5. QED  BY ONLY <1>3, <1>4

\* A list followed by a list of one item.
LEMMA ConcatOne ==
    ASSUME NEW s, IsList(s), NEW x
    PROVE  s \o <<x>> = Append(s, x)
<1> DEFINE S == ToSet(s) \cup {x}
<1>1. s \in Seq(S) /\ x \in S
    BY SeqMonotonic DEF IsList
<1> HIDE DEF S
<1>2. QED  BY <1>1, AppendIsConcat

\* Concatenation is associative.
LEMMA ConcatThree ==
    ASSUME NEW s, IsList(s), NEW t, IsList(t), NEW u, IsList(u)
    PROVE  (s \o t) \o u = s \o (t \o u)
<1> DEFINE S == ToSet(s) \cup ToSet(t) \cup ToSet(u)
<1>1. s \in Seq(S) /\ t \in Seq(S) /\ u \in Seq(S)
    BY SeqMonotonic DEF IsList
<1> HIDE DEF S
<1>2. QED  BY <1>1, ConcatAssociative

-----------------------------------------------------------------------------
(***************************************************************************)
(* The text of elements, one component at a time                           *)
(***************************************************************************)
IsWritten(e) ==
    /\ e = [jwt |-> e.jwt, disclosures |-> e.disclosures]
    /\ e.jwt.kind = "jwt"
    /\ IsList(e.disclosures)
    /\ \A k \in 1 .. Len(e.disclosures) : e.disclosures[k].kind = "disclosure"

Written(es) == IsList(es) /\ \A i \in 1 .. Len(es) : IsWritten(es[i])

\* What stands before the next element.
before(es) == IF es = <<>> THEN <<>> ELSE Append(chained(es), Empty)

\* The text of one element is a list of components.
LEMMA JoinedList ==
    ASSUME NEW e, IsList(e.disclosures)
    PROVE  IsList(joined(e))
<1>1. IsList(<<e.jwt>>)
    BY SingletonList
<1>2. QED  BY <1>1, ConcatList DEF joined

\* So is the text of several.
LEMMA ChainedList ==
    ASSUME NEW es, Written(es)
    PROVE  IsList(chained(es)) /\ IsList(before(es))
<1> DEFINE n == Len(es)
           pieces == [i \in DOMAIN es |-> (IF i = 1 THEN <<>> ELSE <<Empty>>) \o joined(es[i])]
<1>1. n \in Nat /\ DOMAIN es = 1 .. n
    BY ListParts DEF Written
<1>2. DOMAIN pieces = 1 .. n /\ pieces = [i \in 1 .. n |-> pieces[i]]
    BY <1>1
<1>3. IsList(pieces) /\ Len(pieces) = n
    <2> HIDE DEF pieces
    <2>1. QED  BY <1>1, <1>2, EnumerationIsList
<1>4. ASSUME NEW i \in 1 .. n PROVE IsList(pieces[i])
    <2>1. IsList(joined(es[i]))
        BY JoinedList DEF Written, IsWritten
    <2>2. IsList(<<>>) /\ IsList(<<Empty>>)
        BY EmptyList, SingletonList
    <2>3. pieces[i] = (IF i = 1 THEN <<>> ELSE <<Empty>>) \o joined(es[i])
        BY <1>1
    <2>4. IsList(<<>> \o joined(es[i])) /\ IsList(<<Empty>> \o joined(es[i]))
        BY ONLY <2>1, <2>2, ConcatList
    <2>5. QED  BY <2>3, <2>4
<1>5. chained(es) = FlattenSeq(pieces)
    BY DEF chained
<1> HIDE DEF pieces
<1>6. IsList(chained(es))
    BY <1>3, <1>4, <1>5, FlattenIsList
<1>7. QED  BY <1>6, EmptyList, AppendList DEF before

\* No elements have no text.
LEMMA ChainedNothing == chained(<<>>) = <<>>
<1> DEFINE pieces == [i \in DOMAIN <<>> |-> (IF i = 1 THEN <<>> ELSE <<Empty>>) \o joined(<<>>[i])]
<1>1. DOMAIN pieces = 1 .. 0 /\ pieces = [i \in 1 .. 0 |-> pieces[i]]
    OBVIOUS
<1>2. chained(<<>>) = FlattenSeq(pieces)
    BY DEF chained
<1> HIDE DEF pieces
<1>3. IsList(pieces) /\ Len(pieces) = 0
    BY <1>1, EnumerationIsList
<1>4. pieces = <<>>
    BY <1>3, NoItems
<1>5. FlattenSeq(pieces) = pieces
    BY <1>3 DEF FlattenSeq
<1>6. QED  BY <1>2, <1>4, <1>5

\* One more element.
LEMMA ChainedAppend ==
    ASSUME NEW es, Written(es), NEW e, IsWritten(e)
    PROVE  /\ Written(Append(es, e))
           /\ chained(Append(es, e)) = before(es) \o joined(e)
<1> DEFINE n == Len(es)
           fs == Append(es, e)
           piece(l, i) == (IF i = 1 THEN <<>> ELSE <<Empty>>) \o joined(l[i])
           pieces(l) == [i \in DOMAIN l |-> piece(l, i)]
<1>0. IsList(es)
    BY DEF Written
<1>1. n \in Nat /\ DOMAIN es = 1 .. n
    BY <1>0, ListParts
<1>2. /\ IsList(fs) /\ Len(fs) = n + 1
      /\ \A i \in 1 .. n : fs[i] = es[i]
      /\ fs[n + 1] = e
    BY <1>0, AppendList
<1> HIDE DEF fs
<1>3. DOMAIN fs = 1 .. n + 1
    BY <1>2, ListParts
<1>4. Written(fs)
    <2>1. \A i \in 1 .. n + 1 : i \in 1 .. n \/ i = n + 1
        BY <1>1
    <2>2. QED  BY <1>2, <2>1 DEF Written
<1>5. chained(es) = FlattenSeq(pieces(es)) /\ chained(fs) = FlattenSeq(pieces(fs))
    BY DEF chained
<1>6. \A i \in 1 .. n : piece(fs, i) = piece(es, i)
    BY <1>2
<1> DEFINE ps == pieces(es)
           qs == pieces(fs)
           x == piece(fs, n + 1)
<1>7. /\ DOMAIN ps = 1 .. n /\ ps = [i \in 1 .. n |-> ps[i]]
      /\ DOMAIN qs = 1 .. n + 1 /\ qs = [i \in 1 .. n + 1 |-> qs[i]]
      /\ \A i \in 1 .. n : qs[i] = ps[i]
      /\ qs[n + 1] = x
    <2>1. n + 1 \in 1 .. n + 1 /\ \A i \in 1 .. n : i \in 1 .. n + 1
        BY <1>1
    <2> HIDE DEF piece
    <2>2. QED  BY <1>1, <1>3, <1>6, <2>1
<1>8. x = (IF n + 1 = 1 THEN <<>> ELSE <<Empty>>) \o joined(e)
    BY <1>2
<1> HIDE DEF piece, ps, qs, x
<1>9. IsList(ps) /\ Len(ps) = n
    BY <1>1, <1>7, EnumerationIsList
<1>10. n + 1 \in Nat
    BY <1>1
<1>11. IsList(qs) /\ Len(qs) = n + 1
    BY ONLY <1>7, <1>10, EnumerationIsList
<1>12. qs = Append(ps, x)
    <2>1. /\ IsList(Append(ps, x)) /\ Len(Append(ps, x)) = n + 1
          /\ \A i \in 1 .. n : Append(ps, x)[i] = ps[i]
          /\ Append(ps, x)[n + 1] = x
        BY ONLY <1>9, AppendList
    <2>2. \A i \in 1 .. n + 1 : i \in 1 .. n \/ i = n + 1
        BY <1>1
    <2>3. \A i \in 1 .. n + 1 : qs[i] = Append(ps, x)[i]
        BY ONLY <1>7, <2>1, <2>2
    <2>4. QED  BY ONLY <1>11, <2>1, <2>3, SameList
<1>13. FlattenSeq(qs) = IF ps = <<>> THEN x ELSE FlattenSeq(ps) \o x
    BY ONLY <1>9, <1>12, FlattenAppend
<1>14. (ps = <<>> <=> n = 0) /\ (es = <<>> <=> n = 0)
    BY <1>0, <1>9, NoItems
<1>15. IsList(joined(e))
    BY JoinedList DEF IsWritten
<1>16. chained(fs) = FlattenSeq(qs) /\ chained(es) = FlattenSeq(ps)
    BY <1>5 DEF ps, qs
<1>17. CASE n = 0
    <2>1. x = <<>> \o joined(e)
        BY <1>8, <1>17
    <2>2. x = joined(e) /\ before(es) \o joined(e) = joined(e)
        BY <1>14, <1>15, <1>17, <2>1, ConcatNothing DEF before
    <2>3. QED  BY <1>4, <1>13, <1>14, <1>16, <1>17, <2>2 DEF fs
<1>18. CASE n # 0
    <2>1. x = <<Empty>> \o joined(e)
        BY <1>1, <1>8, <1>18
    <2>2. IsList(chained(es)) /\ IsList(<<Empty>>)
        BY ChainedList, SingletonList
    <2>3. (chained(es) \o <<Empty>>) \o joined(e) = chained(es) \o (<<Empty>> \o joined(e))
        BY ONLY <1>15, <2>2, ConcatThree
    <2>4. before(es) = chained(es) \o <<Empty>>
        BY <1>14, <1>18, <2>2, ConcatOne DEF before
    <2>5. QED  BY <1>4, <1>13, <1>14, <1>16, <1>18, <2>1, <2>3, <2>4 DEF fs
<1>19. QED  BY <1>17, <1>18

begun(c) == [jwt |-> c, disclosures |-> <<>>]
longer(e, c) == [jwt |-> e.jwt, disclosures |-> Append(e.disclosures, c)]

\* The text of an element that has no disclosure yet.
LEMMA BegunText ==
    ASSUME NEW es, Written(es), NEW c, c.kind = "jwt"
    PROVE  /\ Written(Append(es, begun(c)))
           /\ chained(Append(es, begun(c))) = Append(before(es), c)
<1> DEFINE e == begun(c)
<1>1. e = [jwt |-> e.jwt, disclosures |-> e.disclosures] /\ e.jwt = c /\ e.disclosures = <<>>
    BY DEF begun
<1> HIDE DEF e
<1>2. IsWritten(e)
    BY <1>1, EmptyList DEF IsWritten
<1>3. Written(Append(es, e)) /\ chained(Append(es, e)) = before(es) \o joined(e)
    BY <1>2, ChainedAppend
<1>4. joined(e) = <<c>>
    <2>1. IsList(<<c>>)
        BY SingletonList
    <2>2. joined(e) = <<c>> \o <<>>
        BY <1>1 DEF joined
    <2>3. QED  BY <2>1, <2>2, ConcatNothing
<1>5. before(es) \o <<c>> = Append(before(es), c)
    BY ChainedList, ConcatOne
<1>6. QED  BY <1>3, <1>4, <1>5 DEF e

\* And with one more disclosure.
LEMMA LongerText ==
    ASSUME NEW es, Written(es), NEW e, IsWritten(e), NEW c, c.kind = "disclosure"
    PROVE  /\ Written(Append(es, longer(e, c)))
           /\ chained(Append(es, longer(e, c))) = Append(chained(Append(es, e)), c)
<1> DEFINE f == longer(e, c)
<1>1. f = [jwt |-> f.jwt, disclosures |-> f.disclosures] /\ f.jwt = e.jwt
      /\ f.disclosures = Append(e.disclosures, c)
    BY DEF longer
<1>2. IsList(e.disclosures) /\ e.jwt.kind = "jwt"
    BY DEF IsWritten
<1> HIDE DEF f
<1>3. /\ IsList(f.disclosures) /\ Len(f.disclosures) = Len(e.disclosures) + 1
      /\ \A k \in 1 .. Len(e.disclosures) : f.disclosures[k] = e.disclosures[k]
      /\ f.disclosures[Len(e.disclosures) + 1] = c
    BY <1>1, <1>2, AppendList
<1>4. IsWritten(f)
    <2>1. Len(e.disclosures) \in Nat
        BY <1>2, ListParts
    <2>2. \A k \in 1 .. Len(f.disclosures) : k \in 1 .. Len(e.disclosures) \/ k = Len(e.disclosures) + 1
        BY <1>3, <2>1
    <2>3. \A k \in 1 .. Len(f.disclosures) : f.disclosures[k].kind = "disclosure"
        BY <1>3, <2>2 DEF IsWritten
    <2>4. QED  BY <1>1, <1>2, <1>3, <2>3 DEF IsWritten
<1>5. /\ Written(Append(es, f)) /\ chained(Append(es, f)) = before(es) \o joined(f)
      /\ chained(Append(es, e)) = before(es) \o joined(e)
    BY <1>4, ChainedAppend
<1>6. joined(f) = Append(joined(e), c)
    <2>1. IsList(<<e.jwt>>)
        BY SingletonList
    <2>2. joined(f) = <<e.jwt>> \o Append(e.disclosures, c)
        BY <1>1 DEF joined
    <2>3. QED  BY <1>2, <2>1, <2>2, AppendAfterConcat DEF joined
<1>7. IsList(before(es)) /\ IsList(joined(e))
    BY <1>2, ChainedList, JoinedList
<1>8. QED  BY <1>5, <1>6, <1>7, AppendAfterConcat DEF f

-----------------------------------------------------------------------------
(***************************************************************************)
(* parse, one component at a time                                          *)
(***************************************************************************)
scan(es, next) == [elements |-> es, key_binding |-> <<>>, next |-> next]

\* parse: a JWT where one is due begins an element.
LEMMA JwtBegins ==
    ASSUME NEW es, NEW c, c.kind = "jwt", NEW i, NEW n
    PROVE  parse_step(scan(es, "jwt"), c, i, n) = scan(Append(es, begun(c)), "more")
BY DEF parse_step, scan, begun

\* parse: a disclosure is added to the element that has begun.
LEMMA DisclosureFollows ==
    ASSUME NEW es, IsList(es), NEW e, IsWritten(e), NEW c, c.kind = "disclosure", NEW i, NEW n
    PROVE  parse_step(scan(Append(es, e), "more"), c, i, n) = scan(Append(es, longer(e, c)), "more")
<1> DEFINE fs == Append(es, e)
           k == Len(es) + 1
           gs == [fs EXCEPT ![Len(fs)].disclosures = Append(@, c)]
           hs == Append(es, longer(e, c))
<1>1. /\ IsList(fs) /\ Len(fs) = k
      /\ \A j \in 1 .. Len(es) : fs[j] = es[j]
      /\ fs[k] = e
    BY AppendList
<1>2. /\ IsList(hs) /\ Len(hs) = k
      /\ \A j \in 1 .. Len(es) : hs[j] = es[j]
      /\ hs[k] = longer(e, c)
    BY AppendList
<1>3. Len(es) \in Nat /\ k \in 1 .. k /\ \A j \in 1 .. k : j \in 1 .. Len(es) \/ j = k
    BY ListParts
<1> HIDE DEF fs, hs, k
<1>4. DOMAIN fs = 1 .. k
    BY <1>1, ListParts
<1>5. [e EXCEPT !.disclosures = Append(@, c)] = longer(e, c)
    <2>1. e = [jwt |-> e.jwt, disclosures |-> e.disclosures]
        BY DEF IsWritten
    <2> DEFINE w == e.jwt
               ds == e.disclosures
    <2> HIDE DEF w, ds
    <2>2. e = [jwt |-> w, disclosures |-> ds] /\ e.jwt = w /\ e.disclosures = ds
        BY <2>1 DEF w, ds
    <2>3. QED  BY ONLY <2>2 DEF longer
<1>6. gs = [fs EXCEPT ![k] = longer(e, c)]
    BY <1>1, <1>3, <1>4, <1>5
<1>7. IsList(gs) /\ Len(gs) = k /\ \A j \in 1 .. k : gs[j] = IF j = k THEN longer(e, c) ELSE fs[j]
    <2> HIDE DEF gs
    <2>1. IsList(fs) /\ k \in 1 .. Len(fs)
        BY <1>1, <1>3
    <2> DEFINE x == longer(e, c)
    <2>2. IsList(gs) /\ Len(gs) = Len(fs)
        <3>1. gs = [fs EXCEPT ![k] = x]
            BY ONLY <1>6
        <3> HIDE DEF x
        <3>2. QED  BY ONLY <2>1, <3>1, ReplaceInList
    <2>3. \A j \in 1 .. k : gs[j] = IF j = k THEN longer(e, c) ELSE fs[j]
        BY ONLY <1>4, <1>6
    <2>4. QED  BY <1>1, <2>2, <2>3
<1> HIDE DEF gs
<1>8. \A j \in 1 .. k : gs[j] = hs[j]
    <2> SUFFICES ASSUME NEW j \in 1 .. k PROVE gs[j] = hs[j]
        OBVIOUS
    <2>1. CASE j = k
        BY ONLY <1>2, <1>7, <2>1
    <2>2. CASE j # k
        BY ONLY <1>1, <1>2, <1>3, <1>7, <2>2
    <2>3. QED  BY <2>1, <2>2
<1>9. gs = hs
    BY ONLY <1>2, <1>7, <1>8, SameList
<1>10. parse_step(scan(fs, "more"), c, i, n) = scan(gs, "more")
    BY DEF parse_step, scan, gs
<1>11. QED  BY <1>9, <1>10 DEF fs, hs

\* parse: an empty component ends the element.
LEMMA ElementEnds ==
    ASSUME NEW es, NEW c, c.kind = "empty", NEW i, NEW n
    PROVE  parse_step(scan(es, "more"), c, i, n) = scan(es, "jwt")
BY DEF parse_step, scan

\* parse: a JWT in the place of a disclosure is the KB-JWT, if nothing follows.
LEMMA KeyBindingEnds ==
    ASSUME NEW es, NEW c, c.kind = "jwt", NEW i, NEW n
    PROVE  parse_step(scan(es, "more"), c, i, n) =
            IF i = n THEN [elements |-> es, key_binding |-> <<c>>, next |-> "end"]
            ELSE scan(es, "malformed")
<1>1. [scan(es, "more") EXCEPT !.key_binding = <<c>>, !.next = "end"] =
        [elements |-> es, key_binding |-> <<c>>, next |-> "end"]
    <2> DEFINE kb == <<c>>
               s == scan(es, "more")
    <2>1. s = [elements |-> es, key_binding |-> <<>>, next |-> "more"]
        BY DEF scan
    <2> HIDE DEF kb, s
    <2>2. [s EXCEPT !.key_binding = kb] = [elements |-> es, key_binding |-> kb, next |-> "more"]
        BY ONLY <2>1
    <2>3. [s EXCEPT !.key_binding = kb, !.next = "end"] = [elements |-> es, key_binding |-> kb, next |-> "end"]
        <3> DEFINE t == [s EXCEPT !.key_binding = kb]
        <3>1. [s EXCEPT !.key_binding = kb, !.next = "end"] = [t EXCEPT !.next = "end"]
            OBVIOUS
        <3>2. t = [elements |-> es, key_binding |-> kb, next |-> "more"]
            BY <2>2
        <3> HIDE DEF t
        <3>3. [t EXCEPT !.next = "end"] = [elements |-> es, key_binding |-> kb, next |-> "end"]
            BY ONLY <3>2
        <3>4. QED  BY ONLY <3>1, <3>3
    <2>4. QED  BY ONLY <2>3 DEF s, kb
<1>2. [scan(es, "more") EXCEPT !.next = "malformed"] = scan(es, "malformed")
    BY DEF scan
<1>3. scan(es, "more").next = "more"
    BY DEF scan
<1> DEFINE s == scan(es, "more")
<1> HIDE DEF s
<1>4. s.next = "more"
    BY <1>3 DEF s
<1>5. parse_step(s, c, i, n) =
        IF i = n THEN [s EXCEPT !.key_binding = <<c>>, !.next = "end"] ELSE [s EXCEPT !.next = "malformed"]
    BY <1>4 DEF parse_step, kb_allowed
<1>6. QED  BY <1>1, <1>2, <1>5 DEF s

\* parse: every other component makes the text malformed, and it stays so.
LEMMA NothingElseFits ==
    ASSUME NEW es, NEW c, NEW i, NEW n
    PROVE  /\ c.kind # "jwt" => parse_step(scan(es, "jwt"), c, i, n) = scan(es, "malformed")
           /\ c.kind \notin {"jwt", "disclosure", "empty"} =>
                parse_step(scan(es, "more"), c, i, n) = scan(es, "malformed")
           /\ parse_step(scan(es, "malformed"), c, i, n) = scan(es, "malformed")
BY DEF parse_step, scan

\* parse runs: the recursive function of its components exists.
LEMMA ParseSteps ==
    ASSUME NEW cs, Len(cs) \in Nat
    PROVE  \E st : /\ st[0] = scan(<<>>, "jwt")
                   /\ \A i \in 1 .. Len(cs) : st[i] = parse_step(st[i - 1], cs[i], i, Len(cs))
                   /\ parse(cs) = st[Len(cs)]
<1> DEFINE n == Len(cs)
           taken(x, i) == parse_step(x, cs[i], i, n)
           step(f, i) == IF i = 0 THEN scan(<<>>, "jwt") ELSE taken(f[i - 1], i)
           runs(f, k) == f = [i \in 0 .. k |-> step(f, i)]
           T == {k \in Nat : ~ \E f : runs(f, k)}
           st == CHOOSE f : runs(f, n)
<1>1. parse(cs) = st[n]
    BY DEF parse, scan
<1>2. \A i : step(st, i) = IF i = 0 THEN scan(<<>>, "jwt") ELSE parse_step(st[i - 1], cs[i], i, n)
    OBVIOUS
<1> HIDE DEF taken
<1>3. \A k \in Nat : \E f : runs(f, k)
    <2> SUFFICES ASSUME T # {} PROVE FALSE
        OBVIOUS
    <2>1. PICK k \in T : \A m \in T : k <= m
        <3>1. T \subseteq Nat  OBVIOUS
        <3>2. QED  BY <3>1, LeastNatural
    <2>2. k \in Nat /\ ~ \E f : runs(f, k)
        OBVIOUS
    <2>3. CASE k = 0
        <3>1. runs([i \in 0 .. 0 |-> scan(<<>>, "jwt")], 0)
            OBVIOUS
        <3>2. QED  BY <2>2, <2>3, <3>1
    <2>4. CASE k # 0
        <3>1. k - 1 \in Nat /\ ~ (k <= k - 1)
            BY <2>2, <2>4
        <3>2. k - 1 \notin T
            <4> HIDE DEF T
            <4>1. QED  BY <2>1, <3>1
        <3>3. PICK g : runs(g, k - 1)
            BY <3>1, <3>2
        <3> DEFINE f == [i \in 0 .. k |-> IF i = k THEN step(g, k) ELSE g[i]]
        <3>4. \A i \in 0 .. k : i # 0 => f[i - 1] = g[i - 1]
            BY <2>2
        <3>5. \A i \in 0 .. k : f[i] = step(f, i)
            BY <2>2, <2>4, <3>3, <3>4
        <3>6. runs(f, k)
            BY <3>5
        <3>7. QED  BY <2>2, <3>6
    <2>5. QED  BY <2>3, <2>4
<1>4. n \in Nat /\ runs(st, n)
    BY <1>3
<1>5. \A i \in 0 .. n : st[i] = step(st, i)
    BY <1>4
<1> HIDE DEF st
<1>6. 0 \in 0 .. n /\ \A i \in 1 .. n : i \in 0 .. n /\ i # 0
    BY <1>4
<1> HIDE DEF step
<1>7. st[0] = scan(<<>>, "jwt")
    BY <1>2, <1>5, <1>6
<1>8. \A i \in 1 .. n : st[i] = parse_step(st[i - 1], cs[i], i, n)
    BY <1>2, <1>5, <1>6
<1>9. QED  BY <1>1, <1>7, <1>8

-----------------------------------------------------------------------------
(***************************************************************************)
(* What is written is read, and what is read was written                   *)
(***************************************************************************)
Scanned(cs, st) ==
    /\ st[0] = scan(<<>>, "jwt")
    /\ \A i \in 1 .. Len(cs) : st[i] = parse_step(st[i - 1], cs[i], i, Len(cs))

Begins(t, cs) == Len(t) <= Len(cs) /\ \A i \in 1 .. Len(t) : cs[i] = t[i]

\* What begins a text begins it without its last component.
LEMMA BeginsLess ==
    ASSUME NEW cs, IsList(cs), NEW t, IsList(t), NEW c, Begins(Append(t, c), cs)
    PROVE  /\ Begins(t, cs) /\ Len(t) + 1 \in 1 .. Len(cs) /\ cs[Len(t) + 1] = c
           /\ Len(Append(t, c)) = Len(t) + 1
<1> DEFINE u == Append(t, c)
<1>1. /\ Len(u) = Len(t) + 1 /\ \A i \in 1 .. Len(t) : u[i] = t[i]
      /\ u[Len(t) + 1] = c
    BY AppendList
<1>2. Begins(u, cs)
    OBVIOUS
<1>3. Len(t) \in Nat /\ Len(cs) \in Nat
    BY ListParts
<1> HIDE DEF u
<1>4. QED  BY <1>1, <1>2, <1>3 DEF Begins, u

\* Elements that can be written are some that can, and a last one.
LEMMA WrittenParts ==
    ASSUME NEW es, Written(es), es # <<>>
    PROVE  \E l, e : Written(l) /\ IsWritten(e) /\ es = Append(l, e)
<1>1. PICK l, e : IsList(l) /\ es = Append(l, e)
    BY LastApart DEF Written
<1>2. /\ Len(es) = Len(l) + 1 /\ \A i \in 1 .. Len(l) : es[i] = l[i]
      /\ es[Len(l) + 1] = e
    BY <1>1, AppendList
<1>3. Len(l) \in Nat
    BY <1>1, ListParts
<1>4. \A i \in 1 .. Len(l) : IsWritten(l[i])
    <2>1. \A i \in 1 .. Len(l) : i \in 1 .. Len(es)
        BY <1>2, <1>3
    <2>2. QED  BY <1>2, <2>1 DEF Written
<1>5. IsWritten(e)
    <2>1. Len(l) + 1 \in 1 .. Len(es)
        BY <1>2, <1>3
    <2>2. QED  BY <1>2, <2>1 DEF Written
<1>6. QED  BY <1>1, <1>4, <1>5 DEF Written

\* An element that can be written is its JWT, or one disclosure longer than such
\* an element.
LEMMA ElementParts ==
    ASSUME NEW e, IsWritten(e)
    PROVE  \/ e = begun(e.jwt) /\ e.jwt.kind = "jwt"
           \/ \E f, c : IsWritten(f) /\ c.kind = "disclosure" /\ e = longer(f, c)
<1>1. /\ e = [jwt |-> e.jwt, disclosures |-> e.disclosures]
      /\ e.jwt.kind = "jwt" /\ IsList(e.disclosures)
      /\ \A k \in 1 .. Len(e.disclosures) : e.disclosures[k].kind = "disclosure"
    BY DEF IsWritten
<1>2. CASE e.disclosures = <<>>
    BY <1>1, <1>2 DEF begun
<1>3. CASE e.disclosures # <<>>
    <2>1. PICK ds, c : IsList(ds) /\ e.disclosures = Append(ds, c)
        BY <1>1, <1>3, LastApart
    <2> DEFINE f == [jwt |-> e.jwt, disclosures |-> ds]
    <2>2. /\ Len(e.disclosures) = Len(ds) + 1 /\ \A k \in 1 .. Len(ds) : e.disclosures[k] = ds[k]
          /\ e.disclosures[Len(ds) + 1] = c
        BY <2>1, AppendList
    <2>3. Len(ds) \in Nat
        BY <2>1, ListParts
    <2>4. Len(ds) + 1 \in 1 .. Len(e.disclosures) /\ \A k \in 1 .. Len(ds) : k \in 1 .. Len(e.disclosures)
        BY <2>2, <2>3
    <2>5. c.kind = "disclosure" /\ \A k \in 1 .. Len(ds) : ds[k].kind = "disclosure"
        BY <1>1, <2>2, <2>4
    <2>6. f.jwt = e.jwt /\ f.disclosures = ds /\ f = [jwt |-> f.jwt, disclosures |-> f.disclosures]
        OBVIOUS
    <2>7. e = longer(f, c)
        BY <1>1, <2>1, <2>6 DEF longer
    <2> HIDE DEF f
    <2>8. IsWritten(f)
        BY <1>1, <2>1, <2>5, <2>6 DEF IsWritten
    <2>9. QED  BY <2>5, <2>7, <2>8
<1>4. QED  BY <1>2, <1>3

\* The empty component is of its own kind.
LEMMA EmptyKind == Empty.kind = "empty"
BY DEF Empty

\* Wherever a text begins with that of elements, these have been read.
LEMMA TextScanned ==
    ASSUME NEW cs, IsList(cs), NEW st, Scanned(cs, st),
           NEW es, Written(es), es # <<>>, Begins(chained(es), cs)
    PROVE  st[Len(chained(es))] = scan(es, "more")
<1> DEFINE fits(l, k) == Written(l) /\ l # <<>> /\ Begins(chained(l), cs) /\ Len(chained(l)) = k
           B == {k \in Nat : \E l : fits(l, k) /\ st[k] # scan(l, "more")}
<1>1. B = {}
    <2> SUFFICES ASSUME B # {} PROVE FALSE
        OBVIOUS
    <2>1. B \subseteq Nat
        OBVIOUS
    <2>2. PICK k \in B : \A m \in B : k <= m
        <3> HIDE DEF B
        <3>1. QED  BY <2>1, LeastNatural
    <2>3. PICK l : fits(l, k) /\ st[k] # scan(l, "more")
        OBVIOUS
    <2>4. \A a : \A m \in Nat : fits(a, m) /\ m < k => st[m] = scan(a, "more")
        <3>1. k \in Nat
            OBVIOUS
        <3>2. \A m \in Nat : m < k => m \notin B
            <4> HIDE DEF B
            <4>1. QED  BY <2>2, <3>1
        <3>3. QED  BY <3>2
    <2> HIDE DEF B, fits
    <2>5. Written(l) /\ l # <<>> /\ Begins(chained(l), cs) /\ Len(chained(l)) = k
        BY <2>3 DEF fits
    <2>6. PICK a, e : Written(a) /\ IsWritten(e) /\ l = Append(a, e)
        BY <2>5, WrittenParts
    <2>7. CASE e = begun(e.jwt) /\ e.jwt.kind = "jwt"
        <3> DEFINE c == e.jwt
                   t == before(a)
        <3>1. chained(l) = Append(t, c)
            BY <2>6, <2>7, BegunText
        <3>2. IsList(t) /\ IsList(chained(a))
            BY <2>6, ChainedList
        <3>3. /\ Begins(t, cs) /\ Len(t) + 1 \in 1 .. Len(cs) /\ cs[Len(t) + 1] = c
              /\ k = Len(t) + 1
            <4> HIDE DEF t, c
            <4>1. Begins(Append(t, c), cs)
                BY <2>5, <3>1
            <4>2. QED  BY <2>5, <3>1, <3>2, <4>1, BeginsLess
        <3>4. Len(t) \in Nat /\ k - 1 = Len(t)
            BY <3>2, <3>3, ListParts
        <3>5. st[Len(t)] = scan(a, "jwt")
            <4>1. CASE a = <<>>
                <5>1. t = <<>> /\ Len(t) = 0
                    BY <4>1, EmptyList DEF before
                <5>2. QED  BY <4>1, <5>1 DEF Scanned
            <4>2. CASE a # <<>>
                <5>1. t = Append(chained(a), Empty)
                    BY <4>2 DEF before
                <5> HIDE DEF t
                <5>2. Begins(Append(chained(a), Empty), cs)
                    BY <3>3, <5>1
                <5>3. /\ Begins(chained(a), cs) /\ Len(chained(a)) + 1 \in 1 .. Len(cs)
                      /\ cs[Len(chained(a)) + 1] = Empty
                      /\ Len(t) = Len(chained(a)) + 1
                    BY <3>2, <5>1, <5>2, BeginsLess
                <5>4. Len(chained(a)) \in Nat /\ Len(chained(a)) < k /\ Len(t) - 1 = Len(chained(a))
                    <6>1. Len(chained(a)) \in Nat
                        BY <3>2, ListParts
                    <6>2. QED  BY ONLY <3>3, <3>4, <5>3, <6>1
                <5>5. st[Len(chained(a))] = scan(a, "more")
                    BY <2>4, <2>6, <4>2, <5>3, <5>4 DEF fits
                <5>6. st[Len(t)] = parse_step(st[Len(t) - 1], cs[Len(t)], Len(t), Len(cs))
                    BY <5>3 DEF Scanned
                <5>7. st[Len(t)] = parse_step(scan(a, "more"), Empty, Len(t), Len(cs))
                    BY ONLY <5>3, <5>4, <5>5, <5>6
                <5>8. QED  BY ONLY <5>7, EmptyKind, ElementEnds
            <4>3. QED  BY <4>1, <4>2
        <3>6. st[k] = parse_step(st[k - 1], cs[k], k, Len(cs))
            BY <3>3 DEF Scanned
        <3> HIDE DEF t
        <3>7. st[k] = parse_step(scan(a, "jwt"), c, k, Len(cs))
            BY ONLY <3>3, <3>4, <3>5, <3>6
        <3>8. c.kind = "jwt" /\ l = Append(a, begun(c))
            BY <2>6, <2>7
        <3> HIDE DEF c
        <3>9. st[k] = scan(l, "more")
            BY ONLY <3>7, <3>8, JwtBegins
        <3>10. QED  BY <2>3, <3>9
    <2>8. CASE \E f, c : IsWritten(f) /\ c.kind = "disclosure" /\ e = longer(f, c)
        <3>1. PICK f, c : IsWritten(f) /\ c.kind = "disclosure" /\ e = longer(f, c)
            BY <2>8
        <3> DEFINE b == Append(a, f)
                   t == chained(b)
        <3>2. Written(b) /\ IsList(t)
            <4>1. Written(b)
                <5>1. Written(a) /\ IsWritten(f)
                    BY ONLY <2>6, <3>1
                <5>2. QED  BY ONLY <5>1, ChainedAppend
            <4> HIDE DEF b
            <4>2. QED  BY ONLY <4>1, ChainedList
        <3>3. chained(l) = Append(t, c)
            <4>1. /\ Written(a) /\ IsWritten(f) /\ c.kind = "disclosure"
                  /\ l = Append(a, longer(f, c))
                BY ONLY <2>6, <3>1
            <4>2. chained(Append(a, longer(f, c))) = Append(chained(Append(a, f)), c)
                BY ONLY <4>1, LongerText
            <4>3. QED  BY ONLY <4>1, <4>2
        <3>4. b # <<>>
            <4>1. Len(b) = Len(a) + 1 /\ Len(a) \in Nat
                BY <2>6, AppendList, ListParts DEF Written
            <4>2. Len(b) # 0
                BY <4>1
            <4>3. QED  BY <3>2, <4>2, NoItems DEF Written
        <3>5. /\ Begins(t, cs) /\ Len(t) + 1 \in 1 .. Len(cs) /\ cs[Len(t) + 1] = c
              /\ k = Len(t) + 1
            <4> HIDE DEF t
            <4>1. Begins(Append(t, c), cs)
                BY <2>5, <3>3
            <4>2. QED  BY <2>5, <3>2, <3>3, <4>1, BeginsLess
        <3>6. Len(t) \in Nat /\ k - 1 = Len(t) /\ Len(t) < k
            BY <3>2, <3>5, ListParts
        <3>7. st[Len(t)] = scan(b, "more")
            <4> HIDE DEF b
            <4>1. QED  BY <2>4, <3>2, <3>4, <3>5, <3>6 DEF fits
        <3>8. st[k] = parse_step(st[k - 1], cs[k], k, Len(cs))
            BY <3>5 DEF Scanned
        <3> HIDE DEF t
        <3>9. st[k] = parse_step(scan(b, "more"), c, k, Len(cs))
            BY ONLY <3>5, <3>6, <3>7, <3>8
        <3>10. IsList(a) /\ IsWritten(f) /\ c.kind = "disclosure" /\ l = Append(a, longer(f, c))
            BY <2>6, <3>1 DEF Written
        <3>11. parse_step(scan(Append(a, f), "more"), c, k, Len(cs)) = scan(l, "more")
            BY ONLY <3>10, DisclosureFollows
        <3>12. QED  BY <2>3, <3>9, <3>11
    <2>9. QED  BY <2>6, <2>7, <2>8, ElementParts
<1>2. IsList(chained(es))
    BY ChainedList
<1>3. Len(chained(es)) \in Nat
    BY <1>2, ListParts
<1>4. fits(es, Len(chained(es)))
    OBVIOUS
<1> HIDE DEF fits
<1>5. QED  BY <1>1, <1>3, <1>4

\* What parse gives of the text cs of the elements es that ends with c: a text
\* that ends empty is still open, one that ends in a JWT has its key binding.
ReadAs(cs, es, c) ==
    parse(cs) = IF c.kind = "empty" THEN scan(es, "jwt")
                ELSE [elements |-> es, key_binding |-> <<c>>, next |-> "end"]

\* What is written is read.
LEMMA TextRead ==
    \A es, c, cs : /\ Written(es) /\ es # <<>>
                   /\ c.kind \in {"empty", "jwt"}
                   /\ cs = Append(chained(es), c)
                   => ReadAs(cs, es, c)
<1> TAKE es, c, cs
<1> HAVE /\ Written(es) /\ es # <<>>
         /\ c.kind \in {"empty", "jwt"}
         /\ cs = Append(chained(es), c)
<1> SUFFICES parse(cs) = IF c.kind = "empty" THEN scan(es, "jwt")
                         ELSE [elements |-> es, key_binding |-> <<c>>, next |-> "end"]
    BY DEF ReadAs
<1> DEFINE t == chained(es)
           n == Len(t) + 1
<1>1. IsList(t) /\ Len(t) \in Nat
    BY ChainedList, ListParts
<1>2. /\ IsList(cs) /\ Len(cs) = n
      /\ \A i \in 1 .. Len(t) : cs[i] = t[i]
      /\ cs[n] = c
    <2> HIDE DEF t
    <2>1. cs = Append(t, c)
        BY DEF t
    <2>2. QED  BY ONLY <1>1, <2>1, AppendList DEF n
<1>3. Begins(t, cs)
    <2> HIDE DEF t
    <2>1. QED  BY <1>1, <1>2 DEF Begins
<1>4. PICK st : /\ st[0] = scan(<<>>, "jwt")
                /\ \A i \in 1 .. Len(cs) : st[i] = parse_step(st[i - 1], cs[i], i, Len(cs))
                /\ parse(cs) = st[Len(cs)]
    <2>1. Len(cs) \in Nat
        BY <1>2, ListParts
    <2>2. QED  BY <2>1, ParseSteps
<1>5. st[Len(t)] = scan(es, "more")
    <2>1. Scanned(cs, st)
        BY <1>4 DEF Scanned
    <2>2. IsList(cs) /\ Written(es) /\ es # <<>> /\ Begins(chained(es), cs)
        BY <1>2, <1>3
    <2>3. QED  BY ONLY <2>1, <2>2, TextScanned DEF t
<1> HIDE DEF t
<1>6. n \in 1 .. Len(cs) /\ n - 1 = Len(t)
    BY ONLY <1>1, <1>2
<1>7. parse(cs) = parse_step(scan(es, "more"), c, n, n)
    BY ONLY <1>2, <1>4, <1>5, <1>6
<1>8. CASE c.kind = "empty"
    BY ONLY <1>7, <1>8, ElementEnds
<1>9. CASE c.kind = "jwt"
    <2>1. parse(cs) = IF n = n THEN [elements |-> es, key_binding |-> <<c>>, next |-> "end"]
                      ELSE scan(es, "malformed")
        BY ONLY <1>7, <1>9, KeyBindingEnds
    <2>2. QED  BY ONLY <1>9, <2>1
<1>10. QED  BY <1>8, <1>9

\* What the state of the loop says of the components read so far.
Reads(s, t) ==
    \/ t = <<>> /\ s = scan(<<>>, "jwt")
    \/ \E es : Written(es) /\ es # <<>> /\ t = chained(es) /\ s = scan(es, "more")
    \/ \E es : Written(es) /\ es # <<>> /\ t = before(es) /\ s = scan(es, "jwt")
    \/ \E es, c : /\ Written(es) /\ t = Append(chained(es), c)
                  /\ s = [elements |-> es, key_binding |-> <<c>>, next |-> "end"]

Refused(s) == \E es : s = scan(es, "malformed")

\* A list with an item is not empty.
LEMMA NotNothing ==
    ASSUME NEW s, IsList(s), NEW x
    PROVE  Append(s, x) # <<>>
<1>1. IsList(Append(s, x)) /\ Len(Append(s, x)) = Len(s) + 1 /\ Len(s) \in Nat
    BY AppendList, ListParts
<1>2. Len(Append(s, x)) # 0
    BY <1>1
<1>3. QED  BY <1>1, <1>2, NoItems

\* One more component: what has been scanned is still the text of what was read,
\* or the text is refused.
LEMMA ReadsStep ==
    ASSUME NEW s, NEW t, Reads(s, t), s.next # "end", NEW c, c.kind = "empty" => c = Empty,
           NEW i, NEW n
    PROVE  LET r == parse_step(s, c, i, n) IN
           \/ Reads(r, Append(t, c)) /\ (r.next = "end" => i = n)
           \/ Refused(r)
<1> DEFINE r == parse_step(s, c, i, n)
<1>0. \A es, x : scan(es, x).next = x
    BY DEF scan
<1>1. CASE \E es : Written(es) /\ t = before(es) /\ s = scan(es, "jwt")
    <2>1. PICK es : Written(es) /\ t = before(es) /\ s = scan(es, "jwt")
        BY <1>1
    <2>2. CASE c.kind = "jwt"
        <3> DEFINE fs == Append(es, begun(c))
        <3>1. Written(fs) /\ chained(fs) = Append(t, c)
            BY <2>1, <2>2, BegunText
        <3>2. fs # <<>>
            BY <2>1, NotNothing DEF Written
        <3>3. r = scan(fs, "more")
            BY <2>1, <2>2, JwtBegins
        <3> HIDE DEF r, fs
        <3>4. Reads(r, Append(t, c)) /\ r.next = "more"
            BY <1>0, <3>1, <3>2, <3>3 DEF Reads
        <3>5. QED  BY <3>4 DEF r
    <2>3. CASE c.kind # "jwt"
        BY <2>1, <2>3, NothingElseFits DEF Refused
    <2>4. QED  BY <2>2, <2>3
<1>2. CASE \E es : Written(es) /\ es # <<>> /\ t = chained(es) /\ s = scan(es, "more")
    <2>1. PICK es : Written(es) /\ es # <<>> /\ t = chained(es) /\ s = scan(es, "more")
        BY <1>2
    <2>2. CASE c.kind = "empty"
        <3>1. r = scan(es, "jwt") /\ c = Empty
            BY <2>1, <2>2, ElementEnds
        <3>2. Append(t, c) = before(es)
            BY <2>1, <3>1 DEF before
        <3> HIDE DEF r
        <3>3. Reads(r, Append(t, c)) /\ r.next = "jwt"
            BY <1>0, <2>1, <3>1, <3>2 DEF Reads
        <3>4. QED  BY <3>3 DEF r
    <2>3. CASE c.kind = "disclosure"
        <3>1. PICK a, e : Written(a) /\ IsWritten(e) /\ es = Append(a, e)
            BY <2>1, WrittenParts
        <3> DEFINE fs == Append(a, longer(e, c))
        <3>2. Written(fs) /\ chained(fs) = Append(t, c)
            BY <2>1, <2>3, <3>1, LongerText
        <3>3. IsList(a)
            BY <3>1 DEF Written
        <3>4. fs # <<>>
            BY <3>3, NotNothing
        <3>5. r = scan(fs, "more")
            BY <2>1, <2>3, <3>1, <3>3, DisclosureFollows
        <3> HIDE DEF r, fs
        <3>6. Reads(r, Append(t, c)) /\ r.next = "more"
            BY <1>0, <3>2, <3>4, <3>5 DEF Reads
        <3>7. QED  BY <3>6 DEF r
    <2>4. CASE c.kind = "jwt"
        <3>1. r = IF i = n THEN [elements |-> es, key_binding |-> <<c>>, next |-> "end"]
                  ELSE scan(es, "malformed")
            BY <2>1, <2>4, KeyBindingEnds
        <3> HIDE DEF r
        <3>2. CASE i = n
            <4>1. r = [elements |-> es, key_binding |-> <<c>>, next |-> "end"]
                BY <3>1, <3>2
            <4>2. Reads(r, Append(t, c))
                BY ONLY <2>1, <4>1 DEF Reads
            <4>3. QED  BY <3>2, <4>2 DEF r
        <3>3. CASE i # n
            BY <3>1, <3>3 DEF Refused, r
        <3>4. QED  BY <3>2, <3>3
    <2>5. CASE c.kind \notin {"jwt", "disclosure", "empty"}
        BY <2>1, <2>5, NothingElseFits DEF Refused
    <2>6. QED  BY <2>2, <2>3, <2>4, <2>5
<1>3. CASE t = <<>> /\ s = scan(<<>>, "jwt")
    <2>1. Written(<<>>) /\ before(<<>>) = <<>>
        BY EmptyList DEF Written, before
    <2>2. QED  BY <1>1, <1>3, <2>1
<1>4. s.next = "end" \/ (\E es : Written(es) /\ es # <<>> /\ t = chained(es) /\ s = scan(es, "more"))
        \/ (\E es : Written(es) /\ t = before(es) /\ s = scan(es, "jwt"))
        \/ (t = <<>> /\ s = scan(<<>>, "jwt"))
    BY DEF Reads
<1>5. QED  BY <1>1, <1>2, <1>3, <1>4

\* What is read was written.
LEMMA ReadWasWritten ==
    ASSUME NEW cs, IsList(cs), \A i \in 1 .. Len(cs) : cs[i].kind = "empty" => cs[i] = Empty,
           well_formed(parse(cs))
    PROVE  components(parse(cs)) = cs
<1> DEFINE n == Len(cs)
<1>1. n \in Nat
    BY ListParts
<1>2. PICK st : /\ st[0] = scan(<<>>, "jwt")
                /\ \A i \in 1 .. n : st[i] = parse_step(st[i - 1], cs[i], i, n)
                /\ parse(cs) = st[n]
    BY <1>1, ParseSteps
<1> DEFINE upto(i) == SubSeq(cs, 1, i)
           good(i) == Reads(st[i], upto(i)) /\ (st[i].next = "end" => i = n)
           B == {i \in Nat : i <= n /\ ~(good(i) \/ Refused(st[i]))}
<1>3. cs \in Seq(ToSet(cs))
    BY DEF IsList
<1>4. B = {}
    <2> SUFFICES ASSUME B # {} PROVE FALSE
        OBVIOUS
    <2>1. B \subseteq Nat
        OBVIOUS
    <2>2. PICK k \in B : \A m \in B : k <= m
        <3> HIDE DEF B
        <3>1. QED  BY <2>1, LeastNatural
    <2>3. k \in Nat /\ k <= n /\ ~good(k) /\ ~Refused(st[k])
        OBVIOUS
    <2>4. CASE k = 0
        <3>1. upto(0) = <<>>
            BY SubSeqEmpty
        <3>2. st[0].next = "jwt"
            BY <1>2 DEF scan
        <3>3. QED  BY <1>2, <2>3, <2>4, <3>1, <3>2 DEF Reads
    <2>5. CASE k # 0
        <3>1. k - 1 \in Nat /\ k - 1 <= n /\ ~(k <= k - 1) /\ k \in 1 .. n /\ k - 1 # n
            BY <1>1, <2>3, <2>5
        <3>2. k - 1 \notin B
            <4> HIDE DEF B
            <4>1. QED  BY <2>2, <3>1
        <3>3. good(k - 1) \/ Refused(st[k - 1])
            BY <3>1, <3>2
        <3>4. st[k] = parse_step(st[k - 1], cs[k], k, n)
            BY <1>2, <3>1
        <3>5. upto(k) = Append(upto(k - 1), cs[k])
            <4>1. 1 \in 1 .. n /\ k \in 1 .. n
                BY <3>1
            <4>2. upto(k) = upto(k - 1) \o <<cs[k]>>
                BY <1>3, <4>1, SubSeqRecursiveSecond
            <4>3. IsList(upto(k - 1))
                <5>1. \A i \in 1 .. k - 1 : cs[i] \in ToSet(cs)
                    BY <1>1, <3>1, ListParts
                <5>2. 1 \in Int /\ k - 1 \in Int
                    BY <3>1
                <5>3. upto(k - 1) \in Seq(ToSet(cs))
                    BY ONLY <5>1, <5>2, SubSeqProperties
                <5>4. QED  BY <5>3, ListOf
            <4> HIDE DEF upto
            <4>4. QED  BY <4>2, <4>3, ConcatOne
        <3> HIDE DEF upto
        <3>6. CASE Refused(st[k - 1])
            <4>1. Refused(st[k])
                BY <3>4, <3>6, NothingElseFits DEF Refused
            <4>2. QED  BY <2>3, <4>1
        <3>7. CASE good(k - 1)
            <4>1. Reads(st[k - 1], upto(k - 1)) /\ st[k - 1].next # "end"
                BY <3>1, <3>7
            <4>2. cs[k].kind = "empty" => cs[k] = Empty
                BY <3>1
            <4>3. \/ Reads(st[k], Append(upto(k - 1), cs[k])) /\ (st[k].next = "end" => k = n)
                  \/ Refused(st[k])
                BY ONLY <3>4, <4>1, <4>2, ReadsStep
            <4>4. QED  BY ONLY <2>3, <3>5, <4>3
        <3>8. QED  BY <3>3, <3>6, <3>7
    <2>6. QED  BY <2>4, <2>5
<1>5. good(n) \/ Refused(st[n])
    BY <1>1, <1>4
<1>6. ~Refused(st[n])
    <2>1. well_formed(st[n])
        BY <1>2
    <2>2. ASSUME NEW es, st[n] = scan(es, "malformed") PROVE FALSE
        <3>1. st[n].next = "malformed"
            BY ONLY <2>2 DEF scan
        <3>2. QED  BY ONLY <2>1, <3>1 DEF well_formed
    <2>3. QED  BY <2>2 DEF Refused
<1>7. upto(n) = cs
    BY <1>3, SubSeqFull
<1> HIDE DEF upto
<1>8. Reads(st[n], cs)
    BY <1>5, <1>6, <1>7
<1> DEFINE s == st[n]
<1>9. parse(cs) = s /\ well_formed(s)
    BY <1>2
<1> HIDE DEF s
<1>10. Reads(s, cs)
    BY <1>8 DEF s
<1>11. CASE cs = <<>> /\ s = scan(<<>>, "jwt")
    BY <1>9, <1>11 DEF well_formed, scan
<1>12. CASE \E es : Written(es) /\ es # <<>> /\ cs = chained(es) /\ s = scan(es, "more")
    BY <1>9, <1>12 DEF well_formed, scan
<1>13. CASE \E es : Written(es) /\ es # <<>> /\ cs = before(es) /\ s = scan(es, "jwt")
    <2>1. PICK es : Written(es) /\ es # <<>> /\ cs = before(es) /\ s = scan(es, "jwt")
        BY <1>13
    <2>2. s.elements = es /\ s.key_binding = <<>>
        BY <2>1 DEF scan
    <2>3. components(s) = chained(es) \o <<Empty>>
        BY <2>2 DEF components
    <2>4. chained(es) \o <<Empty>> = Append(chained(es), Empty)
        BY <2>1, ChainedList, ConcatOne
    <2>5. QED  BY <1>9, <2>1, <2>3, <2>4 DEF before
<1>14. CASE \E es, c : /\ Written(es) /\ cs = Append(chained(es), c)
                       /\ s = [elements |-> es, key_binding |-> <<c>>, next |-> "end"]
    <2>1. PICK es, c : /\ Written(es) /\ cs = Append(chained(es), c)
                       /\ s = [elements |-> es, key_binding |-> <<c>>, next |-> "end"]
        BY <1>14
    <2>2. s.elements = es /\ s.key_binding = <<c>>
        BY <2>1
    <2>3. <<c>> # <<>>
        OBVIOUS
    <2>4. components(s) = chained(es) \o <<c>>
        BY <2>2, <2>3 DEF components
    <2>5. chained(es) \o <<c>> = Append(chained(es), c)
        BY <2>1, ChainedList, ConcatOne
    <2>6. QED  BY <1>9, <2>1, <2>4, <2>5
<1>15. QED  BY <1>10, <1>11, <1>12, <1>13, <1>14 DEF Reads

-----------------------------------------------------------------------------
(***************************************************************************)
(* The text of a presentation on its way                                   *)
(***************************************************************************)
Payloads == {r.payload : r \in Roots} \cup UNION {ToSet(ps) : ps \in LinkPayloads}

\* Links have lists of payloads; what is built for a payload and what is left of
\* a list of disclosures are lists.
DisclosuresAreLists ==
    /\ \A ps \in LinkPayloads : IsList(ps)
    /\ \A payload \in Payloads : \A alg, s : \A b \in Build(payload, alg, s) : IsList(b.disclosures)
    /\ \A ds, v, ps : IsList(ds) => IsList(SelectFrom(ds, v, ps))

Listed(p) == \A i \in 1 .. Len(p.links) + 1 : IsList(Elem(p, i).disclosures)

ListInv == presentation # None => Listed(presentation)

\* A delegate payload has a list of disclosures, its wrapper first.
LEMMA WrappedLists ==
    ASSUME NEW b, IsList(b.disclosures), NEW alg, NEW s
    PROVE  IsList(Wrapped(b, alg, s).disclosures)
<1>1. Wrapped(b, alg, s).disclosures = <<new_element(s, b.doc)>> \o b.disclosures
    BY DEF Wrapped
<1>2. IsList(<<new_element(s, b.doc)>>)
    BY SingletonList
<1>3. IsList(<<new_element(s, b.doc)>> \o b.disclosures)
    BY ONLY <1>2, IsList(b.disclosures), ConcatList
<1>4. QED  BY <1>1, <1>3

\* So have all the payloads of a link.
LEMMA BuiltLists ==
    ASSUME DisclosuresAreLists, NEW ps \in LinkPayloads, NEW first, NEW ws \in built(ps, first)
    PROVE  \A i \in 1 .. Len(ps) : IsList(ws[i].disclosures)
<1>1. IsList(ps) /\ DOMAIN ps = 1 .. Len(ps)
    BY ListParts DEF DisclosuresAreLists
<1> SUFFICES ASSUME NEW i \in 1 .. Len(ps) PROVE IsList(ws[i].disclosures)
    OBVIOUS
<1> DEFINE at(k) == salt_of(ps, k, first)
           choices(k) == {Wrapped(b, LinkAlg, at(k) + SaltsOf(ps[k])) : b \in Build(ps[k], LinkAlg, at(k))}
<1>2. ws[i] \in choices(i)
    <2>1. built(ps, first) = {x \in [DOMAIN ps -> UNION {choices(k) : k \in DOMAIN ps}] :
                                \A k \in DOMAIN ps : x[k] \in choices(k)}
        BY DEF built
    <2> HIDE DEF choices
    <2>2. QED  BY <1>1, <2>1
<1>3. PICK b \in Build(ps[i], LinkAlg, at(i)) : ws[i] = Wrapped(b, LinkAlg, at(i) + SaltsOf(ps[i]))
    BY <1>2
<1>4. ps[i] \in Payloads
    BY <1>1, ListParts DEF Payloads
<1>5. IsList(b.disclosures)
    BY <1>3, <1>4 DEF DisclosuresAreLists
<1>6. QED  BY <1>3, <1>5, WrappedLists

\* A text that lost a component.
LEMMA RemovedList ==
    ASSUME NEW C, NEW s \in Seq(C), NEW k \in 1 .. Len(s)
    PROVE  RemoveAt(s, k) \in Seq(C)
<1>1. Len(s) \in Nat /\ \A i \in 1 .. Len(s) : s[i] \in C
    BY LenProperties, ElementOfSeq
<1>2. SubSeq(s, 1, k - 1) \in Seq(C)
    <2>1. \A i \in 1 .. k - 1 : s[i] \in C
        BY <1>1
    <2>2. QED  BY <1>1, <2>1, SubSeqProperties
<1>3. SubSeq(s, k + 1, Len(s)) \in Seq(C)
    <2>1. \A i \in k + 1 .. Len(s) : s[i] \in C
        BY <1>1
    <2>2. QED  BY <1>1, <2>1, SubSeqProperties
<1>4. QED  BY <1>2, <1>3, ConcatProperties DEF RemoveAt

\* A text with a component added.
LEMMA InsertedList ==
    ASSUME NEW C, NEW s \in Seq(C), NEW k \in 1 .. Len(s), NEW x \in C
    PROVE  InsertAt(s, k, x) \in Seq(C)
<1>1. Len(s) \in Nat /\ \A i \in 1 .. Len(s) : s[i] \in C
    BY LenProperties, ElementOfSeq
<1>2. SubSeq(s, 1, k - 1) \in Seq(C)
    <2>1. \A i \in 1 .. k - 1 : s[i] \in C
        BY <1>1
    <2>2. QED  BY <1>1, <2>1, SubSeqProperties
<1>3. SubSeq(s, k, Len(s)) \in Seq(C)
    <2>1. \A i \in k .. Len(s) : s[i] \in C
        BY <1>1
    <2>2. QED  BY <1>1, <2>1, SubSeqProperties
<1>4. <<x>> \in Seq(C)
    OBVIOUS
<1>5. SubSeq(s, 1, k - 1) \o <<x>> \in Seq(C)
    BY <1>2, <1>4, ConcatProperties
<1>6. QED  BY <1>3, <1>5, ConcatProperties DEF InsertAt

\* Every operation of a holder leaves lists of disclosures.
LEMMA ListStep ==
    ASSUME DisclosuresAreLists, NoneIsAbsent, SealInv, ListInv, [Next]_vars
    PROVE  ListInv'
<1>1. ASSUME NEW r \in Roots, Issue(r) PROVE ListInv'
    <2>1. PICK b \in Build(r.payload, r.sd_alg, salt) :
            LET s == salt + SaltsOf(r.payload)
                w == Wrapped(b, r.sd_alg, s)
                plain == r.form = "Credential"
                payload == IF plain THEN b.doc ELSE wrapped(<<w.digest>>)
                ds == IF plain THEN b.disclosures ELSE w.disclosures
            IN  presentation' = [root |-> Element(salt, r.sd_alg, r.typ, "iss", payload, ds),
                                 links |-> <<>>, key_binding |-> None]
        BY <1>1 DEF Issue
    <2> DEFINE w == Wrapped(b, r.sd_alg, salt + SaltsOf(r.payload))
               plain == r.form = "Credential"
               payload == IF plain THEN b.doc ELSE wrapped(<<w.digest>>)
               ds == IF plain THEN b.disclosures ELSE w.disclosures
               e == Element(salt, r.sd_alg, r.typ, "iss", payload, ds)
    <2>2. presentation' = [root |-> e, links |-> <<>>, key_binding |-> None]
        BY <2>1
    <2>3. IsList(b.disclosures)
        BY <2>1 DEF DisclosuresAreLists, Payloads
    <2>4. IsList(w.disclosures)
        BY <2>3, WrappedLists
    <2>5. IsList(ds)
        BY <2>3, <2>4
    <2>6. e.disclosures = ds
        <3> HIDE DEF payload, ds
        <3>1. QED  BY ONLY ElementIsElement DEF e
    <2> HIDE DEF e, ds
    <2>7. presentation'.links = <<>> /\ presentation'.root = e
        BY ONLY <2>2
    <2>8. Len(<<>>) = 0
        OBVIOUS
    <2>9. \A i \in 1 .. Len(presentation'.links) + 1 : i = 1
        BY ONLY <2>7, <2>8
    <2>10. Listed(presentation')
        BY ONLY <2>5, <2>6, <2>7, <2>9 DEF Listed, Elem
    <2>11. QED  BY ONLY <2>10 DEF ListInv
<1>2. ASSUME open_ended \/ presentation # None
      PROVE  /\ Sealing(presentation, made) /\ Listed(presentation) /\ presentation # None
             /\ IsList(presentation.links) /\ Len(made) = Len(presentation.links) + 1
             /\ DOMAIN elements_of = 1 .. Len(made)
             /\ last_element = Elem(presentation, Len(made))
             /\ \A i \in 1 .. Len(made) : elements_of[i] = Elem(presentation, i)
    <2>1. presentation # None /\ Sealing(presentation, made)
        BY <1>2 DEF SealInv, open_ended
    <2>2. IsList(presentation.links) /\ Len(made) = Len(presentation.links) + 1
        BY <2>1 DEF Sealing, Shaped
    <2>3. QED  BY <2>1, <2>2, ElementsInOrder DEF elements_of, last_element, ListInv
<1>3. ASSUME NEW ps \in LinkPayloads, NEW binding, NEW signer, Delegate(ps, binding, signer)
      PROVE  ListInv'
    <2>1. open_ended /\ presentation.key_binding = None /\ NoneIsAbsent
        BY <1>3 DEF Delegate, open_ended
    <2>2. \E e, m : /\ IsElement(e) /\ e.sd_hash = None /\ e.issuer_jwt_hash = None
                    /\ IsList(e.disclosures)
                    /\ IsEntry(m) /\ m.sealed = {}
                    /\ presentation' = [presentation EXCEPT !.links =
                                            Append(@, bound(e, last_element, binding))]
        <3>1. PICK ws \in built(ps, salt), order \in {f \in [1 .. Len(ps) -> 1 .. Len(ps)] : IsInjective(f)} :
              LET n == Len(ps)
                  with_cnf == {i \in 1 .. n : has_cnf(ps[i])}
                  typ == IF with_cnf = {} THEN KB_SD_JWT ELSE "kb-sd-jwt+kb"
                  ds == FlattenSeq([i \in 1 .. n |-> ws[i].disclosures])
                  e == Element(salt, LinkAlg, typ, signer, wrapped([k \in 1 .. n |-> ws[order[k]].digest]), ds)
              IN  presentation' = [presentation EXCEPT !.links = Append(@, bound(e, last_element, binding))]
            BY ONLY <1>3 DEF Delegate
        <3> DEFINE n == Len(ps)
                   with_cnf == {i \in 1 .. n : has_cnf(ps[i])}
                   typ == IF with_cnf = {} THEN KB_SD_JWT ELSE "kb-sd-jwt+kb"
                   lists == [i \in 1 .. n |-> ws[i].disclosures]
                   ds == FlattenSeq(lists)
                   body == wrapped([k \in 1 .. n |-> ws[order[k]].digest])
                   e == Element(salt, LinkAlg, typ, signer, body, ds)
                   m == Made({}, {}, <<>>)
        <3>2. presentation' = [presentation EXCEPT !.links = Append(@, bound(e, last_element, binding))]
            BY <3>1
        <3>3. IsEntry(m) /\ m.sealed = {}
            BY ONLY MadeIsEntry DEF m
        <3>4. /\ IsElement(e) /\ e.sd_hash = None /\ e.issuer_jwt_hash = None
              /\ e.disclosures = ds
            <4> HIDE DEF typ, body, ds
            <4>1. QED  BY ONLY ElementIsElement DEF e
        <3>5. IsList(ds)
            <4>1. n \in Nat
                BY ListParts DEF DisclosuresAreLists
            <4>2. \A i \in 1 .. n : IsList(ws[i].disclosures)
                BY <3>1, BuiltLists
            <4>3. DOMAIN lists = 1 .. n /\ lists = [i \in 1 .. n |-> lists[i]]
                OBVIOUS
            <4>4. \A i \in 1 .. n : lists[i] = ws[i].disclosures
                OBVIOUS
            <4> HIDE DEF lists, n
            <4>5. IsList(lists) /\ Len(lists) = n
                BY ONLY <4>1, <4>3, EnumerationIsList
            <4>6. \A i \in 1 .. Len(lists) : IsList(lists[i])
                BY ONLY <4>2, <4>4, <4>5
            <4>7. QED  BY ONLY <4>5, <4>6, FlattenIsList DEF ds
        <3> HIDE DEF e, m, ds
        <3>6. QED  BY ONLY <3>2, <3>3, <3>4, <3>5
    <2>3. PICK e, m : /\ IsElement(e) /\ e.sd_hash = None /\ e.issuer_jwt_hash = None
                      /\ IsList(e.disclosures)
                      /\ IsEntry(m) /\ m.sealed = {}
                      /\ presentation' = [presentation EXCEPT !.links =
                                              Append(@, bound(e, last_element, binding))]
        BY ONLY <2>2
    <2> DEFINE ll == IF binding = "SdHash" THEN [made EXCEPT ![Len(made)].sealed = {last_element.disclosures}]
                     ELSE made
               p == presentation
               last == last_element
               f == bound(e, last_element, binding)
               q == presentation'
               nn == Append(ll, m)
               mm == made
    <2>4. /\ Sealing(p, mm) /\ p.key_binding = None /\ last = Elem(p, Len(mm))
          /\ Listed(p) /\ Len(mm) = Len(p.links) + 1 /\ IsList(p.links)
        BY <1>2, <2>1
    <2>5. Len(p.links) \in Nat
        BY <2>4, ListParts
    <2>6. ll = IF binding = "SdHash" THEN [mm EXCEPT ![Len(mm)].sealed = {last.disclosures}] ELSE mm
        OBVIOUS
    <2>7. nn = Append(ll, m)
        OBVIOUS
    <2>8. q = [p EXCEPT !.links = Append(p.links, bound(e, last, binding))]
        BY ONLY <2>3
    <2>9. /\ IsElement(e) /\ e.sd_hash = None /\ e.issuer_jwt_hash = None
          /\ IsEntry(m) /\ m.sealed = {}
        BY ONLY <2>3
    <2> HIDE DEF ll, p, last, f, q, nn, mm
    <2>10. OneMore(q, p, mm, e)
        BY ONLY <2>1, <2>4, <2>6, <2>7, <2>8, <2>9, LinkAddedSeals
    <2>11. \A i \in 1 .. Len(q.links) + 1 : i \in 1 .. Len(mm) \/ i = Len(mm) + 1
        BY ONLY <2>4, <2>5, <2>10 DEF OneMore
    <2>12. Listed(q)
        BY ONLY <2>3, <2>4, <2>10, <2>11 DEF Listed, OneMore
    <2>13. Listed(presentation')
        BY ONLY <2>12 DEF q
    <2>14. QED  BY ONLY <2>13 DEF ListInv
<1>4. ASSUME NEW signer, Bind(signer) PROVE ListInv'
    <2> DEFINE kb == KeyBinding(signer, digest(last_element.sd_alg, serialize(last_element)))
    <2>1. open_ended /\ presentation' = [presentation EXCEPT !.key_binding = kb]
        BY <1>4 DEF Bind
    <2>2. Listed(presentation) /\ Sealing(presentation, made)
        BY <1>2, <2>1
    <2>3. presentation = [root |-> presentation.root, links |-> presentation.links,
                          key_binding |-> presentation.key_binding]
        BY ONLY <2>2 DEF Sealing, Shaped
    <2> HIDE DEF kb
    <2>4. presentation'.links = presentation.links /\ presentation'.root = presentation.root
        BY ONLY <2>1, <2>3
    <2>5. Listed(presentation')
        BY ONLY <2>2, <2>4 DEF Listed, Elem
    <2>6. QED  BY ONLY <2>5 DEF ListInv
<1>5. ASSUME presentation # None, NEW i \in DOMAIN elements_of, NEW ds, IsList(ds),
             presentation' = put(i, ds)
      PROVE  ListInv'
    <2> DEFINE p == presentation
               q == presentation'
               mm == made
               nn == [mm EXCEPT ![i].shown = {}]
    <2>1. Sealing(p, mm) /\ i \in 1 .. Len(mm) /\ Listed(p)
        BY <1>2, <1>5
    <2>2. q = IF i = 1 THEN [p EXCEPT !.root.disclosures = ds]
              ELSE [p EXCEPT !.links[i - 1].disclosures = ds]
        BY <1>5 DEF put
    <2>3. nn = [mm EXCEPT ![i].shown = {}]
        OBVIOUS
    <2> HIDE DEF p, q, mm, nn
    <2>4. SameBut(q, p, i, ds)
        BY ONLY <2>1, <2>2, <2>3, NewDisclosuresSeal
    <2>5. IsList(ds)
        BY <1>5
    <2>6. Listed(q)
        BY ONLY <2>1, <2>4, <2>5 DEF Listed, SameBut
    <2>7. Listed(presentation')
        BY ONLY <2>6 DEF q
    <2>8. QED  BY ONLY <2>7 DEF ListInv
<1>6. ASSUME presentation # None, NEW i \in DOMAIN elements_of
      PROVE  IsList(elements_of[i].disclosures)
    <2>1. i \in 1 .. Len(presentation.links) + 1 /\ elements_of[i] = Elem(presentation, i)
        BY <1>2, <1>6
    <2>2. QED  BY <1>2, <1>6, <2>1 DEF Listed
<1>7. ASSUME NEW i \in DOMAIN elements_of, NEW ps, presentation # None, Select(i, ps) PROVE ListInv'
    <2> DEFINE ds == SelectFrom(elements_of[i].disclosures, view(elements_of[i]), ps)
    <2>1. presentation' = put(i, ds)
        BY <1>7 DEF Select
    <2>2. IsList(ds)
        BY <1>6, <1>7 DEF DisclosuresAreLists
    <2> HIDE DEF ds
    <2>3. QED  BY <1>5, <1>7, <2>1, <2>2
<1>8. ASSUME NEW i \in DOMAIN elements_of, NEW k \in DOMAIN elements_of[i].disclosures,
             presentation # None, Drop(i, k)
      PROVE  ListInv'
    <2> DEFINE was == elements_of[i].disclosures
               ds == RemoveAt(was, k)
    <2>1. presentation' = put(i, ds)
        BY <1>8 DEF Drop
    <2>2. IsList(was) /\ k \in DOMAIN was
        BY <1>6, <1>8
    <2> HIDE DEF was
    <2>3. was \in Seq(ToSet(was)) /\ k \in 1 .. Len(was)
        BY <2>2, ListParts DEF IsList
    <2>4. IsList(ds)
        BY <2>3, RemovedList, ListOf
    <2> HIDE DEF ds
    <2>5. QED  BY <1>5, <1>8, <2>1, <2>4
<1>9. ASSUME UNCHANGED vars PROVE ListInv'
    BY <1>9 DEF ListInv, vars
<1>10. QED  BY <1>1, <1>3, <1>4, <1>7, <1>8, <1>9 DEF Next

\* The disclosures of every element are always a list.
LEMMA ListsKept ==
    ASSUME DisclosuresAreLists, NoneIsAbsent
    PROVE  Spec => []ListInv
<1>1. Init => ListInv
    BY DEF Init, ListInv
<1>2. SealInv /\ ListInv /\ [Next]_vars => ListInv'
    BY ListStep
<1>3. QED  BY <1>1, <1>2, SealsKept, PTL DEF Spec

\* Components of a text, damaged or not: an empty one is nothing but empty.
Told(C) == \A c \in C : c.kind = "empty" => c = Empty

\* Of the components of a text only the empty one is of its kind.
LEMMA WrittenIn ==
    ASSUME NEW es, Written(es)
    PROVE  \E C : chained(es) \in Seq(C) /\ Told(C)
<1> DEFINE n == Len(es)
           C == {Empty} \cup {es[i].jwt : i \in 1 .. n}
                    \cup UNION {{es[i].disclosures[k] : k \in 1 .. Len(es[i].disclosures)} : i \in 1 .. n}
           piece(i) == (IF i = 1 THEN <<>> ELSE <<Empty>>) \o joined(es[i])
           pieces == [i \in DOMAIN es |-> piece(i)]
<1>1. n \in Nat /\ DOMAIN es = 1 .. n
    BY ListParts DEF Written
<1>2. Told(C)
    <2> SUFFICES ASSUME NEW c \in C, c.kind = "empty" PROVE c = Empty
        BY DEF Told
    <2>1. CASE \E i \in 1 .. n : c = es[i].jwt
        BY <2>1 DEF Written, IsWritten
    <2>2. CASE \E i \in 1 .. n : \E k \in 1 .. Len(es[i].disclosures) : c = es[i].disclosures[k]
        BY <2>2 DEF Written, IsWritten
    <2>3. QED  BY <2>1, <2>2
<1>3. ASSUME NEW i \in 1 .. n PROVE piece(i) \in Seq(C)
    <2> DEFINE e == es[i]
               ds == e.disclosures
    <2>1. IsList(ds)
        BY DEF Written, IsWritten
    <2>2. \A k \in 1 .. Len(ds) : ds[k] \in C
        OBVIOUS
    <2>3. e.jwt \in C /\ Empty \in C
        OBVIOUS
    <2> HIDE DEF C, ds
    <2>4. Len(ds) \in Nat /\ ds \in [1 .. Len(ds) -> ToSet(ds)]
        BY <2>1, LenProperties DEF IsList
    <2>5. ds \in [1 .. Len(ds) -> C]
        BY ONLY <2>2, <2>4
    <2>6. ds \in Seq(C)
        BY ONLY <2>4, <2>5
    <2>7. <<e.jwt>> \in Seq(C) /\ <<Empty>> \in Seq(C) /\ <<>> \in Seq(C)
        BY ONLY <2>3
    <2>8. joined(e) \in Seq(C)
        BY <2>6, <2>7, ConcatProperties DEF joined, ds
    <2>9. QED  BY <2>7, <2>8, ConcatProperties
<1>4. DOMAIN pieces = 1 .. n /\ pieces = [i \in 1 .. n |-> pieces[i]] /\ \A i \in 1 .. n : pieces[i] = piece(i)
    <2> HIDE DEF piece
    <2>1. QED  BY <1>1
<1>5. chained(es) = FlattenSeq(pieces)
    BY DEF chained
<1> HIDE DEF pieces, piece, C
<1>6. IsList(pieces) /\ Len(pieces) = n
    BY <1>1, <1>4, EnumerationIsList
<1>7. \A i \in 1 .. Len(pieces) : pieces[i] \in Seq(C)
    BY ONLY <1>3, <1>4, <1>6
<1>8. FlattenSeq(pieces) \in Seq(C)
    BY ONLY <1>6, <1>7, FlattenIn
<1>9. QED  BY <1>2, <1>5, <1>8

\* A text with a component lost, repeated or replaced consists of such, too.
LEMMA DamagedIn ==
    ASSUME NEW C, Told(C), NEW cs \in Seq(C), NEW x \in damaged(cs)
    PROVE  \E D : x \in Seq(D) /\ Told(D)
<1> DEFINE D == C \cup {Empty, Odd}
<1>1. Told(D)
    BY DEF Told, Odd
<1>2. cs \in Seq(D) /\ Empty \in D /\ Odd \in D
    BY SeqMonotonic
<1> HIDE DEF D
<1>3. DOMAIN cs = 1 .. Len(cs)
    BY LenProperties
<1>4. CASE \E i \in DOMAIN cs : x = RemoveAt(cs, i)
    BY <1>1, <1>2, <1>3, <1>4, RemovedList
<1>5. CASE \E i \in DOMAIN cs : x = InsertAt(cs, i, cs[i])
    <2>1. PICK i \in 1 .. Len(cs) : x = InsertAt(cs, i, cs[i])
        BY <1>3, <1>5
    <2>2. cs[i] \in D
        BY <1>2, ElementOfSeq
    <2>3. InsertAt(cs, i, cs[i]) \in Seq(D)
        BY <1>2, <2>2, InsertedList
    <2>4. QED  BY <1>1, <2>1, <2>3
<1>6. CASE \E i \in DOMAIN cs : \E y \in {Empty, Odd} : x = [cs EXCEPT ![i] = y]
    <2>1. PICK i \in 1 .. Len(cs), y \in {Empty, Odd} : x = [cs EXCEPT ![i] = y]
        BY <1>3, <1>6
    <2>2. y \in D
        BY <1>2
    <2>3. [cs EXCEPT ![i] = y] \in Seq(D)
        BY <1>2, <2>2, ExceptSeq
    <2>4. QED  BY <1>1, <2>1, <2>3
<1>7. QED  BY <1>4, <1>5, <1>6 DEF damaged

\* A text that parse accepts is the text of what it is read as.
LEMMA ToldIsRead ==
    ASSUME NEW C, Told(C), NEW x \in Seq(C), well_formed(parse(x))
    PROVE  components(parse(x)) = x
<1>1. IsList(x)
    BY ListOf
<1>2. \A i \in 1 .. Len(x) : x[i].kind = "empty" => x[i] = Empty
    BY ElementOfSeq DEF Told
<1>3. QED  BY <1>1, <1>2, ReadWasWritten

\* The elements as they are sent.
LEMMA SentIsWritten ==
    ASSUME Sealing(presentation, made), Listed(presentation)
    PROVE  Written(sent.elements) /\ sent.elements # <<>>
<1> DEFINE n == Len(made)
           es == sent.elements
           d(i) == elements_of[i].disclosures
<1>1. IsList(presentation.links) /\ n = Len(presentation.links) + 1
    BY DEF Sealing, Shaped
<1>2. /\ DOMAIN elements_of = 1 .. n
      /\ \A i \in 1 .. n : elements_of[i] = Elem(presentation, i)
      /\ n \in Nat
    BY <1>1, ElementsInOrder DEF elements_of
<1>3. \A i \in 1 .. n : IsList(d(i))
    BY <1>1, <1>2 DEF Listed
<1> DEFINE shows(i) == [k \in DOMAIN d(i) |-> Disclosed(d(i)[k].salt)]
           element(i) == [jwt |-> Jwt(elements_of[i].jwt), disclosures |-> shows(i)]
<1>4. es = [i \in 1 .. n |-> element(i)]
    BY <1>2 DEF sent
<1>5. ASSUME NEW i \in 1 .. n PROVE IsWritten(element(i))
    <2> DEFINE ds == shows(i)
               e == element(i)
    <2>1. Len(d(i)) \in Nat /\ DOMAIN d(i) = 1 .. Len(d(i))
        BY <1>3, ListParts
    <2>2. /\ DOMAIN ds = 1 .. Len(d(i)) /\ ds = [k \in 1 .. Len(d(i)) |-> ds[k]]
          /\ \A k \in 1 .. Len(d(i)) : ds[k] = Disclosed(d(i)[k].salt)
        BY <2>1
    <2> HIDE DEF ds
    <2>3. IsList(ds) /\ Len(ds) = Len(d(i))
        BY ONLY <2>1, <2>2, EnumerationIsList
    <2>4. \A k \in 1 .. Len(ds) : ds[k].kind = "disclosure"
        <3>1. \A x : Disclosed(x).kind = "disclosure"
            BY DEF Disclosed
        <3>2. QED  BY ONLY <2>2, <2>3, <3>1
    <2>5. e = [jwt |-> Jwt(elements_of[i].jwt), disclosures |-> ds]
        BY DEF ds
    <2> HIDE DEF e
    <2>6. e.jwt.kind = "jwt" /\ e.disclosures = ds /\ e = [jwt |-> e.jwt, disclosures |-> e.disclosures]
        BY ONLY <2>5 DEF Jwt
    <2>7. IsWritten(e)
        BY <2>3, <2>4, <2>6 DEF IsWritten
    <2>8. QED  BY <2>7 DEF e
<1> HIDE DEF element, es
<1>6. DOMAIN es = 1 .. n /\ es = [i \in 1 .. n |-> es[i]] /\ \A i \in 1 .. n : es[i] = element(i)
    BY ONLY <1>4
<1>7. IsList(es) /\ Len(es) = n
    BY ONLY <1>2, <1>6, EnumerationIsList
<1>8. Written(es)
    BY ONLY <1>5, <1>6, <1>7 DEF Written
<1>9. es # <<>>
    <2>1. Len(es) # 0
        <3>1. Len(presentation.links) \in Nat
            BY <1>1, ListParts
        <3>2. QED  BY <1>1, <1>7, <3>1
    <2>2. QED  BY <1>7, <2>1, NoItems
<1>10. QED  BY <1>8, <1>9 DEF es

\* presentation.rs: what is serialized is parsed into the same elements and
\* KB-JWT, for any number of either, and a text in which a component was lost,
\* repeated or replaced is refused or is the text of what it is parsed into: no
\* two presentations share a text, and no text is read in part.
THEOREM TextHasOneReading ==
    ASSUME DisclosuresAreLists, NoneIsAbsent
    PROVE  Spec => []TextIsUnambiguous
<1>1. ASSUME SealInv, ListInv PROVE TextIsUnambiguous
    <2> SUFFICES ASSUME presentation # None
                 PROVE  LET cs == components(sent)
                        IN  /\ reads_as(cs, sent)
                            /\ \A x \in damaged(cs) : well_formed(parse(x)) => components(parse(x)) = x
        BY DEF TextIsUnambiguous
    <2>1. Sealing(presentation, made) /\ Listed(presentation)
        BY <1>1 DEF SealInv, ListInv
    <2> DEFINE es == sent.elements
               cs == components(sent)
               c == IF presentation.key_binding = None THEN Empty ELSE Jwt(0)
    <2>2. Written(es) /\ es # <<>>
        BY <2>1, SentIsWritten
    <2>3. sent.key_binding = IF presentation.key_binding = None THEN <<>> ELSE <<Jwt(0)>>
        BY DEF sent
    <2>4. <<Jwt(0)>> # <<>>
        OBVIOUS
    <2>5. cs = chained(es) \o <<c>>
        BY <2>3, <2>4 DEF components
    <2>6. IsList(chained(es))
        BY <2>2, ChainedList
    <2> HIDE DEF es, c
    <2>7. cs = Append(chained(es), c)
        BY <2>5, <2>6, ConcatOne
    <2>8. c.kind = IF presentation.key_binding = None THEN "empty" ELSE "jwt"
        BY DEF c, Empty, Jwt
    <2>9. parse(cs) = IF c.kind = "empty" THEN scan(es, "jwt")
                      ELSE [elements |-> es, key_binding |-> <<c>>, next |-> "end"]
        <3>1. c.kind \in {"empty", "jwt"}
            BY <2>8
        <3> HIDE DEF cs
        <3>2. ReadAs(cs, es, c)
            <4>1. \A ee, dd :
                  /\ Written(ee) /\ ee # <<>>
                  /\ dd.kind \in {"empty", "jwt"}
                  => ReadAs(Append(chained(ee), dd), ee, dd)
                BY ONLY TextRead
            <4>2. Written(es) /\ es # <<>>
                BY <2>2
            <4>3. Written(es) /\ es # <<>> /\ c.kind \in {"empty", "jwt"} => ReadAs(Append(chained(es), c), es, c)
                BY ONLY <4>1
            <4>4. ReadAs(Append(chained(es), c), es, c)
                BY ONLY <4>3, <4>2, <3>1
            <4>5. QED BY ONLY <4>4, <2>7
        <3>3. QED  BY <3>2 DEF ReadAs
    <2> HIDE DEF cs
    <2>10. reads_as(cs, sent)
        <3>1. CASE presentation.key_binding = None
            <4>1. parse(cs) = [elements |-> es, key_binding |-> <<>>, next |-> "jwt"]
                BY <2>8, <2>9, <3>1 DEF scan
            <4>2. QED  BY <2>2, <2>3, <3>1, <4>1 DEF reads_as, well_formed, es
        <3>2. CASE presentation.key_binding # None
            <4>1. parse(cs) = [elements |-> es, key_binding |-> <<c>>, next |-> "end"] /\ c = Jwt(0)
                BY <2>8, <2>9, <3>2 DEF c
            <4>2. QED  BY <2>3, <3>2, <4>1 DEF reads_as, well_formed, es
        <3>3. QED  BY <3>1, <3>2
    <2>11. PICK C : cs \in Seq(C) /\ Told(C)
        <3>1. PICK B : chained(es) \in Seq(B) /\ Told(B)
            BY <2>2, WrittenIn
        <3> DEFINE D == B \cup {c}
        <3>2. Told(D)
            BY <3>1 DEF Told, c, Jwt
        <3>3. chained(es) \in Seq(D) /\ c \in D
            BY <3>1, SeqMonotonic
        <3> HIDE DEF D
        <3>4. cs \in Seq(D)
            BY <2>7, <3>3, AppendProperties
        <3>5. QED  BY <3>2, <3>4
    <2>12. ASSUME NEW x \in damaged(cs), well_formed(parse(x)) PROVE components(parse(x)) = x
        BY <2>11, <2>12, DamagedIn, ToldIsRead
    <2>13. QED  BY <2>10, <2>12 DEF cs
<1>2. QED  BY <1>1, SealsKept, ListsKept, PTL
=============================================================================
