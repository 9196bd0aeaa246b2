------------------------ MODULE SelectiveDisclosure -------------------------
(***************************************************************************)
(* Selective disclosure in crates/sdjwt: the issuer's side that hides      *)
(* parts of a claim set behind digests (conceal.rs), the processing that   *)
(* puts disclosed parts back (process.rs), and the holder's choice of the  *)
(* disclosures to pass on (sdjwt.rs: select).                              *)
(*                                                                         *)
(* Values, paths and disclosures are those of ClaimTrees.                  *)
(***************************************************************************)
EXTENDS ClaimTrees

-----------------------------------------------------------------------------
(***************************************************************************)
(* Pointers, whose texts are taken as parsed.                              *)
(***************************************************************************)
\* Pointer::resolve: the empty pointer is refused.
RECURSIVE reaches(_, _)
reaches(v, path) ==
    IF path = <<>> THEN TRUE
    ELSE has_child(v, Head(path)) /\ reaches(child(v, Head(path)), Tail(path))

resolve(doc, path) == path # <<>> /\ reaches(doc, path)

RECURSIVE lookup(_, _)
lookup(v, path) == IF path = <<>> THEN v ELSE lookup(child(v, Head(path)), Tail(path))

\* lookup_mut, with what is then stored there.
RECURSIVE store_at(_, _, _)
store_at(v, path, x) ==
    LET s == Head(path) IN
    IF path = <<>> THEN x
    ELSE IF is_key(s) THEN [v EXCEPT !.obj[s.key] = store_at(@, Tail(path), x)]
    ELSE [v EXCEPT !.arr[s.index] = store_at(@, Tail(path), x)]

-----------------------------------------------------------------------------
(***************************************************************************)
(* SdPayload::build                                                        *)
(***************************************************************************)
push_sd(v, g) == [v EXCEPT !.sd = @ \cup {g}]

conceal_at(doc, path, alg, salt) ==
    LET up == Front(path)
        last == Last(path)
        parent == lookup(doc, up)
        value == child(parent, last)
        d == IF is_key(last) THEN new_property(salt, last.key, value) ELSE new_element(salt, value)
        rest == IF is_key(last)
                  THEN push_sd([parent EXCEPT !.obj =
                           [n \in DOMAIN parent.obj \ {last.key} |-> parent.obj[n]]],
                               digest_of(alg, d))
                  ELSE [parent EXCEPT !.arr[last.index] = [digest |-> digest_of(alg, d)]]
    IN  [doc |-> store_at(doc, up, rest), disclosure |-> d]

\* An array takes each of its decoys anywhere.
RECURSIVE add_decoys(_, _, _, _)
add_decoys(v, count, alg, salt) ==
    LET g == digest_of(alg, [decoy |-> salt]) IN
    IF count = 0 THEN {v}
    ELSE IF is_object(v) THEN add_decoys(push_sd(v, g), count - 1, alg, salt + 1)
    ELSE UNION {add_decoys([arr |-> InsertAt(v.arr, i, [digest |-> g])], count - 1, alg, salt + 1) :
                    i \in 1 .. Len(v.arr) + 1}

\* The documents and disclosures that may come of it.
RECURSIVE apply_ops(_, _, _, _)
apply_ops(doc, ops, alg, salt) ==
    LET o == Head(ops)
        hidden == conceal_at(doc, o.at, alg, salt)
        padded == {store_at(doc, o.at, v) : v \in add_decoys(lookup(doc, o.at), o.count, alg, salt)}
    IN  IF ops = <<>> THEN {[doc |-> doc, disclosures |-> <<>>]}
        ELSE IF o.op = "decoys"
          THEN UNION {apply_ops(d, Tail(ops), alg, salt + o.count) : d \in padded}
        ELSE {[doc |-> b.doc, disclosures |-> <<hidden.disclosure>> \o b.disclosures] :
                  b \in apply_ops(hidden.doc, Tail(ops), alg, salt + 1)}

\* Pointers that do not resolve, and decoys for a leaf, are refused.
buildable(payload) ==
    /\ \A p \in payload.concealed : resolve(payload.claims, p)
    /\ \A x \in payload.decoys : reaches(payload.claims, x.at)
          /\ "leaf" \notin DOMAIN lookup(payload.claims, x.at)

build(payload, alg, salt) ==
    IF buildable(payload)
      THEN apply_ops(payload.claims, SetToSortSeq(operations(payload), sooner), alg, salt)
      ELSE {}

\* How many salts it takes.
RECURSIVE total(_)
total(ops) == IF ops = {} THEN 0
              ELSE LET o == CHOOSE x \in ops : TRUE IN o.count + total(ops \ {o})
salts_of(payload) == total(operations(payload))

-----------------------------------------------------------------------------
(***************************************************************************)
(* process: the Walker over objects and arrays.  A walk yields the value   *)
(* with what is disclosed put back, the digests met with their places, the *)
(* path of each disclosure used, and what was wrong; which of several      *)
(* errors is answered is left out.                                         *)
(***************************************************************************)
under(s, xs) == {[x EXCEPT !.at = <<s>> \o x.at] : x \in xs}

Walk(v, met, paths, errors) == [value |-> v, met |-> met, paths |-> paths, errors |-> errors]

RECURSIVE walk(_, _, _)

walk_object(o, ds, alg) ==
    LET plain == DOMAIN o.obj
        found == {d \in ds : digest_of(alg, d) \in o.sd}
        added == {d \in found : is_property(d) /\ d.name \notin plain}
        names == plain \cup {d.name : d \in added}
        value(n) == IF n \in plain THEN o.obj[n] ELSE (CHOOSE d \in added : d.name = n).value
        walks == {<<n, walk(value(n), ds, alg)>> : n \in names}
        sub(n) == (CHOOSE x \in walks : x[1] = n)[2]
    IN  Walk(Object([n \in names |-> sub(n).value]),
             {[digest |-> g, at |-> <<>>] : g \in o.sd}
                 \cup UNION {under(Key(x[1]), x[2].met) : x \in walks},
             UNION {under(Key(x[1]), x[2].paths) : x \in walks}
                 \cup {[disclosure |-> d, at |-> <<Key(d.name)>>] : d \in added},
             UNION {x[2].errors : x \in walks}
                 \cup (IF \A d \in found : is_property(d) THEN {} ELSE {"InvalidDisclosure"})
                 \cup (IF Cardinality(found) = Cardinality(names \ plain)
                         THEN {} ELSE {"ClaimCollision"}))

walk_array(a, ds, alg) ==
    LET all == DOMAIN a.arr
        digests == {i \in all : concealed_item(a.arr[i])}
        hits == UNION {{[at |-> i, disclosure |-> d] :
                            d \in {x \in ds : digest_of(alg, x) = a.arr[i].digest}} : i \in digests}
        kept == (all \ digests) \cup {h.at : h \in hits}
        walks == {[at |-> i, walk |-> walk(a.arr[i], ds, alg)] : i \in all \ digests}
                     \cup {[at |-> h.at, walk |-> walk(h.disclosure.value, ds, alg)] : h \in hits}
        order == SetToSortSeq(walks, LAMBDA x, y : x.at < y.at)
    IN  Walk(Array([k \in DOMAIN order |-> order[k].walk.value]),
             {[digest |-> a.arr[i].digest, at |-> <<Index(i)>>] : i \in digests}
                 \cup UNION {under(Index(x.at), x.walk.met) : x \in walks},
             UNION {under(Index(index(kept, x.at)), x.walk.paths) : x \in walks}
                 \cup {[disclosure |-> h.disclosure, at |-> <<Index(index(kept, h.at))>>] : h \in hits},
             UNION {x.walk.errors : x \in walks}
                 \cup (IF \E h \in hits : is_property(h.disclosure) THEN {"InvalidDisclosure"} ELSE {}))

walk(v, ds, alg) ==
    IF is_object(v) THEN walk_object(v, ds, alg)
    ELSE IF is_array(v) THEN walk_array(v, ds, alg)
    ELSE Walk(v, {}, {}, {})

\* A disclosure sent twice, a digest met twice, a disclosure nothing refers to.
process(payload, disclosures, alg) ==
    LET ds == ToSet(disclosures)
        w == walk(payload, ds, alg)
        errors ==
            w.errors
            \cup (IF Cardinality(ds) # Len(disclosures) THEN {"DuplicateDisclosure"} ELSE {})
            \cup (IF \E x, y \in w.met : x # y /\ x.digest = y.digest THEN {"DuplicateDigest"} ELSE {})
            \cup (IF ds # {x.disclosure : x \in w.paths} THEN {"UnreferencedDisclosure"} ELSE {})
    IN  [errors |-> errors, claims |-> w.value, paths |-> w.paths]

-----------------------------------------------------------------------------
needed(at, pointers) == \E w \in pointers : comparable(at, w)

selectable(r, pointers) == r.errors = {} /\ \A w \in pointers : resolve(r.claims, w)

\* SdJwt::select: the disclosures that lead to a pointer or lie below it.
select(disclosures, r, pointers) ==
    LET path(d) == (CHOOSE x \in r.paths : x.disclosure = d).at
    IN  SelectSeq(disclosures, LAMBDA d : needed(path(d), pointers))

-----------------------------------------------------------------------------
(***************************************************************************)
(* Reference: the part of a claim set that is left when the parts at some  *)
(* paths are taken out, and the place a path into what is left had before. *)
(***************************************************************************)
RECURSIVE Without(_, _, _)
Without(v, hidden, at) ==
    LET left == {s \in IF is_object(v) THEN {Key(n) : n \in DOMAIN v.obj}
                       ELSE IF is_array(v) THEN {Index(i) : i \in DOMAIN v.arr} ELSE {} :
                    Append(at, s) \notin hidden}
        below(s) == Without(child(v, s), hidden, Append(at, s))
    IN  IF is_object(v) THEN Object([n \in {s.key : s \in left} |-> below(Key(n))])
        ELSE IF is_array(v)
          THEN LET kept == SetToSortSeq({s.index : s \in left}, <)
               IN  Array([k \in 1 .. Len(kept) |-> below(Index(kept[k]))])
        ELSE v

RECURSIVE Original(_, _, _, _)
Original(v, hidden, at, path) ==
    IF path = <<>> THEN at
    ELSE LET s == Head(path)
             kept == SetToSortSeq({i \in IF is_array(v) THEN DOMAIN v.arr ELSE {} :
                                     Append(at, Index(i)) \notin hidden}, <)
             o == IF is_key(s) THEN s ELSE Index(kept[s.index])
         IN  Original(child(v, o), hidden, Append(at, o), Tail(path))

\* Every path into a value.
RECURSIVE PathsIn(_)
PathsIn(v) ==
    LET segments == IF is_object(v) THEN {Key(n) : n \in DOMAIN v.obj}
                    ELSE IF is_array(v) THEN {Index(i) : i \in DOMAIN v.arr} ELSE {}
    IN  UNION {{<<s>>} \cup {<<s>> \o p : p \in PathsIn(child(v, s))} : s \in segments}
=============================================================================
