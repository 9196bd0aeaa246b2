----------------------------- MODULE ClaimTrees -----------------------------
(***************************************************************************)
(* The data of selective disclosure in crates/sdjwt: claim sets, paths     *)
(* into them, disclosures and their digests.                               *)
(*                                                                         *)
(*   value        [leaf], [obj, sd] or [arr]: an object is a function of   *)
(*                its names together with its _sd digests, which are kept  *)
(*                sorted and so are a set; an item of an array is a value  *)
(*                or [digest], the object {"...": digest}                  *)
(*   path         a sequence of segments [key] or [index], from 1          *)
(*   disclosure   [salt, name, value], or [salt, value] of an array item   *)
(*   SdPayload    [claims, concealed, decoys]: paths to conceal and        *)
(*                [at, count] for decoys                                   *)
(*                                                                         *)
(* Salts are numbers that never repeat; a digest is what it is made of.    *)
(***************************************************************************)
EXTENDS Integers, Sequences, FiniteSets, SequencesExt

Key(n) == [key |-> n]
Index(i) == [index |-> i]
Leaf(x) == [leaf |-> x]
Object(f) == [obj |-> f, sd |-> {}]
Array(s) == [arr |-> s]

is_object(v) == "obj" \in DOMAIN v
is_array(v) == "arr" \in DOMAIN v
is_key(s) == "key" \in DOMAIN s

\* element_digest: whether an item is {"...": digest}.
concealed_item(v) == "digest" \in DOMAIN v

new_property(salt, name, value) == [salt |-> salt, name |-> name, value |-> value]
new_element(salt, value) == [salt |-> salt, value |-> value]
is_property(d) == "name" \in DOMAIN d

digest_of(alg, d) == [alg |-> alg, of |-> d]

has_child(v, s) ==
    IF is_key(s) THEN is_object(v) /\ s.key \in DOMAIN v.obj
                 ELSE is_array(v) /\ s.index \in DOMAIN v.arr

child(v, s) == IF is_key(s) THEN v.obj[s.key] ELSE v.arr[s.index]

-----------------------------------------------------------------------------
\* What the issuer asked for: parts to hide and decoys to add.
operations(payload) ==
    {[op |-> "conceal", at |-> p, count |-> 1] : p \in payload.concealed}
        \cup {[op |-> "decoys", at |-> x.at, count |-> x.count] : x \in payload.decoys}

\* Deepest first; a container gets its decoys before it is itself hidden.
sooner(a, b) ==
    \/ Len(a.at) > Len(b.at)
    \/ Len(a.at) = Len(b.at) /\ a.op = "decoys" /\ b.op = "conceal"

-----------------------------------------------------------------------------
\* Mutant: the index in the array as signed is recorded, not in what is left.
index_Raw(kept, i) == i

\* Where an item lands among those that are left.
index(kept, i) == Cardinality({j \in kept : j <= i})

\* One of the paths leads to or below the other.
comparable(p, q) == IsPrefix(p, q) \/ IsPrefix(q, p)
=============================================================================
